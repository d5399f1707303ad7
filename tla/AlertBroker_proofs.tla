------------------------- MODULE AlertBroker_proofs -------------------------
(***************************************************************************)
(* Proofs about module AlertBroker: for any set of subscribers, any number *)
(* of alerts and any size of the socket buffers.                           *)
(***************************************************************************)
EXTENDS AlertBroker, FiniteSetTheorems, SequenceTheorems, TLAPS

-----------------------------------------------------------------------------
(***************************************************************************)
(* The inductive invariant.                                                *)
(***************************************************************************)

\* The mutex: one handler broadcasts, and its alert is the last of the log.
OneBroadcasts ==
  \A m, n \in Alerts : handler[m] = "broadcasting" /\ handler[n] = "broadcasting" => m = n

BroadcastsLast == \A n \in Alerts : handler[n] = "broadcasting" => Len(log) > 0 /\ log[Len(log)] = n

OnlyBroadcastWrites == \A n \in Alerts : remaining[n] # {} => handler[n] = "broadcasting"

\* The log holds each alert whose loop has started, once.
Taken(n) == handler[n] \in {"broadcasting", "answered"}

LogHoldsTaken ==
  /\ \A k \in 1 .. Len(log) : Taken(log[k])
  /\ \A j, k \in 1 .. Len(log) : log[j] = log[k] => j = k

NotYetPosted == \A n \in Alerts : n > ticks => handler[n] = "none"

\* A connection waits to be accepted, is in the listener's hand, or in the map; one
\* that is not in the map yet has carried nothing.
Pending(s) == s \in backlog \/ listener = s

Connections ==
  \A s \in Subscribers :
    /\ ~(s \in backlog /\ listener = s)
    /\ s \in subscribers => ~Pending(s) /\ process[s] # "new"
    /\ Pending(s) => process[s] # "new"
    /\ process[s] = "reading" => s \in subscribers \/ Pending(s)
    /\ process[s] = "new" \/ Pending(s) => socket[s] = <<>> /\ printed[s] = <<>>
    /\ joinedAt[s] <= Len(log)

\* What is still to be written to s of the alert being broadcast.
Late(s) == \E n \in Alerts : s \in remaining[n]

\* StreamComplete, alert by alert.
StreamOf(s) ==
  /\ Len(log) - joinedAt[s] = Len(printed[s]) + Len(socket[s]) + (IF Late(s) THEN 1 ELSE 0)
  /\ \A k \in 1 .. Len(printed[s]) : printed[s][k] = log[joinedAt[s] + k]
  /\ \A k \in 1 .. Len(socket[s]) : socket[s][k] = log[joinedAt[s] + Len(printed[s]) + k]

Streams == \A s \in subscribers : process[s] # "gone" => StreamOf(s)

Broker ==
  /\ TypeOK /\ OneBroadcasts /\ BroadcastsLast /\ OnlyBroadcastWrites /\ LogHoldsTaken
  /\ NotYetPosted /\ Connections /\ Streams
-----------------------------------------------------------------------------
(***************************************************************************)
(* Type correctness and the log.                                           *)
(***************************************************************************)

\* The numbers 1 .. n are n.
LEMMA IntervalSize ==
  ASSUME NEW n \in Nat
  PROVE  IsFiniteSet(1 .. n) /\ Cardinality(1 .. n) = n
<1>1. 1 \in Int /\ n \in Int
  OBVIOUS
<1>2. /\ IsFiniteSet(1 .. n)
      /\ Cardinality(1 .. n) = IF 1 > n THEN 0 ELSE n - 1 + 1
  BY <1>1, FS_Interval, Zenon
<1> QED
  BY <1>2

\* An alert is in the log once, so the log is no longer than the alerts are many.
LEMMA LogFits ==
  ASSUME Broker
  PROVE  Len(log) \in 0 .. MaxAlerts
<1>1. log \in Seq(Alerts) /\ Len(log) \in Nat /\ MaxAlerts \in Nat
  BY BoundsAssumption DEF Broker, TypeOK
<1>2. log \in [1 .. Len(log) -> Alerts]
  BY <1>1
<1>3. log \in Injection(1 .. Len(log), Alerts)
  BY <1>2 DEF Injection, IsInjective, Broker, LogHoldsTaken
<1>4. IsFiniteSet(Alerts) /\ Cardinality(Alerts) = MaxAlerts
  BY <1>1, IntervalSize, Zenon DEF Alerts
<1>5. Cardinality(1 .. Len(log)) = Len(log)
  BY <1>1, IntervalSize, Zenon
<1>6. Cardinality(1 .. Len(log)) <= Cardinality(Alerts)
  BY <1>3, <1>4, FS_Injection
<1> QED
  BY <1>1, <1>4, <1>5, <1>6

\* Only the alert being broadcast has connections left.
LEMMA OneRemains ==
  ASSUME Broker, NEW n \in Alerts, remaining[n] # {}
  PROVE  handler[n] = "broadcasting" /\ \A m \in Alerts \ {n} : remaining[m] = {}
BY DEF Broker, OnlyBroadcastWrites, OneBroadcasts

LEMMA BrokerInit == Init => Broker
<1> SUFFICES ASSUME Init PROVE Broker
  OBVIOUS
<1>1. MaxAlerts \in Nat /\ Room \in Nat /\ \A n \in Alerts : n \in Nat /\ n > 0
  BY BoundsAssumption DEF Alerts
<1>2. TypeOK
  BY <1>1 DEF Init, TypeOK, ProcessStates
<1>3. /\ OneBroadcasts /\ BroadcastsLast /\ OnlyBroadcastWrites /\ LogHoldsTaken /\ NotYetPosted
      /\ Streams
  BY <1>1 DEF Init, OneBroadcasts, BroadcastsLast, OnlyBroadcastWrites, LogHoldsTaken, NotYetPosted,
     Streams
<1>4. Connections
  BY <1>1, NobodyAssumption DEF Init, Connections, Pending
<1> QED
  BY <1>2, <1>3, <1>4 DEF Broker

LEMMA TypeNext == Broker /\ [Next]_vars => TypeOK'
<1> SUFFICES ASSUME Broker, [Next]_vars PROVE TypeOK'
  OBVIOUS
<1>a. /\ ticks \in 0 .. MaxAlerts
      /\ handler \in [Alerts -> {"none", "posted", "broadcasting", "answered"}]
      /\ remaining \in [Alerts -> SUBSET subscribers]
      /\ subscribers \subseteq Subscribers /\ backlog \subseteq Subscribers
      /\ listener \in Subscribers \cup {Nobody}
      /\ process \in [Subscribers -> ProcessStates]
      /\ socket \in [Subscribers -> Seq(Alerts)]
      /\ \A s \in Subscribers : Len(socket[s]) <= Room
      /\ printed \in [Subscribers -> Seq(Alerts)]
      /\ log \in Seq(Alerts)
      /\ joinedAt \in [Subscribers -> 0 .. MaxAlerts]
      /\ MaxAlerts \in Nat /\ Room \in Nat
  BY BoundsAssumption DEF Broker, TypeOK
<1>1. CASE Tick
  BY <1>a, <1>1 DEF Tick, TypeOK, Alerts
<1>2. ASSUME NEW n \in Alerts, Lock(n) PROVE TypeOK'
  <2>1. Append(log, n) \in Seq(Alerts)
    BY <1>a
  <2>2. /\ remaining' \in [Alerts -> SUBSET subscribers]
        /\ handler' \in [Alerts -> {"none", "posted", "broadcasting", "answered"}]
    BY <1>a, <1>2 DEF Lock
  <2> QED
    BY <1>a, <1>2, <2>1, <2>2 DEF Lock, TypeOK
<1>3. ASSUME NEW n \in Alerts, NEW s \in Subscribers, Write(n, s) PROVE TypeOK'
  <2>1. remaining' \in [Alerts -> SUBSET subscribers]
    BY <1>a, <1>3 DEF Write
  <2>2. /\ Append(socket[s], n) \in Seq(Alerts) /\ Len(Append(socket[s], n)) = Len(socket[s]) + 1
        /\ Len(socket[s]) \in Nat /\ Len(socket[s]) < Room
    BY <1>a, <1>3 DEF Write
  <2> DEFINE longer == Append(socket[s], n)
  <2>3. socket' = [socket EXCEPT ![s] = longer]
    BY <1>3 DEF Write
  <2> HIDE DEF longer
  <2>4. socket' \in [Subscribers -> Seq(Alerts)] /\ \A t \in Subscribers : Len(socket'[t]) <= Room
    <3>1. longer \in Seq(Alerts) /\ Len(longer) <= Room
      BY <1>a, <2>2 DEF longer
    <3> QED
      BY <1>a, <2>3, <3>1
  <2> QED
    BY <1>a, <1>3, <2>1, <2>4 DEF Write, TypeOK
<1>4. ASSUME NEW n \in Alerts, NEW s \in Subscribers, WriteUnnoticed(n, s) PROVE TypeOK'
  <2>1. remaining' \in [Alerts -> SUBSET subscribers]
    BY <1>a, <1>4 DEF WriteUnnoticed
  <2> QED
    BY <1>a, <1>4, <2>1 DEF WriteUnnoticed, TypeOK
<1>5. ASSUME NEW n \in Alerts, NEW s \in Subscribers, Purge(n, s) PROVE TypeOK'
  <2>1. \A m \in Alerts \ {n} : remaining[m] = {}
    BY <1>5, OneRemains DEF Purge
  <2>2. remaining' \in [Alerts -> SUBSET (subscribers \ {s})]
    BY <1>a, <1>5, <2>1 DEF Purge
  <2> QED
    BY <1>a, <1>5, <2>2 DEF Purge, TypeOK
<1>6. ASSUME NEW n \in Alerts, Unlock(n) PROVE TypeOK'
  BY <1>a, <1>6 DEF Unlock, TypeOK
<1>7. ASSUME NEW s \in Subscribers, Accept(s) PROVE TypeOK'
  BY <1>a, <1>7 DEF Accept, TypeOK
<1>8. ASSUME NEW s \in Subscribers, Register(s) PROVE TypeOK'
  <2>1. joinedAt' \in [Subscribers -> 0 .. MaxAlerts]
    BY <1>a, <1>8, LogFits DEF Register
  <2>2. remaining' \in [Alerts -> SUBSET subscribers']
    BY <1>a, <1>8 DEF Register
  <2> QED
    BY <1>a, <1>8, <2>1, <2>2 DEF Register, TypeOK
<1>9. ASSUME NEW s \in Subscribers, Dial(s) PROVE TypeOK'
  BY <1>a, <1>9 DEF Dial, TypeOK, ProcessStates
<1>10. ASSUME NEW s \in Subscribers, ReadString(s) PROVE TypeOK'
  <2>1. /\ socket[s] \in Seq(Alerts) /\ Len(socket[s]) \in Nat /\ Head(socket[s]) \in Alerts
        /\ Tail(socket[s]) \in Seq(Alerts) /\ Len(Tail(socket[s])) = Len(socket[s]) - 1
    BY <1>a, <1>10, HeadTailProperties DEF ReadString
  <2> DEFINE rest == Tail(socket[s])
             more == Append(printed[s], Head(socket[s]))
  <2>2. socket' = [socket EXCEPT ![s] = rest] /\ printed' = [printed EXCEPT ![s] = more]
    BY <1>10 DEF ReadString
  <2>3. more \in Seq(Alerts) /\ rest \in Seq(Alerts) /\ Len(rest) <= Room
    BY <1>a, <2>1
  <2> HIDE DEF rest, more
  <2>4. /\ socket' \in [Subscribers -> Seq(Alerts)]
        /\ printed' \in [Subscribers -> Seq(Alerts)]
        /\ \A t \in Subscribers : Len(socket'[t]) <= Room
    BY <1>a, <2>2, <2>3
  <2> QED
    BY <1>a, <1>10, <2>4 DEF ReadString, TypeOK
<1>11. ASSUME NEW s \in Subscribers, Stop(s) PROVE TypeOK'
  BY <1>a, <1>11 DEF Stop, TypeOK, ProcessStates
<1>12. CASE UNCHANGED vars
  BY <1>a, <1>12 DEF vars, TypeOK
<1> QED
  BY <1>1, <1>2, <1>3, <1>4, <1>5, <1>6, <1>7, <1>8, <1>9, <1>10, <1>11, <1>12
  DEF Next, Handle, Listen

LEMMA OneBroadcastsNext == Broker /\ [Next]_vars => OneBroadcasts'
<1> SUFFICES ASSUME Broker, [Next]_vars PROVE OneBroadcasts'
  OBVIOUS
<1>1. handler \in [Alerts -> {"none", "posted", "broadcasting", "answered"}] /\ OneBroadcasts
  BY DEF Broker, TypeOK
<1>2. ASSUME NEW n \in Alerts, Lock(n) PROVE OneBroadcasts'
  BY <1>1, <1>2 DEF Lock, MutexFree, OneBroadcasts
<1>3. CASE \A n \in Alerts : ~Lock(n)
  <2>1. \A n \in Alerts : handler'[n] = "broadcasting" => handler[n] = "broadcasting"
    BY <1>1, <1>3 DEF Next, Handle, Listen, Tick, Write, WriteUnnoticed, Purge, Unlock, Accept, Register,
       Dial, ReadString, Stop, vars
  <2> QED
    BY <1>1, <2>1 DEF OneBroadcasts
<1> QED
  BY <1>2, <1>3

\* The log and the handlers.
LEMMA LogNext ==
  Broker /\ [Next]_vars => BroadcastsLast' /\ OnlyBroadcastWrites' /\ LogHoldsTaken' /\ NotYetPosted'
<1> SUFFICES ASSUME Broker, [Next]_vars
             PROVE  BroadcastsLast' /\ OnlyBroadcastWrites' /\ LogHoldsTaken' /\ NotYetPosted'
  OBVIOUS
<1>1. /\ handler \in [Alerts -> {"none", "posted", "broadcasting", "answered"}]
      /\ remaining \in [Alerts -> SUBSET subscribers]
      /\ log \in Seq(Alerts) /\ Len(log) \in Nat /\ ticks \in Nat
      /\ \A k \in 1 .. Len(log) : log[k] \in Alerts
      /\ \A n \in Alerts : n \in Nat
      /\ BroadcastsLast /\ OnlyBroadcastWrites /\ LogHoldsTaken /\ NotYetPosted
  BY BoundsAssumption DEF Broker, TypeOK, Alerts
<1>2. CASE Tick
  <2>1. /\ UNCHANGED <<log, remaining>> /\ ticks' = ticks + 1
        /\ ticks + 1 \in Alerts /\ handler[ticks + 1] = "none"
        /\ handler' = [handler EXCEPT ![ticks + 1] = "posted"]
    BY <1>1, <1>2, BoundsAssumption DEF Tick, Alerts, NotYetPosted
  <2>2. \A n \in Alerts : n # ticks + 1 => handler'[n] = handler[n]
    BY <1>1, <2>1
  <2>3. \A n \in Alerts : handler'[n] = "broadcasting" => handler[n] = "broadcasting"
    BY <1>1, <2>1
  <2>4. BroadcastsLast'
    BY <1>1, <2>1, <2>3 DEF BroadcastsLast
  <2>5. OnlyBroadcastWrites'
    BY <1>1, <2>1, <2>2 DEF OnlyBroadcastWrites
  <2>6. LogHoldsTaken'
    BY <1>1, <2>1, <2>2 DEF LogHoldsTaken, Taken
  <2>7. NotYetPosted'
    BY <1>1, <2>1, <2>2 DEF NotYetPosted
  <2> QED
    BY <2>4, <2>5, <2>6, <2>7
<1>3. ASSUME NEW n \in Alerts, Lock(n)
      PROVE  BroadcastsLast' /\ OnlyBroadcastWrites' /\ LogHoldsTaken' /\ NotYetPosted'
  <2>1. /\ handler[n] = "posted" /\ handler' = [handler EXCEPT ![n] = "broadcasting"]
        /\ \A m \in Alerts : handler[m] # "broadcasting"
        /\ log' = Append(log, n) /\ ticks' = ticks
        /\ \A m \in Alerts \ {n} : remaining'[m] = remaining[m]
    BY <1>1, <1>3 DEF Lock, MutexFree
  <2>2. /\ Len(log') = Len(log) + 1 /\ log'[Len(log) + 1] = n
        /\ \A k \in 1 .. Len(log) : log'[k] = log[k]
    BY <1>1, <2>1
  <2>3. BroadcastsLast'
    BY <1>1, <2>1, <2>2 DEF BroadcastsLast
  <2>4. OnlyBroadcastWrites'
    BY <1>1, <2>1 DEF OnlyBroadcastWrites
  <2>5. \A k \in 1 .. Len(log) : log[k] # n
    BY <1>1, <2>1 DEF LogHoldsTaken, Taken
  <2>6. LogHoldsTaken'
    <3>1. \A k \in 1 .. Len(log') : k \in 1 .. Len(log) \/ k = Len(log) + 1
      BY <1>1, <2>2
    <3>2. \A k \in 1 .. Len(log') : Taken(log[k])'
      BY <1>1, <2>1, <2>2, <3>1 DEF LogHoldsTaken, Taken
    <3>3. \A j, k \in 1 .. Len(log') : log'[j] = log'[k] => j = k
      BY <1>1, <2>2, <2>5, <3>1 DEF LogHoldsTaken
    <3> QED
      BY <3>2, <3>3 DEF LogHoldsTaken
  <2>7. NotYetPosted'
    BY <1>1, <2>1 DEF NotYetPosted
  <2> QED
    BY <2>3, <2>4, <2>6, <2>7
<1>4. ASSUME NEW n \in Alerts, NEW s \in Subscribers, Write(n, s) \/ WriteUnnoticed(n, s) \/ Purge(n, s)
      PROVE  BroadcastsLast' /\ OnlyBroadcastWrites' /\ LogHoldsTaken' /\ NotYetPosted'
  <2>1. /\ UNCHANGED <<handler, log, ticks>>
        /\ \A m \in Alerts : remaining'[m] \subseteq remaining[m]
    BY <1>1, <1>4 DEF Write, WriteUnnoticed, Purge
  <2> QED
    BY <1>1, <2>1 DEF BroadcastsLast, OnlyBroadcastWrites, LogHoldsTaken, Taken, NotYetPosted
<1>5. ASSUME NEW n \in Alerts, Unlock(n)
      PROVE  BroadcastsLast' /\ OnlyBroadcastWrites' /\ LogHoldsTaken' /\ NotYetPosted'
  <2>1. /\ UNCHANGED <<remaining, log, ticks>>
        /\ handler[n] = "broadcasting" /\ remaining[n] = {}
        /\ handler' = [handler EXCEPT ![n] = "answered"]
    BY <1>5 DEF Unlock
  <2> QED
    BY <1>1, <2>1 DEF BroadcastsLast, OnlyBroadcastWrites, LogHoldsTaken, Taken, NotYetPosted
<1>6. CASE UNCHANGED <<handler, remaining, log, ticks>>
  BY <1>1, <1>6 DEF BroadcastsLast, OnlyBroadcastWrites, LogHoldsTaken, Taken, NotYetPosted
<1> QED
  BY <1>2, <1>3, <1>4, <1>5, <1>6 DEF Next, Handle, Listen, Accept, Register, Dial, ReadString, Stop, vars

-----------------------------------------------------------------------------
(***************************************************************************)
(* Connections and streams.                                                *)
(***************************************************************************)

LEMMA ConnectionsNext == Broker /\ [Next]_vars => Connections'
<1> SUFFICES ASSUME Broker, [Next]_vars, NEW s \in Subscribers PROVE Connections!(s)'
  BY DEF Connections
<1>1. /\ remaining \in [Alerts -> SUBSET subscribers]
      /\ subscribers \subseteq Subscribers /\ backlog \subseteq Subscribers
      /\ process \in [Subscribers -> ProcessStates]
      /\ socket \in [Subscribers -> Seq(Alerts)]
      /\ printed \in [Subscribers -> Seq(Alerts)]
      /\ joinedAt \in [Subscribers -> 0 .. MaxAlerts]
      /\ log \in Seq(Alerts) /\ Len(log) \in Nat
      /\ s # Nobody
      /\ Connections!(s)
  BY NobodyAssumption DEF Broker, TypeOK, Connections
<1> USE DEF Pending
<1>2. CASE Tick \/ \E n \in Alerts : Unlock(n)
  BY <1>1, <1>2 DEF Tick, Unlock
<1>3. ASSUME NEW n \in Alerts, Lock(n) PROVE Connections!(s)'
  <2>1. Len(log') = Len(log) + 1
    BY <1>1, <1>3 DEF Lock
  <2> QED
    BY <1>1, <1>3, <2>1 DEF Lock
<1>4. ASSUME NEW n \in Alerts, NEW t \in Subscribers, Write(n, t) PROVE Connections!(s)'
  <2>1. t \in subscribers /\ \A u \in Subscribers \ {t} : socket'[u] = socket[u]
    BY <1>1, <1>4 DEF Write
  <2> QED
    BY <1>1, <1>4, <2>1 DEF Write
<1>5. ASSUME NEW n \in Alerts, NEW t \in Subscribers, WriteUnnoticed(n, t) \/ Purge(n, t)
      PROVE  Connections!(s)'
  BY <1>1, <1>5 DEF WriteUnnoticed, Purge
<1>6. ASSUME NEW t \in Subscribers, Accept(t) PROVE Connections!(s)'
  BY <1>1, <1>6 DEF Accept
<1>7. ASSUME NEW t \in Subscribers, Register(t) PROVE Connections!(s)'
  BY <1>1, <1>7 DEF Register
<1>8. ASSUME NEW t \in Subscribers, Dial(t) PROVE Connections!(s)'
  BY <1>1, <1>8 DEF Dial
<1>9. ASSUME NEW t \in Subscribers, ReadString(t) PROVE Connections!(s)'
  <2>1. t \in subscribers
    BY <1>9 DEF ReadString, Broker, Connections
  <2>2. \A u \in Subscribers \ {t} : socket'[u] = socket[u] /\ printed'[u] = printed[u]
    BY <1>1, <1>9 DEF ReadString
  <2> QED
    BY <1>1, <1>9, <2>1, <2>2 DEF ReadString
<1>10. ASSUME NEW t \in Subscribers, Stop(t) PROVE Connections!(s)'
  BY <1>1, <1>10 DEF Stop
<1>11. CASE UNCHANGED vars
  BY <1>1, <1>11 DEF vars
<1> QED
  BY <1>2, <1>3, <1>4, <1>5, <1>6, <1>7, <1>8, <1>9, <1>10, <1>11 DEF Next, Handle, Listen

LEMMA StreamsNext == Broker /\ [Next]_vars => Streams'
<1> SUFFICES ASSUME Broker, [Next]_vars, NEW s \in subscribers', process'[s] # "gone"
             PROVE  StreamOf(s)'
  BY DEF Streams
<1>1. /\ remaining \in [Alerts -> SUBSET subscribers]
      /\ subscribers \subseteq Subscribers /\ s \in Subscribers
      /\ process \in [Subscribers -> ProcessStates]
      /\ socket \in [Subscribers -> Seq(Alerts)]
      /\ printed \in [Subscribers -> Seq(Alerts)]
      /\ joinedAt \in [Subscribers -> 0 .. MaxAlerts]
      /\ log \in Seq(Alerts)
      /\ s \in subscribers /\ process[s] # "gone" => StreamOf(s)
  <2>1. TypeOK /\ TypeOK'
    BY TypeNext DEF Broker
  <2>2. s \in Subscribers
    BY <2>1 DEF TypeOK
  <2> QED
    BY <2>1, <2>2 DEF TypeOK, Broker, Streams
<1> DEFINE p == Len(printed[s])
           q == Len(socket[s])
           from == joinedAt[s]
           size == Len(log)
<1>a. p \in Nat /\ q \in Nat /\ from \in Nat /\ size \in Nat
  <2>1. printed[s] \in Seq(Alerts) /\ socket[s] \in Seq(Alerts) /\ joinedAt[s] \in 0 .. MaxAlerts
    BY <1>1
  <2> QED
    BY <1>1, <2>1, BoundsAssumption
<1>b. StreamOf(s) =>
        /\ Late(s) => size - from = p + q + 1
        /\ ~Late(s) => size - from = p + q
        /\ \A k \in 1 .. p : printed[s][k] = log[from + k]
        /\ \A k \in 1 .. q : socket[s][k] = log[from + p + k]
  <2> SUFFICES ASSUME StreamOf(s)
               PROVE  /\ Late(s) => size - from = p + q + 1
                      /\ ~Late(s) => size - from = p + q
    BY DEF StreamOf
  <2>1. size - from = p + q + (IF Late(s) THEN 1 ELSE 0)
    BY DEF StreamOf
  <2> HIDE DEF p, q, from, size
  <2> QED
    BY <1>a, <2>1
<1>2. ASSUME NEW n \in Alerts, Lock(n) PROVE StreamOf(s)'
  <2>1. /\ log' = Append(log, n) /\ UNCHANGED <<subscribers, process, socket, printed, joinedAt>>
        /\ remaining'[n] = subscribers
        /\ \A m \in Alerts : handler[m] # "broadcasting"
    BY <1>1, <1>2 DEF Lock, MutexFree
  <2>2. s \in subscribers /\ StreamOf(s)
    BY <1>1, <2>1
  <2>3. ~Late(s) /\ Late(s)'
    BY <2>1, <2>2 DEF Late, Broker, OnlyBroadcastWrites
  <2>4. /\ Len(log') = Len(log) + 1
        /\ \A k \in 1 .. Len(log) : log'[k] = log[k]
    BY <1>1, <2>1
  <2>5. Len(log') - from = p + q + 1 /\ size - from = p + q
    <3>1. Len(log') = size + 1 /\ size - from = p + q
      BY <1>b, <2>2, <2>3, <2>4
    <3> HIDE DEF p, q, from, size
    <3> QED
      BY <1>a, <3>1
  <2>6. /\ \A k \in 1 .. p : printed[s][k] = log'[from + k]
        /\ \A k \in 1 .. q : socket[s][k] = log'[from + p + k]
    <3>1. /\ \A k \in 1 .. size : log'[k] = log[k]
          /\ \A k \in 1 .. p : printed[s][k] = log[from + k]
          /\ \A k \in 1 .. q : socket[s][k] = log[from + p + k]
      BY <1>b, <2>2, <2>4
    <3> HIDE DEF p, q, from, size
    <3>2. /\ \A k \in 1 .. p : from + k \in 1 .. size
          /\ \A k \in 1 .. q : from + p + k \in 1 .. size
      BY <1>a, <2>5
    <3> QED
      BY <3>1, <3>2
  <2> QED
    BY <2>1, <2>3, <2>5, <2>6 DEF StreamOf
<1>3. ASSUME NEW n \in Alerts, NEW t \in Subscribers, Write(n, t) PROVE StreamOf(s)'
  <2>1. /\ UNCHANGED <<log, subscribers, process, printed, joinedAt>>
        /\ t \in remaining[n]
        /\ remaining' = [remaining EXCEPT ![n] = @ \ {t}]
        /\ socket' = [socket EXCEPT ![t] = Append(@, n)]
    BY <1>3 DEF Write
  <2>2. s \in subscribers /\ StreamOf(s)
    BY <1>1, <2>1
  <2>3. handler[n] = "broadcasting" /\ \A m \in Alerts \ {n} : remaining[m] = {}
    BY <2>1, OneRemains
  <2>4. CASE s # t
    <3>1. Late(s)' <=> Late(s)
      BY <1>1, <2>1, <2>4 DEF Late
    <3>2. socket'[s] = socket[s]
      BY <1>1, <2>1, <2>4
    <3> QED
      BY <2>1, <2>2, <3>1, <3>2 DEF StreamOf
  <2>5. CASE s = t
    <3>1. Late(s) /\ ~Late(s)'
      BY <1>1, <2>1, <2>3, <2>5 DEF Late
    <3>2. /\ Len(socket'[s]) = q + 1 /\ socket'[s][q + 1] = n
          /\ \A k \in 1 .. q : socket'[s][k] = socket[s][k]
      BY <1>1, <2>1, <2>5
    <3>3. log[Len(log)] = n
      BY <2>3 DEF Broker, BroadcastsLast
    <3>4. size - from = p + q + 1 /\ log[size] = n
      BY <1>b, <2>2, <3>1, <3>3
    <3>5. \A k \in 1 .. q : socket'[s][k] = log[from + p + k]
      BY <1>b, <2>2, <3>2
    <3>6. \A k \in 1 .. q + 1 : socket'[s][k] = log[from + p + k]
      <4>1. socket'[s][q + 1] = n
        BY <3>2
      <4> HIDE DEF p, q, from, size
      <4>2. from + p + (q + 1) = size /\ \A k \in 1 .. q + 1 : k \in 1 .. q \/ k = q + 1
        BY <1>a, <3>4
      <4> QED
        BY <3>4, <3>5, <4>1, <4>2
    <3>7. size - from = p + (q + 1) + 0
      <4> HIDE DEF p, q, from, size
      <4> QED
        BY <1>a, <3>4
    <3> QED
      BY <2>1, <2>2, <3>1, <3>2, <3>6, <3>7 DEF StreamOf
  <2> QED
    BY <2>4, <2>5
<1>4. ASSUME NEW n \in Alerts, NEW t \in Subscribers, WriteUnnoticed(n, t) \/ Purge(n, t)
      PROVE  StreamOf(s)'
  <2>1. /\ UNCHANGED <<log, process, socket, printed, joinedAt>>
        /\ process[t] = "gone" /\ subscribers' \subseteq subscribers
        /\ remaining' = [remaining EXCEPT ![n] = @ \ {t}]
    BY <1>4 DEF WriteUnnoticed, Purge
  <2>2. s # t /\ StreamOf(s)
    BY <1>1, <2>1
  <2>3. Late(s)' <=> Late(s)
    BY <1>1, <2>1, <2>2 DEF Late
  <2> QED
    BY <2>1, <2>2, <2>3 DEF StreamOf
<1>5. ASSUME NEW t \in Subscribers, Register(t) PROVE StreamOf(s)'
  <2>1. /\ UNCHANGED <<log, process, socket, printed, remaining>>
        /\ listener = t /\ subscribers' = subscribers \cup {t}
        /\ joinedAt' = [joinedAt EXCEPT ![t] = Len(log)]
        /\ \A m \in Alerts : handler[m] # "broadcasting"
    BY <1>5 DEF Register, MutexFree
  <2>2. ~Late(s)'
    BY <2>1 DEF Late, Broker, OnlyBroadcastWrites
  <2>3. CASE s = t
    <3>1. socket[s] = <<>> /\ printed[s] = <<>> /\ joinedAt'[s] = Len(log)
      BY <1>1, <2>1, <2>3 DEF Broker, Connections, Pending
    <3> QED
      BY <1>1, <2>1, <2>2, <3>1 DEF StreamOf
  <2>4. CASE s # t
    <3>1. StreamOf(s) /\ ~Late(s) /\ joinedAt'[s] = joinedAt[s]
      BY <1>1, <2>1, <2>2, <2>4 DEF Late
    <3> QED
      BY <2>1, <2>2, <3>1 DEF StreamOf
  <2> QED
    BY <2>3, <2>4
<1>6. ASSUME NEW t \in Subscribers, ReadString(t) PROVE StreamOf(s)'
  <2>1. /\ UNCHANGED <<log, process, remaining, subscribers, joinedAt>>
        /\ socket[t] # <<>>
        /\ printed' = [printed EXCEPT ![t] = Append(@, Head(socket[t]))]
        /\ socket' = [socket EXCEPT ![t] = Tail(@)]
    BY <1>6 DEF ReadString
  <2>2. StreamOf(s) /\ (Late(s)' <=> Late(s))
    BY <1>1, <2>1 DEF Late
  <2>3. CASE s # t
    <3>1. socket'[s] = socket[s] /\ printed'[s] = printed[s]
      BY <1>1, <2>1, <2>3
    <3> QED
      BY <2>1, <2>2, <3>1 DEF StreamOf
  <2>4. CASE s = t
    <3>1. /\ socket'[s] = Tail(socket[s]) /\ socket[s] # <<>>
          /\ printed'[s] = Append(printed[s], Head(socket[s]))
      BY <1>1, <2>1, <2>4
    <3>2. /\ q > 0 /\ Len(socket'[s]) = q - 1
          /\ \A k \in 1 .. q - 1 : socket'[s][k] = socket[s][k + 1]
      BY <1>1, <1>a, <3>1
    <3>3. /\ Len(printed'[s]) = p + 1 /\ printed'[s][p + 1] = socket[s][1]
          /\ \A k \in 1 .. p : printed'[s][k] = printed[s][k]
      BY <1>1, <3>1
    <3>4. socket[s][1] = log[from + p + 1]
      BY <1>1, <2>2, <3>2 DEF StreamOf
    <3>5. \A k \in 1 .. p + 1 : printed'[s][k] = log[from + k]
      <4>1. \A k \in 1 .. p + 1 : k \in 1 .. p \/ k = p + 1
        BY <1>1
      <4>2. printed'[s][p + 1] = log[from + (p + 1)]
        BY <1>1, <3>3, <3>4
      <4> QED
        BY <1>1, <2>2, <3>3, <4>1, <4>2 DEF StreamOf
    <3>6. \A k \in 1 .. q - 1 : socket'[s][k] = log[from + (p + 1) + k]
      <4> SUFFICES ASSUME NEW k \in 1 .. q - 1 PROVE socket'[s][k] = log[from + (p + 1) + k]
        OBVIOUS
      <4>a. \A h \in 1 .. q : socket[s][h] = log[from + p + h]
        BY <1>b, <2>2
      <4> HIDE DEF p, q, from, size
      <4>1. k + 1 \in 1 .. q /\ from + p + (k + 1) = from + (p + 1) + k
        BY <1>a
      <4>2. socket[s][k + 1] = log[from + p + (k + 1)]
        BY <4>a, <4>1
      <4> QED
        BY <3>2, <4>1, <4>2
    <3>7. Len(log) - from = (p + 1) + (q - 1) + (IF Late(s) THEN 1 ELSE 0)
      BY <1>1, <2>2 DEF StreamOf
    <3> QED
      BY <2>1, <2>2, <3>2, <3>3, <3>5, <3>6, <3>7 DEF StreamOf
  <2> QED
    BY <2>3, <2>4
<1>7. ASSUME NEW t \in Subscribers, Dial(t) \/ Stop(t) PROVE StreamOf(s)'
  <2>1. /\ UNCHANGED <<log, remaining, subscribers, joinedAt, socket, printed>>
        /\ process[s] # "gone"
    BY <1>1, <1>7 DEF Dial, Stop, Broker, Connections
  <2> QED
    BY <1>1, <2>1 DEF StreamOf, Late
<1>8. CASE \/ Tick \/ (\E n \in Alerts : Unlock(n)) \/ (\E t \in Subscribers : Accept(t))
           \/ UNCHANGED vars
  <2>1. UNCHANGED <<log, remaining, subscribers, joinedAt, socket, printed, process>>
    BY <1>8 DEF Tick, Unlock, Accept, vars
  <2> QED
    BY <1>1, <2>1 DEF StreamOf, Late
<1> QED
  BY <1>2, <1>3, <1>4, <1>5, <1>6, <1>7, <1>8 DEF Next, Handle, Listen

LEMMA BrokerNext == Broker /\ [Next]_vars => Broker'
<1> QED
  BY TypeNext, OneBroadcastsNext, LogNext, ConnectionsNext, StreamsNext DEF Broker

\* A stream that holds alert by alert is the piece of the log since the connection
\* was put into the map.
LEMMA StreamsAreComplete == Broker => StreamComplete
<1> SUFFICES ASSUME Broker, NEW s \in subscribers, process[s] # "gone"
             PROVE  LET written == printed[s] \o socket[s]
                        since   == SubSeq(log, joinedAt[s] + 1, Len(log))
                        late    == \E n \in Alerts : s \in remaining[n]
                    IN  written = IF late THEN Front(since) ELSE since
  BY DEF StreamComplete
<1> DEFINE p == Len(printed[s])
           q == Len(socket[s])
           from == joinedAt[s]
           size == Len(log)
           written == printed[s] \o socket[s]
           since == SubSeq(log, from + 1, size)
<1>1. log \in Seq(Alerts) /\ printed[s] \in Seq(Alerts) /\ socket[s] \in Seq(Alerts) /\ from \in Nat
  <2>1. s \in Subscribers
    BY DEF Broker, TypeOK
  <2> QED
    BY <2>1, BoundsAssumption DEF Broker, TypeOK
<1>2. p \in Nat /\ q \in Nat /\ size \in Nat /\ \A k \in 1 .. size : log[k] \in Alerts
  BY <1>1
<1>3. StreamOf(s)
  BY DEF Broker, Streams
<1>4. /\ size - from = p + q + (IF Late(s) THEN 1 ELSE 0)
      /\ \A k \in 1 .. p : printed[s][k] = log[from + k]
      /\ \A k \in 1 .. q : socket[s][k] = log[from + p + k]
  BY <1>3 DEF StreamOf
<1>5. /\ written \in Seq(Alerts) /\ Len(written) = p + q
      /\ \A k \in 1 .. p + q : written[k] = IF k <= p THEN printed[s][k] ELSE socket[s][k - p]
  BY <1>1, ConcatProperties
<1>6. /\ since \in Seq(Alerts)
      /\ Len(since) = IF from + 1 <= size THEN size - (from + 1) + 1 ELSE 0
      /\ \A k \in 1 .. size - (from + 1) + 1 : since[k] = log[(from + 1) + k - 1]
  <2>1. /\ \A k \in from + 1 .. size : log[k] \in Alerts
        /\ from + 1 \in Int /\ size \in Int
    BY <1>1, <1>2
  <2> HIDE DEF from, size
  <2> QED
    BY <2>1, SubSeqProperties
<1>a. from \in Nat
  BY <1>1
<1> HIDE DEF p, q, from, size, written, since
<1>7. \A k \in 1 .. p + q : written[k] = log[from + k]
  <2> SUFFICES ASSUME NEW k \in 1 .. p + q PROVE written[k] = log[from + k]
    OBVIOUS
  <2>1. CASE k <= p
    BY <1>2, <1>4, <1>5, <2>1
  <2>2. CASE ~(k <= p)
    <3>1. k - p \in 1 .. q /\ from + p + (k - p) = from + k
      BY <1>2, <1>a, <2>2
    <3>2. socket[s][k - p] = log[from + p + (k - p)]
      BY <1>4, <3>1
    <3> QED
      BY <1>5, <2>2, <3>1, <3>2
  <2> QED
    BY <2>1, <2>2
<1>8. /\ size - from \in Nat /\ Len(since) = size - from
      /\ \A k \in 1 .. size - from : since[k] = log[from + k]
  <2>1. size - from \in Nat
    BY <1>2, <1>4, <1>a
  <2>2. Len(since) = size - from
    BY <1>2, <1>6, <1>a, <2>1
  <2>3. ASSUME NEW k \in 1 .. size - from PROVE since[k] = log[from + k]
    <3>1. k \in 1 .. size - (from + 1) + 1 /\ (from + 1) + k - 1 = from + k
      BY <1>2, <1>a
    <3> QED
      BY <1>6, <3>1
  <2> QED
    BY <2>1, <2>2, <2>3
<1>9. CASE ~Late(s)
  <2>1. size - from = p + q
    BY <1>2, <1>4, <1>9, <1>a
  <2>2. written = since
    BY <1>5, <1>6, <1>7, <1>8, <2>1, SeqEqual
  <2> QED
    BY <1>9, <2>2 DEF Late, written, since, from, size
<1>10. CASE Late(s)
  <2>1. size - from = p + q + 1
    BY <1>2, <1>4, <1>10, <1>a
  <2>2. Front(since) = SubSeq(since, 1, p + q)
    <3>1. Len(since) - 1 = p + q
      BY <1>2, <1>8, <2>1
    <3> QED
      BY <3>1 DEF Front
  <2> DEFINE m == p + q
  <2>3. m \in Int /\ m \in Nat /\ \A k \in 1 .. m : since[k] = log[from + k] /\ since[k] \in Alerts
    <3>1. \A k \in 1 .. m : k \in 1 .. size - from /\ from + k \in 1 .. size
      BY <1>2, <1>a, <2>1
    <3> QED
      BY <1>2, <1>8, <3>1
  <2>4. Front(since) = SubSeq(since, 1, m) /\ Len(written) = m /\ \A k \in 1 .. m : written[k] = log[from + k]
    BY <1>5, <1>7, <2>2
  <2> HIDE DEF m
  <2>5. /\ SubSeq(since, 1, m) \in Seq(Alerts)
        /\ Len(SubSeq(since, 1, m)) = IF 1 <= m THEN m - 1 + 1 ELSE 0
        /\ \A k \in 1 .. m - 1 + 1 : SubSeq(since, 1, m)[k] = since[1 + k - 1]
    BY <2>3, SubSeqProperties
  <2> DEFINE front == SubSeq(since, 1, m)
  <2>6. front \in Seq(Alerts)
    BY <2>5
  <2>7. Len(front) = m
    BY <2>3, <2>5
  <2>8. ASSUME NEW k \in 1 .. m PROVE front[k] = log[from + k]
    <3>1. k \in 1 .. m - 1 + 1 /\ 1 + k - 1 = k
      BY <2>3
    <3> QED
      BY <2>3, <2>5, <3>1
  <2> HIDE DEF front
  <2>9. written = front
    BY <1>5, <2>4, <2>6, <2>7, <2>8, SeqEqual
  <2> QED
    BY <1>10, <2>4, <2>9 DEF Late, written, since, from, size, front
<1> QED
  BY <1>9, <1>10

\* Every variable keeps its type: in particular the loop of a handler only ever writes
\* to connections that are in the map, whoever comes and goes.
THEOREM BrokerTypeCorrect == Spec => []TypeOK
<1>1. Broker => TypeOK
  BY DEF Broker
<1> QED
  BY <1>1, BrokerInit, BrokerNext, PTL DEF Spec

\* No subscriber misses an alert, sees one twice or out of order, from the moment its
\* connection is in the map (handleIncomingAlerts, startSubscriberListener).
THEOREM BrokerStreamsComplete == Spec => []StreamComplete
<1> QED
  BY StreamsAreComplete, BrokerInit, BrokerNext, PTL DEF Spec

-----------------------------------------------------------------------------
(***************************************************************************)
(* The broker implements the feed.                                         *)
(***************************************************************************)

\* The subscribers that follow the feed.
Present == {s \in subscribers : process[s] = "reading"}

LEMMA FeedInit == Init => Feed!Init
<1> QED
  BY DEF Init, Feed!Init

\* What a subscriber prints is the next alert of the log.
LEMMA ReadStringShows ==
  ASSUME Broker, NEW s \in Subscribers, ReadString(s)
  PROVE  Feed!Show(s)
<1>1. /\ s \in subscribers /\ process[s] = "reading" /\ socket[s] # <<>>
      /\ UNCHANGED <<log, joinedAt, subscribers, process>>
      /\ printed' = [printed EXCEPT ![s] = Append(@, Head(socket[s]))]
  BY DEF ReadString, Broker, Connections, Pending
<1>2. /\ socket[s] \in Seq(Alerts) /\ printed[s] \in Seq(Alerts) /\ joinedAt[s] \in Nat
      /\ log \in Seq(Alerts) /\ StreamOf(s)
  BY <1>1, BoundsAssumption DEF Broker, TypeOK, Streams
<1> DEFINE p == Len(printed[s])
           q == Len(socket[s])
           from == joinedAt[s]
           size == Len(log)
<1>3. p \in Nat /\ q \in Nat /\ q > 0 /\ from \in Nat /\ size \in Nat /\ Head(socket[s]) = socket[s][1]
  BY <1>1, <1>2
<1>4. /\ size - from = p + q + (IF Late(s) THEN 1 ELSE 0)
      /\ \A k \in 1 .. q : socket[s][k] = log[from + p + k]
  BY <1>2 DEF StreamOf
<1> HIDE DEF p, q, from, size
<1>5. from + p < size /\ socket[s][1] = log[from + p + 1]
  BY <1>3, <1>4
<1>6. printed' = [printed EXCEPT ![s] = Append(@, log[joinedAt[s] + Len(@) + 1])]
  BY <1>1, <1>3, <1>5 DEF p, from
<1> QED
  BY <1>1, <1>5, <1>6 DEF Feed!Show, p, from, size

\* Every step of the broker is a step of the feed or leaves the feed as it is.
LEMMA FeedNext == Broker /\ [Next]_vars => [Feed!Next]_Feed!vars
<1> SUFFICES ASSUME Broker, [Next]_vars PROVE Feed!Next \/ UNCHANGED <<log, joinedAt, Present, printed>>
  BY DEF Feed!vars, Present
<1>1. /\ handler \in [Alerts -> {"none", "posted", "broadcasting", "answered"}]
      /\ process \in [Subscribers -> ProcessStates]
      /\ subscribers \subseteq Subscribers
      /\ log \in Seq(Alerts)
      /\ Feed!Alerts = Alerts
  BY DEF Broker, TypeOK, Feed!Alerts, Alerts
<1>2. ASSUME NEW n \in Alerts, Lock(n) PROVE Feed!Next
  <2>1. n \notin Feed!ToSet(log)
    <3>1. \A k \in 1 .. Len(log) : Taken(log[k])
      BY DEF Broker, LogHoldsTaken
    <3>2. ~Taken(n)
      BY <1>2 DEF Lock, Taken
    <3> QED
      BY <1>1, <3>1, <3>2 DEF Feed!ToSet
  <2>2. Feed!Publish(n)
    BY <1>2, <2>1 DEF Lock, Feed!Publish
  <2> QED
    BY <1>1, <2>2 DEF Feed!Next
<1>3. ASSUME NEW s \in Subscribers, Register(s) PROVE Feed!Next
  <2>1. s \notin subscribers /\ printed[s] = <<>>
    BY <1>3 DEF Register, Broker, Connections, Pending
  <2>2. Present' \in {Present, Present \cup {s}}
    BY <1>3 DEF Register, Present
  <2>3. Feed!Join(s)
    BY <1>3, <2>1, <2>2 DEF Register, Feed!Join, Present
  <2> QED
    BY <2>3 DEF Feed!Next
<1>4. ASSUME NEW s \in Subscribers, ReadString(s) PROVE Feed!Next
  BY <1>4, ReadStringShows DEF Feed!Next
<1>5. ASSUME NEW s \in Subscribers, Stop(s) PROVE Feed!Next \/ UNCHANGED <<log, joinedAt, Present, printed>>
  <2>1. /\ UNCHANGED <<log, joinedAt, printed, subscribers>>
        /\ process[s] = "reading" /\ process'[s] # "reading"
        /\ \A t \in Subscribers \ {s} : process'[t] = process[t]
    BY <1>1, <1>5 DEF Stop
  <2>2. Present' = Present \ {s}
    BY <1>1, <2>1 DEF Present
  <2>3. CASE s \in subscribers
    <3>1. Feed!Leave(s)
      BY <2>1, <2>2, <2>3 DEF Feed!Leave, Present
    <3> QED
      BY <3>1 DEF Feed!Next
  <2>4. CASE s \notin subscribers
    BY <2>1, <2>2, <2>4 DEF Present
  <2> QED
    BY <2>3, <2>4
<1>6. ASSUME NEW s \in Subscribers, Dial(s) PROVE UNCHANGED <<log, joinedAt, Present, printed>>
  <2>1. s \notin subscribers
    BY <1>6 DEF Dial, Broker, Connections
  <2>2. /\ UNCHANGED <<log, joinedAt, printed, subscribers>>
        /\ \A t \in Subscribers \ {s} : process'[t] = process[t]
    BY <1>1, <1>6 DEF Dial
  <2>3. Present' = Present
    BY <1>1, <2>1, <2>2 DEF Present
  <2> QED
    BY <2>2, <2>3
<1>7. ASSUME NEW n \in Alerts, NEW s \in Subscribers, Purge(n, s)
      PROVE  UNCHANGED <<log, joinedAt, Present, printed>>
  BY <1>7 DEF Purge, Present
<1>8. CASE \/ Tick \/ (\E n \in Alerts : Unlock(n)) \/ (\E s \in Subscribers : Accept(s))
           \/ (\E n \in Alerts, s \in Subscribers : Write(n, s) \/ WriteUnnoticed(n, s))
           \/ UNCHANGED vars
  <2>1. UNCHANGED <<log, joinedAt, printed, subscribers, process>>
    BY <1>8 DEF Tick, Unlock, Accept, Write, WriteUnnoticed, vars
  <2> QED
    BY <2>1 DEF Present
<1> QED
  BY <1>2, <1>3, <1>4, <1>5, <1>6, <1>7, <1>8 DEF Next, Handle, Listen

\* The broker with its mutex, its connections and its subscribers shows every
\* subscriber a piece of one feed without a gap (AlertFeed).
THEOREM BrokerImplementsFeed == Spec => ImplementsFeed
<1>1. Broker /\ [Next]_vars => [Feed!Next]_Feed!vars
  BY FeedNext
<1> QED
  BY <1>1, FeedInit, BrokerInit, BrokerNext, PTL DEF Spec, ImplementsFeed, Feed!Spec


=============================================================================
