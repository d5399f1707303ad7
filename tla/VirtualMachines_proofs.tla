----------------------- MODULE VirtualMachines_proofs -----------------------
(***************************************************************************)
(* Proofs about module VirtualMachines, for any number of requests of any  *)
(* size, any pages, and any contents of the two disks: the memory that the *)
(* web server pins, the pages, and what module AlertBroker_proofs proves   *)
(* of the monitoring pipeline, carried over to the four machines together. *)
(***************************************************************************)
EXTENDS VirtualMachines, AlertBroker_proofs, WellFoundedInduction

-----------------------------------------------------------------------------
(***************************************************************************)
(* The pinned memory.                                                      *)
(***************************************************************************)

GatewayTypes ==
  /\ silo \in Nat
  /\ consume \in [Consumers ->
       {"none", "never", "refused", "locking", "filling", "panicked", "answered"}]
  /\ base \in [Consumers -> Nat]

\* One handler is between its Lock and its Unlock, and nobody has moved the end of
\* the silo since it took the mutex; what it appends has no negative length.
OneFills ==
  \A c, d \in Consumers : consume[c] = "filling" /\ consume[d] = "filling" => c = d

FillsAtTheEnd == \A c \in Consumers : consume[c] = "filling" => base[c] = silo

NoNegativePiece ==
  \A c \in Consumers : consume[c] \in {"filling", "answered"} => Length(c) >= 0

Memory ==
  /\ GatewayTypes
  /\ OneFills
  /\ FillsAtTheEnd
  /\ NoNegativePiece
  /\ SiloKeepsAll

LEMMA LengthIsInt ==
  ASSUME NEW c \in Consumers
  PROVE  Length(c) \in Int
<1> DEFINE m == MaxLength + 1
<1>1. MB[c] \in Nat /\ m \in Nat /\ m > 0
  BY GatewayAssumption
<1>2. (MB[c] + m) % (2 * m) \in Int
  BY <1>1
<1>3. Length(c) = ((MB[c] + m) % (2 * m)) - m
  BY <1>1, GatewayAssumption DEF Length
<1> QED
  BY <1>1, <1>2, <1>3

LEMMA MemoryInit == InitGateway => Memory
<1> SUFFICES ASSUME InitGateway
             PROVE  Memory
  OBVIOUS
<1> USE DEF InitGateway
<1>1. GatewayTypes
  BY DEF GatewayTypes
<1>2. SiloKeepsAll
  BY DEF SiloKeepsAll
<1> QED
  BY <1>1, <1>2 DEF Memory, OneFills, FillsAtTheEnd, NoNegativePiece

\* A request that is not being appended moves no end and adds no piece.
LEMMA MemoryStays ==
  ASSUME Memory, silo' = silo, base' = base,
         consume' \in [Consumers ->
           {"none", "never", "refused", "locking", "filling", "panicked", "answered"}],
         \A c \in Consumers :
           consume'[c] # consume[c] => {consume[c], consume'[c]} \cap {"filling", "answered"} = {}
  PROVE  Memory'
<1>1. \A c \in Consumers : /\ consume'[c] = "filling" <=> consume[c] = "filling"
                           /\ consume'[c] = "answered" <=> consume[c] = "answered"
  OBVIOUS
<1>2. \A c : Piece(c)' = Piece(c) /\ Length(c)' = Length(c)
  BY DEF Piece, Length
<1>3. SiloKeepsAll'
  BY <1>1, <1>2 DEF Memory, SiloKeepsAll
<1>4. GatewayTypes'
  BY DEF Memory, GatewayTypes
<1> QED
  BY <1>1, <1>2, <1>3, <1>4 DEF Memory, OneFills, FillsAtTheEnd, NoNegativePiece

LEMMA MemoryAllocate ==
  ASSUME Memory, NEW c \in Consumers, Allocate(c)
  PROVE  Memory'
<1>1. /\ silo' = silo /\ silo \in Nat
      /\ base' = [base EXCEPT ![c] = silo]
      /\ consume[c] = "locking"
      /\ \A d \in Consumers : consume[d] # "filling"
      /\ consume' = [consume EXCEPT ![c] = IF Length(c) < 0 THEN "panicked" ELSE "filling"]
  BY DEF Allocate, SiloFree, Memory, GatewayTypes
<1>2. GatewayTypes'
  BY <1>1 DEF Memory, GatewayTypes
<1>3. \A d : Length(d)' = Length(d)
  BY DEF Length
<1>4. \A d \in Consumers : consume'[d] = "answered" <=> consume[d] = "answered"
  BY <1>1 DEF Memory, GatewayTypes
<1>5. \A d \in Consumers : consume'[d] = "answered" => Piece(d)' = Piece(d)
  BY <1>1, <1>3, <1>4 DEF Memory, GatewayTypes, Piece
<1>6. SiloKeepsAll'
  <2> DEFINE answered == {d \in Consumers : consume[d] = "answered"}
  <2>1. answered' = answered
    BY <1>4
  <2>2. UNION {Piece(d)' : d \in answered'} = UNION {Piece(d) : d \in answered}
    BY <1>5, <2>1
  <2> QED
    BY <1>1, <1>5, <2>1, <2>2 DEF Memory, SiloKeepsAll
<1>7. \A d \in Consumers : consume'[d] = "filling" => d = c /\ Length(c) >= 0 /\ base'[d] = silo'
  BY <1>1, LengthIsInt DEF Memory, GatewayTypes
<1> QED
  BY <1>2, <1>3, <1>4, <1>6, <1>7
  DEF Memory, OneFills, FillsAtTheEnd, NoNegativePiece

\* The piece of the request begins where the silo ended: it meets no other, and the
\* silo ends behind it.
LEMMA MemoryPin ==
  ASSUME Memory, NEW c \in Consumers, Pin(c)
  PROVE  Memory'
<1> DEFINE size == Length(c)
           answered == {d \in Consumers : consume[d] = "answered"}
<1>1. /\ silo \in Nat /\ base[c] = silo
      /\ base' = base
      /\ silo' = silo + size
      /\ consume[c] = "filling"
      /\ consume' = [consume EXCEPT ![c] = "answered"]
  BY DEF Pin, Memory, GatewayTypes, FillsAtTheEnd
<1>2. size \in Nat
  BY <1>1, LengthIsInt DEF Memory, NoNegativePiece
<1>3. \A d : Length(d)' = Length(d) /\ Piece(d)' = Piece(d)
  BY <1>1 DEF Length, Piece
<1>4. answered' = answered \cup {c} /\ c \notin answered
  BY <1>1 DEF Memory, GatewayTypes
<1>5. Piece(c) = silo .. silo + size - 1
  BY <1>1 DEF Piece
<1>6. /\ UNION {Piece(d) : d \in answered} = 0 .. silo - 1
      /\ \A d, e \in answered : d # e => Piece(d) \cap Piece(e) = {}
  BY DEF Memory, SiloKeepsAll
<1>7. SiloKeepsAll'
  <2>1. UNION {Piece(d) : d \in answered \cup {c}}
          = (UNION {Piece(d) : d \in answered}) \cup Piece(c)
    OBVIOUS
  <2>2. (0 .. silo - 1) \cup (silo .. silo + size - 1) = 0 .. silo + size - 1
    BY <1>1, <1>2
  <2>3. UNION {Piece(d)' : d \in answered'} = 0 .. silo' - 1
    <3>1. UNION {Piece(d)' : d \in answered'} = UNION {Piece(d) : d \in answered \cup {c}}
      BY <1>3, <1>4
    <3>2. silo' - 1 = silo + size - 1
      BY <1>1, <1>2
    <3> HIDE DEF size, answered
    <3> QED
      BY <3>1, <3>2, <1>5, <1>6, <2>1, <2>2
  <2>4. \A d \in answered : Piece(d) \subseteq 0 .. silo - 1
    BY <1>6
  <2>5. (0 .. silo - 1) \cap (silo .. silo + size - 1) = {}
    BY <1>1, <1>2
  <2>6. \A d \in answered : Piece(d) \cap Piece(c) = {}
    BY <1>5, <2>4, <2>5
  <2>7. \A d, e \in answered' : d # e => Piece(d)' \cap Piece(e)' = {}
    BY <1>3, <1>4, <1>6, <2>6
  <2> QED
    BY <2>3, <2>7 DEF SiloKeepsAll
<1>8. GatewayTypes'
  BY <1>1, <1>2 DEF Memory, GatewayTypes
<1>9. \A d \in Consumers : consume'[d] # "filling"
  BY <1>1 DEF Memory, GatewayTypes, OneFills
<1>10. \A d \in Consumers : consume'[d] = "answered" => consume[d] \in {"filling", "answered"}
  BY <1>1 DEF Memory, GatewayTypes
<1>11. NoNegativePiece'
  BY <1>3, <1>9, <1>10 DEF Memory, NoNegativePiece
<1> QED
  BY <1>7, <1>8, <1>9, <1>11 DEF Memory, OneFills, FillsAtTheEnd

LEMMA MemoryNext == Memory /\ [NextSystem]_systemVars => Memory'
<1> SUFFICES ASSUME Memory, [NextSystem]_systemVars
             PROVE  Memory'
  OBVIOUS
<1>1. ASSUME NEW c \in Consumers, Consume(c)
      PROVE  Memory'
  <2>1. /\ silo' = silo /\ base' = base
        /\ consume' \in [Consumers ->
             {"none", "never", "refused", "locking", "filling", "panicked", "answered"}]
    BY <1>1 DEF Consume, Memory, GatewayTypes
  <2>2. \A d \in Consumers :
          consume'[d] # consume[d] => {consume[d], consume'[d]} \cap {"filling", "answered"} = {}
    BY <1>1 DEF Consume, Memory, GatewayTypes
  <2> QED
    BY <2>1, <2>2, MemoryStays
<1>2. ASSUME UNCHANGED gateway
      PROVE  Memory'
  <2>1. silo' = silo /\ base' = base /\ consume' = consume
    BY <1>2 DEF gateway
  <2> QED
    BY <2>1, MemoryStays DEF Memory, GatewayTypes
<1>3. CASE NextGateway
  BY <1>1, <1>2, <1>3, MemoryAllocate, MemoryPin
  DEF NextGateway, MonitorTick, Pipeline, HandleConsume
<1>4. CASE UNCHANGED gatewayVars
  BY <1>2, <1>4 DEF gatewayVars
<1> QED
  BY <1>3, <1>4 DEF NextSystem, systemVars

\* No request to /consume-memory that was answered loses its memory to another, for
\* any requests at the same time.
THEOREM PinnedMemoryIsKept == SystemSpec => []SiloKeepsAll
<1>1. InitSystem => Memory
  BY MemoryInit DEF InitSystem
<1>2. Memory => SiloKeepsAll
  BY DEF Memory
<1> QED
  BY <1>1, <1>2, MemoryNext, PTL DEF SystemSpec

-----------------------------------------------------------------------------
(***************************************************************************)
(* The monitoring pipeline runs in the four machines as it does alone.     *)
(***************************************************************************)

LEMMA SystemStep == [NextSystem]_systemVars => [Next]_vars
<1> SUFFICES ASSUME [NextSystem]_systemVars
             PROVE  [Next]_vars
  OBVIOUS
<1>1. CASE MonitorTick
  BY <1>1 DEF MonitorTick, Next
<1>2. CASE Pipeline
  BY <1>2 DEF Pipeline, Next
<1>3. ASSUME NEW c \in Consumers, Consume(c) \/ HandleConsume(c)
      PROVE  UNCHANGED vars
  BY <1>3 DEF Consume, HandleConsume, Allocate, Pin
<1>4. CASE UNCHANGED gatewayVars
  BY <1>4 DEF gatewayVars
<1> QED
  BY <1>1, <1>2, <1>3, <1>4 DEF NextSystem, NextGateway, systemVars

\* The broker and its subscribers, posted to by the monitor of a web server that
\* also pins memory and serves pages, keep what they promise: a subscriber prints
\* every alert since it joined, in order, and the broker is a feed.
THEOREM SystemKeepsTheFeed ==
  SystemSpec => []TypeOK /\ []StreamComplete /\ ImplementsFeed
<1>1. InitSystem => Init
  BY DEF InitSystem, InitGateway
<1>2. SystemSpec => Spec
  BY <1>1, SystemStep, PTL DEF SystemSpec, Spec
<1> QED
  BY <1>2, BrokerTypeCorrect, BrokerStreamsComplete, BrokerImplementsFeed

-----------------------------------------------------------------------------
(***************************************************************************)
(* The pages.                                                              *)
(***************************************************************************)

\* What a disk says about a page: the verdict on a login, the content of a file.
Answers(q, result, disk) ==
  IF q \in Logins
  THEN disk # Unreadable /\ result = Success(HasPassword(disk, q))
  ELSE disk # Absent /\ result = Data(disk) /\ q.folder \in Folders

Disks ==
  /\ users \in Accounts
  /\ files \in [Paths -> Contents \cup {Absent}]
  /\ page \in [Pages -> {"none", "never", "400", "dialing", "calling", "returning", "303",
                         "401", "500", "200"}]
  /\ DOMAIN reply = Pages
  /\ DOMAIN held = Pages

\* While the call runs, what the disk holds now is part of the history.
HeldNow ==
  \A q \in Pages : page[q] = "calling" => DiskFor(q, users, files) \in held[q]

NoReplyYet ==
  \A q \in Pages : page[q] \in {"none", "never", "dialing", "calling"} => reply[q] = Error

\* What arrived is what some disk that was held during the call says.
RepliesHeld ==
  \A q \in Pages : reply[q] = Error \/ \E disk \in held[q] : Answers(q, reply[q], disk)

Statuses ==
  \A q \in Pages :
    /\ page[q] = "303" => q \in Logins /\ reply[q] = Success(TRUE)
    /\ page[q] = "401" => q \in Logins /\ reply[q] # Success(TRUE)
    /\ page[q] = "200" => q \in Views /\ reply[q] # Error

Served ==
  /\ Disks
  /\ HeldNow
  /\ NoReplyYet
  /\ RepliesHeld
  /\ Statuses

LEMMA ServedInit == InitPages => Served
<1> SUFFICES ASSUME InitPages
             PROVE  Served
  OBVIOUS
<1> USE DEF InitPages
<1>1. Disks
  BY DEF Disks
<1>2. \A q \in Pages : page[q] \in {"none", "never"} /\ reply[q] = Error
  OBVIOUS
<1> QED
  BY <1>1, <1>2 DEF Served, HeldNow, NoReplyYet, RepliesHeld, Statuses

\* The results are told apart by their kind.
LEMMA ResultsDiffer ==
  /\ \A x : Success(x) # Error /\ Data(x) # Error
  /\ \A x, y : Success(x) = Success(y) => x = y
<1>1. \A x : Success(x).kind = "login" /\ Data(x).kind = "file" /\ Error.kind = "error"
  BY DEF Success, Data, Error
<1>2. \A x : Success(x).success = x
  BY DEF Success
<1> QED
  BY <1>1, <1>2

\* A loop over the entries that stops at the first one of a user finds the password
\* there or nowhere.
LEMMA LoginJudges ==
  ASSUME NEW q \in Logins, NEW accounts \in Accounts, accounts # Unreadable
  PROVE  Login(q, accounts) = Success(HasPassword(accounts, q))
<1> DEFINE named == {i \in 1 .. Len(accounts) : accounts[i].username = q.username}
           first == SelectInSeq(accounts, LAMBDA u : u.username = q.username)
<1>1. Len(accounts) \in Nat /\ DOMAIN accounts = 1 .. Len(accounts)
  BY PagesAssumption
<1>2. first = IF named # {} THEN Min(named) ELSE 0
  BY DEF SelectInSeq
<1>3. Login(q, accounts) = Success(first # 0 /\ accounts[first].hash = HashOf[q.password])
  BY DEF Login
<1>4. CASE named = {}
  <2>1. ~HasPassword(accounts, q)
    BY <1>1, <1>4 DEF HasPassword
  <2>2. (first # 0 /\ accounts[first].hash = HashOf[q.password]) = FALSE
    BY <1>2, <1>4
  <2>3. HasPassword(accounts, q) = FALSE
    BY <2>1 DEF HasPassword
  <2> QED
    BY <1>3, <2>2, <2>3
<1>5. CASE named # {}
  <2>1. PICK i \in named : \A j \in named : i <= j
    <3> DEFINE below == {ss \in Nat \X Nat : ss[1] < ss[2]}
    <3>1. named \subseteq Nat
      BY <1>1
    <3>2. IsWellFoundedOn(below, Nat)
      BY NatLessThanWellFounded DEF OpToRel
    <3>3. \E i \in named : \A j \in named : <<j, i>> \notin below
      <4> HIDE DEF named, below
      <4> QED
        BY <1>5, <3>1, <3>2, WFMin
    <3>4. PICK i \in named : \A j \in named : <<j, i>> \notin below
      BY <3>3
    <3>5. \A j \in named : i <= j
      <4> HIDE DEF named
      <4> SUFFICES ASSUME NEW j \in named
                   PROVE  i <= j
        OBVIOUS
      <4>1. i \in Nat /\ j \in Nat /\ <<j, i>> \notin below
        BY <3>1, <3>4
      <4>2. j < i => <<j, i>> \in below
        BY <4>1
      <4> QED
        BY <4>1, <4>2
    <3> QED
      BY <3>5
  <2>2. first = i /\ i \in 1 .. Len(accounts) /\ i \in Nat
    <3>1. /\ Min(named) \in named
          /\ \A j \in named : Min(named) <= j
      <4> HIDE DEF named
      <4> QED
        BY <2>1 DEF Min
    <3>2. named \subseteq Nat
      BY <1>1
    <3> HIDE DEF first
    <3>3. i \in named /\ first = Min(named)
      BY <1>2, <1>5, <2>1
    <3>4. first = i
      <4> HIDE DEF named
      <4>1. i <= first /\ first <= i
        BY <2>1, <3>1, <3>3
      <4>2. first \in Nat /\ i \in Nat
        BY <3>1, <3>2, <3>3
      <4> QED
        BY <4>1, <4>2
    <3> QED
      BY <1>1, <3>3, <3>4
  <2>3. \A j \in 1 .. i - 1 : accounts[j].username # q.username
    BY <1>1, <2>1, <2>2
  <2>4. accounts[i].username = q.username
    BY <2>1
  <2>5. HasPassword(accounts, q) <=> accounts[i].hash = HashOf[q.password]
    <3>1. ASSUME accounts[i].hash = HashOf[q.password]
          PROVE  HasPassword(accounts, q)
      BY <1>1, <2>2, <2>3, <2>4, <3>1 DEF HasPassword
    <3>2. ASSUME HasPassword(accounts, q)
          PROVE  accounts[i].hash = HashOf[q.password]
      <4>1. PICK k \in 1 .. Len(accounts) :
              /\ accounts[k].username = q.username
              /\ accounts[k].hash = HashOf[q.password]
              /\ \A j \in 1 .. k - 1 : accounts[j].username # q.username
        BY <1>1, <3>2 DEF HasPassword
      <4>2. k = i
        BY <1>1, <2>1, <2>2, <2>4, <4>1
      <4> QED
        BY <4>1, <4>2
    <3> QED
      BY <3>1, <3>2
  <2>6. HasPassword(accounts, q) \in BOOLEAN
    BY DEF HasPassword
  <2>7. (first # 0 /\ accounts[first].hash = HashOf[q.password]) = HasPassword(accounts, q)
    BY <2>2, <2>5, <2>6
  <2> QED
    BY <1>3, <2>7
<1> QED
  BY <1>4, <1>5

\* What a service computes is an error, or what the part of its disk that the page is
\* about says.
LEMMA ServicesAnswer ==
  ASSUME Disks, NEW q \in Pages,
         NEW result, result = IF q \in Logins THEN Login(q, users) ELSE FetchFile(q, files)
  PROVE  result = Error \/ Answers(q, result, DiskFor(q, users, files))
<1>1. CASE q \in Logins
  <2>1. CASE users = Unreadable
    BY <1>1, <2>1 DEF Login
  <2>2. CASE users # Unreadable
    BY <1>1, <2>2, LoginJudges DEF Disks, Answers, DiskFor
  <2> QED
    BY <2>1, <2>2
<1>2. CASE q \notin Logins
  <2>1. CASE PathOf(q) \notin Paths \/ files[PathOf(q)] = Absent
    BY <1>2, <2>1 DEF FetchFile
  <2>2. CASE PathOf(q) \in Paths /\ files[PathOf(q)] # Absent
    <3>1. q.folder \in Folders
      BY <2>2 DEF PathOf, Paths
    <3> QED
      BY <1>2, <2>2, <3>1 DEF FetchFile, Answers, DiskFor
  <2> QED
    BY <2>1, <2>2
<1> QED
  BY <1>1, <1>2

LEMMA ServedAsk ==
  ASSUME Served, NEW q \in Pages, Ask(q)
  PROVE  Served'
<1>1. /\ page[q] = "none"
      /\ page' = [page EXCEPT ![q] =
           IF q \in Views /\ "" \in {q.folder, q.name} THEN "400" ELSE "dialing"]
      /\ users' = users /\ files' = files /\ reply' = reply /\ held' = held
  BY DEF Ask
<1>2. Disks'
  BY <1>1 DEF Served, Disks
<1>3. \A p \in Pages : page'[p] = page[p] \/ (p = q /\ page'[p] \in {"400", "dialing"})
  BY <1>1 DEF Served, Disks
<1>4. \A p \in Pages : DiskFor(p, users, files)' = DiskFor(p, users, files)
  BY <1>1 DEF DiskFor
<1>5. HeldNow'
  BY <1>1, <1>3, <1>4 DEF Served, HeldNow
<1>6. NoReplyYet'
  BY <1>1, <1>3 DEF Served, NoReplyYet
<1>7. RepliesHeld'
  BY <1>1 DEF Served, RepliesHeld, Answers
<1>8. Statuses'
  BY <1>1, <1>3 DEF Served, Statuses
<1> QED
  BY <1>2, <1>5, <1>6, <1>7, <1>8 DEF Served

LEMMA ServedDial ==
  ASSUME Served, NEW q \in Pages, DialService(q)
  PROVE  Served'
<1>1. /\ page[q] = "dialing"
      /\ users' = users /\ files' = files /\ reply' = reply
      /\ \/ /\ page' = [page EXCEPT ![q] = "calling"]
            /\ held' = [held EXCEPT ![q] = {DiskFor(q, users, files)}]
         \/ /\ page' = [page EXCEPT ![q] = "500"]
            /\ held' = held
  BY DEF DialService
<1>2. Disks'
  BY <1>1 DEF Served, Disks
<1>3. \A p \in Pages :
        /\ page'[p] = page[p] \/ (p = q /\ page'[p] \in {"calling", "500"})
        /\ page'[p] = "calling" => page[p] = "calling" \/ p = q
        /\ held'[p] = held[p] \/ (p = q /\ reply[p] = Error)
  BY <1>1 DEF Served, Disks, NoReplyYet
<1>4. \A p \in Pages : DiskFor(p, users, files)' = DiskFor(p, users, files)
  BY <1>1 DEF DiskFor
<1>5. HeldNow'
  <2> SUFFICES ASSUME NEW p \in Pages, page'[p] = "calling"
               PROVE  DiskFor(p, users, files) \in held'[p]
    BY <1>4 DEF HeldNow
  <2>1. CASE p = q
    BY <1>1, <2>1 DEF Served, Disks
  <2>2. CASE p # q
    BY <1>1, <2>2 DEF Served, Disks, HeldNow
  <2> QED
    BY <2>1, <2>2
<1>6. NoReplyYet'
  BY <1>1, <1>3 DEF Served, NoReplyYet
<1>7. RepliesHeld'
  BY <1>1, <1>3 DEF Served, RepliesHeld, Answers
<1>8. Statuses'
  BY <1>1, <1>3 DEF Served, Statuses
<1> QED
  BY <1>2, <1>5, <1>6, <1>7, <1>8 DEF Served

\* The call runs on what the disk holds now, which the history knows.
LEMMA ServedServe ==
  ASSUME Served, NEW q \in Pages, Serve(q)
  PROVE  Served'
<1> DEFINE result == IF q \in Logins THEN Login(q, users) ELSE FetchFile(q, files)
<1>1. /\ page[q] = "calling"
      /\ page' = [page EXCEPT ![q] = "returning"]
      /\ reply' = [reply EXCEPT ![q] = result]
      /\ users' = users /\ files' = files /\ held' = held
  BY DEF Serve
<1>2. result = Error \/ Answers(q, result, DiskFor(q, users, files))
  BY ServicesAnswer DEF Served
<1> HIDE DEF result
<1>3. Disks'
  BY <1>1 DEF Served, Disks
<1>4. \A p \in Pages : /\ page'[p] = page[p] \/ (p = q /\ page'[p] = "returning")
                       /\ reply'[p] = reply[p] \/ p = q
                       /\ p = q => page'[p] = "returning" /\ reply'[p] = result
  BY <1>1 DEF Served, Disks
<1>5. \A p \in Pages : DiskFor(p, users, files)' = DiskFor(p, users, files)
  BY <1>1 DEF DiskFor
<1>6. HeldNow'
  BY <1>1, <1>4, <1>5 DEF Served, HeldNow
<1>7. NoReplyYet'
  BY <1>1, <1>4 DEF Served, NoReplyYet
<1>8. RepliesHeld'
  <2> SUFFICES ASSUME NEW p \in Pages, reply'[p] # Error
               PROVE  \E disk \in held[p] : Answers(p, reply'[p], disk)
    BY <1>1 DEF RepliesHeld, Answers
  <2>1. CASE p = q
    BY <1>1, <1>2, <1>4, <2>1 DEF Served, HeldNow
  <2>2. CASE p # q
    BY <1>4, <2>2 DEF Served, RepliesHeld
  <2> QED
    BY <2>1, <2>2
<1>9. Statuses'
  BY <1>1, <1>4 DEF Served, Statuses
<1> QED
  BY <1>3, <1>6, <1>7, <1>8, <1>9 DEF Served

LEMMA ServedReturn ==
  ASSUME Served, NEW q \in Pages, Return(q)
  PROVE  Served'
<1>1. /\ page[q] = "returning"
      /\ page' = [page EXCEPT ![q] =
           IF q \in Logins THEN (IF reply[q] = Success(TRUE) THEN "303" ELSE "401")
           ELSE IF reply[q] = Error THEN "500" ELSE "200"]
      /\ users' = users /\ files' = files /\ reply' = reply /\ held' = held
  BY DEF Return
<1>2. Disks'
  BY <1>1 DEF Served, Disks
<1>3. \A p \in Pages :
        \/ page'[p] = page[p]
        \/ /\ p = q
           /\ \/ q \in Logins /\ reply[q] = Success(TRUE) /\ page'[p] = "303"
              \/ q \in Logins /\ reply[q] # Success(TRUE) /\ page'[p] = "401"
              \/ reply[q] = Error /\ page'[p] = "500"
              \/ q \notin Logins /\ reply[q] # Error /\ page'[p] = "200"
  BY <1>1 DEF Served, Disks
<1>4. \A p \in Pages : DiskFor(p, users, files)' = DiskFor(p, users, files)
  BY <1>1 DEF DiskFor
<1>5. HeldNow'
  BY <1>1, <1>3, <1>4 DEF Served, HeldNow
<1>6. NoReplyYet'
  BY <1>1, <1>3 DEF Served, NoReplyYet
<1>7. RepliesHeld'
  BY <1>1 DEF Served, RepliesHeld, Answers
<1>8. Statuses'
  BY <1>1, <1>3 DEF Served, Statuses, Pages
<1> QED
  BY <1>2, <1>5, <1>6, <1>7, <1>8 DEF Served

\* A call that breaks returns an error, one whose reply arrives keeps it.
LEMMA ServedStop ==
  ASSUME Served, NEW v \in Services, StopService(v)
  PROVE  Served'
<1>1. PICK arrives \in SUBSET {q \in Calls(v) : page[q] = "returning"} :
        /\ page' = [q \in Pages |-> IF q \in Calls(v) THEN "returning" ELSE page[q]]
        /\ reply' = [q \in Pages |-> IF q \in Calls(v) \ arrives THEN Error ELSE reply[q]]
        /\ users' = users /\ files' = files /\ held' = held
  BY DEF StopService
<1>2. Disks'
  BY <1>1 DEF Served, Disks
<1>3. \A p \in Pages : /\ page'[p] = page[p] \/ page'[p] = "returning"
                       /\ reply'[p] = Error \/ reply'[p] = reply[p]
                       /\ page'[p] # "returning" => reply'[p] = reply[p]
  BY <1>1
<1>4. \A p \in Pages : DiskFor(p, users, files)' = DiskFor(p, users, files)
  BY <1>1 DEF DiskFor
<1>5. HeldNow'
  BY <1>1, <1>3, <1>4 DEF Served, HeldNow
<1>6. NoReplyYet'
  BY <1>3 DEF Served, NoReplyYet
<1>7. RepliesHeld'
  <2> SUFFICES ASSUME NEW p \in Pages, reply'[p] # Error
               PROVE  \E disk \in held[p] : Answers(p, reply'[p], disk)
    BY <1>1 DEF RepliesHeld, Answers
  <2> QED
    BY <1>3 DEF Served, RepliesHeld
<1>8. Statuses'
  BY <1>3 DEF Served, Statuses
<1> QED
  BY <1>2, <1>5, <1>6, <1>7, <1>8 DEF Served

\* An edit adds what a running call may now read to its history.
LEMMA ServedEdit ==
  ASSUME Served, Edit
  PROVE  Served'
<1>1. /\ users' \in Accounts
      /\ files' \in [Paths -> Contents \cup {Absent}]
      /\ held' = [q \in Pages |-> IF page[q] = "calling"
                                  THEN held[q] \cup {DiskFor(q, users', files')} ELSE held[q]]
      /\ page' = page /\ reply' = reply
  BY DEF Edit, Served, Disks
<1>2. Disks'
  BY <1>1 DEF Served, Disks
<1>3. \A p \in Pages : held[p] \subseteq held'[p]
  BY <1>1
<1>4. HeldNow'
  BY <1>1 DEF HeldNow, DiskFor
<1>5. NoReplyYet'
  BY <1>1 DEF Served, NoReplyYet
<1>6. RepliesHeld'
  BY <1>1, <1>3 DEF Served, RepliesHeld, Answers
<1>7. Statuses'
  BY <1>1 DEF Served, Statuses
<1> QED
  BY <1>2, <1>4, <1>5, <1>6, <1>7 DEF Served

LEMMA ServedNext == Served /\ [NextSystem]_systemVars => Served'
<1> SUFFICES ASSUME Served, [NextSystem]_systemVars
             PROVE  Served'
  OBVIOUS
<1>1. ASSUME users' = users, files' = files, page' = page, reply' = reply, held' = held
      PROVE  Served'
  <2>1. Disks' /\ NoReplyYet' /\ Statuses'
    BY <1>1 DEF Served, Disks, NoReplyYet, Statuses
  <2>2. HeldNow' /\ RepliesHeld'
    BY <1>1 DEF Served, HeldNow, DiskFor, RepliesHeld, Answers
  <2> QED
    BY <2>1, <2>2 DEF Served
<1>2. ASSUME NEW v \in Services, StartService(v)
      PROVE  Served'
  BY <1>1, <1>2 DEF StartService
<1>3. CASE UNCHANGED pageVars
  BY <1>1, <1>3 DEF pageVars
<1>4. CASE NextPages
  BY <1>2, <1>4, ServedAsk, ServedDial, ServedServe, ServedReturn, ServedStop, ServedEdit
  DEF NextPages, HandlePage
<1> QED
  BY <1>3, <1>4 DEF NextSystem, systemVars

LEMMA ServedJudged == Served => LoginJudged
<1> SUFFICES ASSUME Served, NEW q \in Logins
             PROVE  LET readable == held[q] \ {Unreadable}
                    IN  /\ page[q] = "303" => \E accounts \in readable : HasPassword(accounts, q)
                        /\ page[q] = "401" /\ reply[q] # Error =>
                             \E accounts \in readable : ~HasPassword(accounts, q)
  BY DEF LoginJudged
<1>1. q \in Pages
  BY DEF Pages
<1>2. ASSUME reply[q] # Error
      PROVE  \E accounts \in held[q] \ {Unreadable} : reply[q] = Success(HasPassword(accounts, q))
  BY <1>1, <1>2 DEF Served, RepliesHeld, Answers
<1>3. \A accounts : HasPassword(accounts, q) \in BOOLEAN
  BY DEF HasPassword
<1>4. ASSUME page[q] = "303"
      PROVE  \E accounts \in held[q] \ {Unreadable} : HasPassword(accounts, q)
  <2>1. reply[q] = Success(TRUE)
    BY <1>1, <1>4 DEF Served, Statuses
  <2> QED
    BY <1>2, <2>1, ResultsDiffer
<1>5. ASSUME page[q] = "401", reply[q] # Error
      PROVE  \E accounts \in held[q] \ {Unreadable} : ~HasPassword(accounts, q)
  <2>1. reply[q] # Success(TRUE)
    BY <1>1, <1>5 DEF Served, Statuses
  <2> QED
    BY <1>2, <1>3, <1>5, <2>1
<1> QED
  BY <1>4, <1>5

LEMMA ServedFiles == Served => FileServed
<1> SUFFICES ASSUME Served, NEW q \in Views, page[q] = "200"
             PROVE  q.folder \in Folders /\ reply[q].data \in held[q] \ {Absent}
  BY DEF FileServed
<1>1. q \in Pages /\ q \notin Logins
  BY PagesAssumption DEF Pages
<1>2. PICK disk \in held[q] : disk # Absent /\ reply[q] = Data(disk) /\ q.folder \in Folders
  BY <1>1 DEF Served, Statuses, RepliesHeld, Answers
<1>3. reply[q].data = disk
  BY <1>2 DEF Data
<1> QED
  BY <1>2, <1>3

LEMMA ServedInvariant == SystemSpec => []Served
<1>1. InitSystem => Served
  BY ServedInit DEF InitSystem
<1> QED
  BY <1>1, ServedNext, PTL DEF SystemSpec

\* Who is let in had the password, and who is denied by the service had not, in a
\* users.json that was there during the call.
THEOREM LoginsAreJudged == SystemSpec => []LoginJudged
BY ServedInvariant, ServedJudged, PTL

\* A page shows what the file it names held during the call.
THEOREM FilesAreServed == SystemSpec => []FileServed
BY ServedInvariant, ServedFiles, PTL

=============================================================================
