------------------------ MODULE ClientSession_proofs ------------------------
(***************************************************************************)
(* Proofs about module ClientSession: a session with any commands, over any*)
(* replicas, beside any other clients, under every choice of faults.       *)
(***************************************************************************)
EXTENDS ClientSession, Replication_proofs

-----------------------------------------------------------------------------
(***************************************************************************)
(* The session takes the steps of the replicated store and no others.      *)
(***************************************************************************)

LEMMA SessionStep == [SessionNext]_sessionVars => [Next]_vars
<1> SUFFICES ASSUME [SessionNext]_sessionVars
             PROVE  [Next]_vars
  OBVIOUS
<1> USE SessionAssumption
<1>1. CASE Command \/ CommandReturns
  BY <1>1 DEF Command, CommandReturns, PutCommand, GetCommand, Switch, PutReturns, GetReturns,
              GiveUp
<1>2. ASSUME NEW r \in Replicas, NEW p \in Mine, TakePut(r, p)
      PROVE  Next
  BY <1>2 DEF TakePut, Next
<1>3. ASSUME NEW r \in Replicas, CrashOf(r)
      PROVE  Next
  BY <1>3 DEF CrashOf, Next
<1>4. CASE Others
  BY <1>4 DEF Others, Next
<1>5. CASE UNCHANGED sessionVars
  BY <1>5 DEF sessionVars
<1> QED
  BY <1>1, <1>2, <1>3, <1>4, <1>5 DEF SessionNext

\* A process ends in a crash, and then the session forgets what it told.
LEMMA DownIsCrashOf ==
  ASSUME [SessionNext]_sessionVars, NEW r \in Replicas, up[r], ~up'[r], Types
  PROVE  CrashOf(r)
<1>1. ASSUME NEW s \in Replicas, CrashOf(s)
      PROVE  s = r
  BY <1>1 DEF CrashOf, Crash, Types
<1>2. CASE Command \/ CommandReturns
  BY <1>2 DEF Command, CommandReturns, PutCommand, GetCommand, Switch, PutReturns, GetReturns,
              GiveUp, vars
<1>3. ASSUME NEW s \in Replicas, NEW p \in Mine, TakePut(s, p)
      PROVE  FALSE
  BY <1>3 DEF TakePut, HandlePut, HandlePutInvalid, HandlePutEventual, HandlePutStrong, PutLocally
<1>4. CASE Others
  <2>1. \A s \in Replicas, p \in Requests : HandlePut(s, p) => up' = up
    BY DEF HandlePut, HandlePutInvalid, HandlePutEventual, HandlePutStrong, PutLocally
  <2>2. \A p \in Requests : SendQuorumReturns(p) => up' = up
    BY DEF SendQuorumReturns, QuorumReached, QuorumFailed
  <2>3. \A p \in Requests, q \in Replicas : Sender(p, q) \/ HandleReplicate(p, q) => up' = up
    BY DEF Sender, Post, SendRefused, Ack, ReplyLost, Timeout, HandleReplicate
  <2>4. ASSUME NEW s \in Replicas, Restart(s)
        PROVE  FALSE
    BY <2>4 DEF Restart, Types
  <2> QED
    BY <1>4, <2>1, <2>2, <2>3, <2>4 DEF Others
<1>5. CASE UNCHANGED sessionVars
  BY <1>5 DEF sessionVars, vars
<1> QED
  BY <1>1, <1>2, <1>3, <1>4, <1>5 DEF SessionNext

-----------------------------------------------------------------------------
(***************************************************************************)
(* The inductive invariant.                                                *)
(***************************************************************************)

\* e is f, or was put behind it by last-writer-wins.
Reached(e, f) == e # NoEntry /\ (e = f \/ Beats(e, f))

SessionTypes ==
  /\ addr \in Replicas
  /\ issued \subseteq Mine
  /\ socket \in [Replicas -> SUBSET issued]
  /\ told \in [Replicas -> [Keys -> Entry \cup {NoEntry}]]

\* A request of the session is written by no one before its command is given.
NotYetIssued == \A p \in Mine \ issued : p \notin Written

\* The POST of the command in progress is or was at the address only.
PutAtAddr ==
  \A p \in Mine : command = PutOf(p) =>
    /\ p \in issued
    /\ \A r \in Replicas : p \in socket[r] => r = addr
    /\ p \in Written => Coordinator(p) = addr

\* As long as the process that made a write runs, its store has not gone back behind it.
HomeWrites ==
  \A p \in Written :
    p \in knows[Coordinator(p)] => Reached(store[Coordinator(p)][KeyOf[p]], entry[p])

\* A store has not gone back behind what its process told the session.
ToldBehind ==
  \A r \in Replicas, k \in Keys : told[r][k] # NoEntry => Reached(store[r][k], told[r][k])

\* The write of the command in progress is newer than what was told before.
PutAhead ==
  \A p \in Mine :
    command = PutOf(p) /\ p \in Written /\ p \in knows[addr] /\ told[addr][KeyOf[p]] # NoEntry =>
      Beats(entry[p], told[addr][KeyOf[p]])

Session ==
  /\ History
  /\ SessionTypes
  /\ NotYetIssued
  /\ PutAtAddr
  /\ HomeWrites
  /\ ToldBehind
  /\ PutAhead

LEMMA SessionStart == SessionInit => Session
<1> SUFFICES ASSUME SessionInit
             PROVE  Session
  OBVIOUS
<1>1. History /\ Written = {} /\ \A r \in Replicas : knows[r] = {}
  BY HistoryInit DEF SessionInit, Init, Written
<1>2. SessionTypes
  BY DEF SessionInit, SessionTypes
<1>3. \A p \in Mine : command # PutOf(p)
  BY DEF SessionInit, Prompt, PutOf
<1>4. ToldBehind
  BY DEF SessionInit, ToldBehind
<1> QED
  BY <1>1, <1>2, <1>3, <1>4 DEF Session, NotYetIssued, PutAtAddr, HomeWrites, PutAhead

LEMMA BeatsChains ==
  ASSUME NEW e \in Entry, NEW f \in Entry, NEW g \in Entry, Reached(e, f)
  PROVE  /\ Reached(f, g) => Reached(e, g)
         /\ Beats(f, g) => Beats(e, g)
<1>1. \A x \in Entry : x.version \in Nat /\ x.updatedBy \in Nat
  BY ReplicasAssumption DEF Entry
<1>2. Beats(e, f) /\ Beats(f, g) => Beats(e, g)
  BY <1>1 DEF Beats
<1>3. e # NoEntry /\ (e = f \/ Beats(e, f))
  BY DEF Reached
<1>4. Beats(f, g) => Beats(e, g)
  BY <1>2, <1>3
<1> QED
  BY <1>3, <1>4 DEF Reached

\* The names of the commands.
LEMMA CommandsDiffer ==
  /\ \A p, q : PutOf(p) = PutOf(q) => p = q
  /\ \A p, k : PutOf(p) # Prompt /\ PutOf(p) # GetOf(k)
<1>1. \A p : PutOf(p).op = "put" /\ PutOf(p).request = p
  BY DEF PutOf
<1>2. Prompt.op = "none" /\ \A k : GetOf(k).op = "get"
  BY DEF Prompt, GetOf
<1> QED
  BY <1>1, <1>2

-----------------------------------------------------------------------------
(***************************************************************************)
(* What a step does to entries, stores and histories.                      *)
(***************************************************************************)

\* An entry never changes once it is written, and new ones are made by handlers.
LEMMA EntriesStay ==
  ASSUME History, [Next]_vars
  PROVE  /\ \A p \in Written : entry'[p] = entry[p]
         /\ Written \subseteq Written'
         /\ \A p \in Written' \ Written : \E r \in Replicas : HandlePutStored(r, p)
<1>1. CASE UNCHANGED vars
  BY <1>1 DEF vars, Written
<1>2. ASSUME NEW r \in Replicas, NEW p \in Requests, HandlePutStored(r, p)
      PROVE  /\ \A x \in Written : entry'[x] = entry[x]
             /\ Written' = Written \cup {p}
  BY <1>2, PutFacts DEF History, Written
<1>3. CASE \/ \E p \in Requests : Answer(p)
           \/ \E p \in Requests, q \in Replicas : Sender(p, q)
           \/ \E p \in Requests, q \in Replicas : HandleReplicate(p, q)
           \/ \E r \in Replicas : Crash(r)
           \/ \E r \in Replicas : Restart(r)
  <2>1. entry' = entry
    BY <1>3, AnswerFacts, SenderFacts, HandleReplicateFacts, CrashFacts, RestartFacts DEF History
  <2> QED
    BY <2>1 DEF Written
<1> QED
  BY <1>1, <1>2, <1>3, NextCases

\* Nothing brings a write back to the process that made it, or to a later one of the
\* same replica.
LEMMA HomeKnows ==
  ASSUME History, [Next]_vars, NEW p \in Written, p \in knows'[Coordinator(p)]
  PROVE  p \in knows[Coordinator(p)]
<1> DEFINE c == Coordinator(p)
<1>1. c \in Replicas /\ p \in Requests /\ Typed
  BY WrittenEntry DEF History, Typed
<1> HIDE DEF c
<1>2. send[p][c] = "none"
  BY DEF History, AckedByPeers, c
<1>3. ASSUME NEW r \in Replicas, NEW x \in Requests, HandlePutStored(r, x)
      PROVE  x # p /\ \A s \in Replicas : knows'[s] = IF s = r THEN knows[s] \cup {x} ELSE knows[s]
  <2>1. x \notin Written
    BY <1>1, <1>3, PutFacts
  <2>2. \A s \in Replicas : knows'[s] = IF s = r THEN knows[s] \cup {x} ELSE knows[s]
    <3>1. knows' = [knows EXCEPT ![r] = @ \cup {x}]
      BY <1>3 DEF HandlePutStored, HandlePutEventual, HandlePutStrong, PutLocally
    <3> QED
      BY <1>1, <3>1 DEF Typed, Types
  <2> QED
    BY <2>1, <2>2
<1>4. ASSUME NEW x \in Requests, NEW q \in Replicas, HandleReplicate(x, q)
      PROVE  /\ <<x, q>> # <<p, c>>
             /\ \A s \in Replicas : knows'[s] = IF s = q THEN knows[s] \cup {x} ELSE knows[s]
  <2>1. send[x][q] # "none"
    BY <1>4 DEF HandleReplicate
  <2> QED
    BY <1>1, <1>2, <1>4, <2>1, HandleReplicateFacts
<1>5. ASSUME NEW r \in Replicas, Crash(r)
      PROVE  \A s \in Replicas : knows'[s] \subseteq knows[s]
  BY <1>1, <1>5, CrashFacts
<1>6. ASSUME \/ UNCHANGED vars
             \/ \E x \in Requests : Answer(x)
             \/ \E x \in Requests, q \in Replicas : Sender(x, q)
             \/ \E r \in Replicas : Restart(r)
      PROVE  knows' = knows
  BY <1>1, <1>6, AnswerFacts, SenderFacts, RestartFacts DEF vars
<1>7. p \in knows'[c]
  BY DEF c
<1>8. p \in knows[c]
  <2>1. CASE \E r \in Replicas, x \in Requests : HandlePutStored(r, x)
    BY <1>1, <1>3, <1>7, <2>1
  <2>2. CASE \E x \in Requests, q \in Replicas : HandleReplicate(x, q)
    <3>1. PICK x \in Requests, q \in Replicas : HandleReplicate(x, q)
      BY <2>2
    <3>2. /\ x # p \/ q # c
          /\ knows'[c] = IF c = q THEN knows[c] \cup {x} ELSE knows[c]
      BY <1>1, <1>4, <3>1
    <3> QED
      BY <1>7, <3>2
  <2>3. CASE \E r \in Replicas : Crash(r)
    BY <1>1, <1>5, <1>7, <2>3
  <2> QED
    BY <1>6, <1>7, <2>1, <2>2, <2>3, NextCases
<1> QED
  BY <1>8 DEF c

\* In a step of the session a store that held an entry reaches the next one from it,
\* unless its process crashes: then it has no history, and nothing is told by it.
LEMMA StoresReach ==
  ASSUME Session, [SessionNext]_sessionVars, NEW r \in Replicas, NEW k \in Keys,
         store[r][k] # NoEntry
  PROVE  \/ store'[r][k] \in Entry /\ Reached(store'[r][k], store[r][k])
         \/ knows'[r] = {} /\ told'[r] = [x \in Keys |-> NoEntry]
<1>1. Typed /\ [Next]_vars /\ Typed'
  BY SessionStep, TypedNext DEF Session, History
<1>2. store[r][k] \in Entry /\ store'[r][k] \in Entry \cup {NoEntry}
  BY <1>1 DEF Typed, Types
<1>3. \/ store'[r][k] = store[r][k]
      \/ up[r] /\ ~up'[r]
      \/ store'[r][k] # NoEntry /\ Beats(store'[r][k], store[r][k])
  BY <1>1, StepsForward
<1>4. CASE up[r] /\ ~up'[r]
  <2>1. CrashOf(r)
    BY <1>1, <1>4, DownIsCrashOf DEF Typed
  <2> QED
    BY <2>1 DEF CrashOf, Crash, Session, SessionTypes, History, Typed, Types
<1> QED
  BY <1>2, <1>3, <1>4 DEF Reached

-----------------------------------------------------------------------------
(***************************************************************************)
(* Every step keeps the invariant.                                         *)
(***************************************************************************)

LEMMA SessionTypesNext ==
  ASSUME Session, [SessionNext]_sessionVars
  PROVE  SessionTypes'
<1> USE DEF SessionTypes
<1>1. /\ addr \in Replicas /\ issued \subseteq Mine
      /\ socket \in [Replicas -> SUBSET issued]
      /\ told \in [Replicas -> [Keys -> Entry \cup {NoEntry}]]
      /\ Types
  BY DEF Session, History, Typed
<1>2. ASSUME NEW p \in Mine, PutCommand(p)
      PROVE  SessionTypes'
  BY <1>1, <1>2 DEF PutCommand
<1>3. ASSUME NEW k \in Keys, GetCommand(k)
      PROVE  SessionTypes'
  BY <1>1, <1>3 DEF GetCommand
<1>4. ASSUME NEW r \in Replicas, Switch(r)
      PROVE  SessionTypes'
  BY <1>1, <1>4 DEF Switch
<1>5. ASSUME NEW p \in Mine, PutReturns(p)
      PROVE  SessionTypes'
  <2>1. entry[p] \in Entry \cup {NoEntry}
    BY <1>1, SessionAssumption DEF Types
  <2> QED
    BY <1>1, <1>5, <2>1 DEF PutReturns
<1>6. ASSUME NEW k \in Keys, GetReturns(k)
      PROVE  SessionTypes'
  <2>1. HandleGet(addr, k) \in Entry \cup {NoEntry}
    BY <1>1 DEF Types, HandleGet
  <2> QED
    BY <1>1, <1>6, <2>1 DEF GetReturns
<1>7. CASE GiveUp
  BY <1>1, <1>7 DEF GiveUp
<1>8. ASSUME NEW r \in Replicas, NEW p \in Mine, TakePut(r, p)
      PROVE  SessionTypes'
  BY <1>1, <1>8 DEF TakePut
<1>9. ASSUME NEW r \in Replicas, CrashOf(r)
      PROVE  SessionTypes'
  BY <1>1, <1>9 DEF CrashOf
<1>10. CASE UNCHANGED session
  BY <1>1, <1>10 DEF session
<1> QED
  BY <1>2, <1>3, <1>4, <1>5, <1>6, <1>7, <1>8, <1>9, <1>10
  DEF SessionNext, Command, CommandReturns, sessionVars

\* A request of the session is written where it was taken from the socket.
LEMMA NewWriteTaken ==
  ASSUME Session, [SessionNext]_sessionVars, NEW p \in Mine, p \notin Written, p \in Written'
  PROVE  \E r \in Replicas : TakePut(r, p) /\ HandlePutStored(r, p)
<1>1. PICK r \in Replicas : HandlePutStored(r, p)
  BY SessionStep, EntriesStay DEF Session
<1>2. ASSUME NEW s \in Replicas, NEW x \in Requests, HandlePut(s, x)
      PROVE  x = p /\ s = r
  <2>1. HandlePutStored(s, x)
    <3>1. ASSUME HandlePutInvalid(s, x)
          PROVE  FALSE
      BY <3>1 DEF HandlePutInvalid, Written
    <3> QED
      BY <1>2, <3>1 DEF HandlePut, HandlePutStored
  <2>2. x = p
    BY <2>1, PutFacts DEF Session, History, Written
  <2>3. entry'[p].updatedBy = r /\ entry'[x].updatedBy = s
    BY <1>1, <2>1, PutFacts, SessionAssumption DEF Session, History
  <2> QED
    BY <2>2, <2>3
<1>3. ASSUME entry' = entry
      PROVE  FALSE
  BY <1>3 DEF Written
<1>4. CASE Command \/ CommandReturns \/ UNCHANGED sessionVars
  BY <1>3, <1>4 DEF Command, CommandReturns, PutCommand, GetCommand, Switch, PutReturns,
                    GetReturns, GiveUp, vars, sessionVars
<1>5. ASSUME NEW s \in Replicas, NEW x \in Mine, TakePut(s, x)
      PROVE  TakePut(r, p)
  <2>1. x = p /\ s = r
    BY <1>2, <1>5, SessionAssumption DEF TakePut
  <2> QED
    BY <1>5, <2>1
<1>6. ASSUME NEW s \in Replicas, CrashOf(s)
      PROVE  FALSE
  BY <1>3, <1>6 DEF CrashOf, Crash
<1>7. ASSUME Others
      PROVE  FALSE
  <2>1. \A s \in Replicas, x \in Requests \ Mine : ~HandlePut(s, x)
    BY <1>2
  <2>2. \A x \in Requests : ~SendQuorumReturns(x)
    BY <1>3 DEF SendQuorumReturns, QuorumReached, QuorumFailed
  <2>3. \A x \in Requests, q \in Replicas : ~(Sender(x, q) \/ HandleReplicate(x, q))
    BY <1>3 DEF Sender, Post, SendRefused, Ack, ReplyLost, Timeout, HandleReplicate
  <2>4. \A s \in Replicas : ~Restart(s)
    BY <1>3 DEF Restart
  <2> QED
    BY <1>7, <2>1, <2>2, <2>3, <2>4 DEF Others
<1> QED
  BY <1>1, <1>4, <1>5, <1>6, <1>7 DEF SessionNext

LEMMA NotYetIssuedNext ==
  ASSUME Session, [SessionNext]_sessionVars
  PROVE  NotYetIssued'
<1> SUFFICES ASSUME NEW p \in Mine, p \notin issued', p \in Written'
             PROVE  FALSE
  BY DEF NotYetIssued
<1>1. issued \subseteq issued'
  BY DEF SessionNext, Command, CommandReturns, PutCommand, GetCommand, Switch, PutReturns,
         GetReturns, GiveUp, TakePut, CrashOf, session, sessionVars
<1>2. p \notin Written
  BY <1>1 DEF Session, NotYetIssued
<1>3. PICK r \in Replicas : TakePut(r, p)
  BY <1>2, NewWriteTaken
<1>4. p \in issued
  BY <1>3 DEF TakePut, Session, SessionTypes
<1> QED
  BY <1>1, <1>4

\* What a command in progress leaves of the session while it goes on.
LEMMA CommandGoesOn ==
  ASSUME Session, [SessionNext]_sessionVars, NEW p \in Mine, command' = PutOf(p)
  PROVE  \/ command = Prompt /\ PutCommand(p)
         \/ /\ command = PutOf(p)
            /\ addr' = addr /\ issued' = issued
            /\ \A r \in Replicas : socket'[r] \subseteq socket[r]
            /\ \A r \in Replicas : told'[r] = told[r] \/ told'[r] = [k \in Keys |-> NoEntry]
<1>1. ASSUME NEW x \in Mine, PutCommand(x)
      PROVE  command = Prompt /\ PutCommand(p)
  BY <1>1, CommandsDiffer DEF PutCommand
<1>2. ASSUME \/ \E k \in Keys : GetCommand(k)
             \/ \E r \in Replicas : Switch(r)
             \/ CommandReturns
      PROVE  FALSE
  BY <1>2, CommandsDiffer DEF GetCommand, Switch, CommandReturns, PutReturns, GetReturns, GiveUp
<1>3. ASSUME NEW r \in Replicas, NEW x \in Mine, TakePut(r, x)
      PROVE  /\ command = PutOf(p)
             /\ addr' = addr /\ issued' = issued /\ told' = told
             /\ \A s \in Replicas : socket'[s] \subseteq socket[s]
  BY <1>3 DEF TakePut, Session, SessionTypes
<1>4. ASSUME NEW r \in Replicas, CrashOf(r)
      PROVE  /\ command = PutOf(p)
             /\ addr' = addr /\ issued' = issued
             /\ \A s \in Replicas : socket'[s] \subseteq socket[s]
             /\ \A s \in Replicas : told'[s] = told[s] \/ told'[s] = [k \in Keys |-> NoEntry]
  BY <1>4 DEF CrashOf, Session, SessionTypes
<1>5. CASE UNCHANGED session
  BY <1>5 DEF session
<1> QED
  BY <1>1, <1>2, <1>3, <1>4, <1>5 DEF SessionNext, Command, sessionVars

LEMMA PutAtAddrNext ==
  ASSUME Session, [SessionNext]_sessionVars
  PROVE  PutAtAddr'
<1> SUFFICES ASSUME NEW p \in Mine, command' = PutOf(p)
             PROVE  /\ p \in issued'
                    /\ \A r \in Replicas : p \in socket'[r] => r = addr'
                    /\ p \in Written' => entry'[p].updatedBy = addr'
  BY DEF PutAtAddr, Coordinator
<1>1. CASE command = Prompt /\ PutCommand(p)
  <2>1. p \notin issued /\ p \notin Written /\ \A r \in Replicas : p \notin socket[r]
    BY <1>1 DEF PutCommand, Session, SessionTypes, NotYetIssued
  <2>2. p \notin Written'
    BY <1>1, <2>1 DEF PutCommand, vars, Written
  <2> QED
    BY <1>1, <2>1, <2>2 DEF PutCommand, Session, SessionTypes
<1>2. CASE /\ command = PutOf(p)
           /\ addr' = addr /\ issued' = issued
           /\ \A r \in Replicas : socket'[r] \subseteq socket[r]
  <2>1. /\ p \in issued
        /\ \A r \in Replicas : p \in socket[r] => r = addr
        /\ p \in Written => entry[p].updatedBy = addr
    BY <1>2 DEF Session, PutAtAddr, Coordinator
  <2>2. CASE p \in Written
    <3>1. entry'[p] = entry[p]
      BY <2>2, EntriesStay, SessionStep DEF Session
    <3> QED
      BY <1>2, <2>1, <2>2, <3>1
  <2>3. CASE p \notin Written
    <3>1. ASSUME p \in Written'
          PROVE  entry'[p].updatedBy = addr
      <4>1. PICK r \in Replicas : TakePut(r, p) /\ HandlePutStored(r, p)
        BY <2>3, <3>1, NewWriteTaken
      <4>2. r = addr
        BY <2>1, <4>1 DEF TakePut
      <4>3. entry'[p].updatedBy = r
        BY <4>1, PutFacts, SessionAssumption DEF Session, History
      <4> QED
        BY <4>2, <4>3
    <3> QED
      BY <1>2, <2>1, <3>1
  <2> QED
    BY <2>2, <2>3
<1> QED
  BY <1>1, <1>2, CommandGoesOn

LEMMA HomeWritesNext ==
  ASSUME Session, [SessionNext]_sessionVars
  PROVE  HomeWrites'
<1> SUFFICES ASSUME NEW p \in Written', p \in knows'[entry'[p].updatedBy]
             PROVE  Reached(store'[entry'[p].updatedBy][KeyOf[p]], entry'[p])
  BY DEF HomeWrites, Coordinator, Reached, Beats
<1>1. History /\ [Next]_vars
  BY SessionStep DEF Session
<1>2. CASE p \in Written
  <2> DEFINE c == Coordinator(p)
             k == KeyOf[p]
  <2>1. c \in Replicas /\ k \in Keys /\ entry[p] \in Entry
    BY <1>1, <1>2, WrittenEntry DEF History, Typed, EntryOfRequest
  <2>2. entry'[p] = entry[p] /\ entry'[p].updatedBy = c
    BY <1>1, <1>2, EntriesStay DEF Coordinator
  <2>3. p \in knows'[c] /\ p \in knows[c]
    BY <1>1, <1>2, <2>2, HomeKnows
  <2>4. Reached(store[c][k], entry[p])
    BY <1>2, <2>3 DEF Session, HomeWrites
  <2> HIDE DEF c, k
  <2>5. store[c][k] # NoEntry /\ store[c][k] \in Entry
    BY <1>1, <2>1, <2>4 DEF Reached, History, Typed, Types
  <2>6. store'[c][k] \in Entry /\ Reached(store'[c][k], store[c][k])
    BY <2>1, <2>3, <2>5, StoresReach
  <2>7. Reached(store'[c][k], entry[p])
    BY <2>1, <2>4, <2>5, <2>6, BeatsChains
  <2> QED
    BY <2>2, <2>7 DEF k
<1>3. CASE p \notin Written
  <2>1. PICK r \in Replicas : HandlePutStored(r, p)
    BY <1>1, <1>3, EntriesStay
  <2>2. p \in Requests
    BY DEF Written
  <2>3. store'[r][KeyOf[p]] = entry'[p] /\ entry'[p].updatedBy = r
    BY <1>1, <2>1, <2>2, PutFacts DEF History
  <2>4. entry'[p] # NoEntry
    BY DEF Written
  <2> QED
    BY <2>3, <2>4 DEF Reached
<1> QED
  BY <1>2, <1>3

\* What changes in a table of answers.
LEMMA ToldChanges ==
  ASSUME Session, [SessionNext]_sessionVars, NEW r \in Replicas, NEW k \in Keys,
         told'[r][k] # told[r][k]
  PROVE  \/ told'[r][k] = NoEntry /\ up[r] /\ ~up'[r]
         \/ \E p \in Mine : /\ command = PutOf(p) /\ k = KeyOf[p] /\ r = addr
                            /\ p \in knows[r] /\ told'[r][k] = entry[p]
                            /\ UNCHANGED vars
         \/ told'[r][k] = store[r][k] /\ UNCHANGED vars
<1>1. /\ addr \in Replicas /\ up \in [Replicas -> BOOLEAN]
      /\ told \in [Replicas -> [Keys -> Entry \cup {NoEntry}]]
  BY DEF Session, SessionTypes, History, Typed, Types
<1>2. ASSUME NEW p \in Mine, PutReturns(p)
      PROVE  /\ command = PutOf(p) /\ k = KeyOf[p] /\ r = addr
             /\ p \in knows[r] /\ told'[r][k] = entry[p]
             /\ UNCHANGED vars
  <2>1. CASE phase[p] \in {"ok", "failed"} /\ p \in knows[addr]
    <3>1. told' = [told EXCEPT ![addr][KeyOf[p]] = entry[p]]
      BY <1>2, <2>1 DEF PutReturns
    <3>2. r = addr /\ k = KeyOf[p] /\ told'[r][k] = entry[p]
      BY <1>1, <3>1
    <3> QED
      BY <1>2, <2>1, <3>2 DEF PutReturns
  <2>2. CASE ~(phase[p] \in {"ok", "failed"} /\ p \in knows[addr])
    BY <1>2, <2>2 DEF PutReturns
  <2> QED
    BY <2>1, <2>2
<1>3. ASSUME NEW x \in Keys, GetReturns(x)
      PROVE  told'[r][k] = store[r][k] /\ UNCHANGED vars
  <2>1. told' = [told EXCEPT ![addr][x] = store[addr][x]]
    BY <1>3 DEF GetReturns, HandleGet
  <2>2. r = addr /\ k = x /\ told'[r][k] = store[r][k]
    BY <1>1, <2>1
  <2> QED
    BY <1>3, <2>2 DEF GetReturns
<1>4. ASSUME NEW s \in Replicas, CrashOf(s)
      PROVE  told'[r][k] = NoEntry /\ up[r] /\ ~up'[r]
  <2>1. /\ up' = [up EXCEPT ![s] = FALSE] /\ up[s]
        /\ told' = [told EXCEPT ![s] = [x \in Keys |-> NoEntry]]
    BY <1>4 DEF CrashOf, Crash
  <2>2. r = s
    BY <1>1, <2>1
  <2> QED
    BY <1>1, <2>1, <2>2
<1>5. ASSUME \/ \E p \in Mine : PutCommand(p)
             \/ \E x \in Keys : GetCommand(x)
             \/ \E s \in Replicas : Switch(s)
             \/ GiveUp
             \/ \E s \in Replicas, p \in Mine : TakePut(s, p)
             \/ UNCHANGED session
      PROVE  FALSE
  BY <1>5 DEF PutCommand, GetCommand, Switch, GiveUp, TakePut, session
<1> QED
  BY <1>2, <1>3, <1>4, <1>5 DEF SessionNext, Command, CommandReturns, sessionVars

\* A write of the session that its process still knows is not ahead of the store.
LEMMA AnswerReached ==
  ASSUME Session, NEW p \in Mine, command = PutOf(p), p \in knows[addr]
  PROVE  /\ p \in Written /\ KeyOf[p] \in Keys
         /\ Reached(store[addr][KeyOf[p]], entry[p])
<1>1. p \in Written /\ addr \in Replicas
  BY DEF Session, SessionTypes, History, Typed, OnlyWritten
<1>2. Coordinator(p) = addr
  BY <1>1 DEF Session, PutAtAddr
<1> QED
  BY <1>1, <1>2 DEF Session, HomeWrites, History, Typed, EntryOfRequest

LEMMA ToldBehindNext ==
  ASSUME Session, [SessionNext]_sessionVars
  PROVE  ToldBehind'
<1> SUFFICES ASSUME NEW r \in Replicas, NEW k \in Keys, told'[r][k] # NoEntry
             PROVE  Reached(store'[r][k], told'[r][k])
  BY DEF ToldBehind, Reached, Beats
<1>1. CASE told'[r][k] = told[r][k]
  <2>1. told[r][k] \in Entry /\ Reached(store[r][k], told[r][k])
    BY <1>1 DEF Session, SessionTypes, ToldBehind
  <2>2. store[r][k] # NoEntry /\ store[r][k] \in Entry
    BY <2>1 DEF Reached, Session, History, Typed, Types
  <2>3. store'[r][k] \in Entry /\ Reached(store'[r][k], store[r][k])
    BY <2>2, StoresReach
  <2> QED
    BY <1>1, <2>1, <2>2, <2>3, BeatsChains
<1>2. CASE told'[r][k] # told[r][k]
  <2>1. CASE told'[r][k] = store[r][k] /\ UNCHANGED vars
    BY <2>1 DEF vars, Reached
  <2>2. ASSUME NEW p \in Mine, command = PutOf(p), k = KeyOf[p], r = addr,
               p \in knows[r], told'[r][k] = entry[p], UNCHANGED vars
        PROVE  Reached(store'[r][k], told'[r][k])
    BY <2>2, AnswerReached DEF vars
  <2> QED
    BY <1>2, <2>1, <2>2, ToldChanges
<1> QED
  BY <1>1, <1>2

LEMMA PutAheadNext ==
  ASSUME Session, [SessionNext]_sessionVars
  PROVE  PutAhead'
<1> SUFFICES ASSUME NEW p \in Mine, command' = PutOf(p), p \in Written', p \in knows'[addr'],
                    told'[addr'][KeyOf[p]] # NoEntry
             PROVE  Beats(entry'[p], told'[addr'][KeyOf[p]])
  BY DEF PutAhead, Beats
<1>1. History /\ [Next]_vars /\ addr \in Replicas
  BY SessionStep DEF Session, SessionTypes
<1>2. ~(command = Prompt /\ PutCommand(p))
  <2>1. ASSUME PutCommand(p)
        PROVE  p \notin Written'
    BY <2>1 DEF PutCommand, Session, NotYetIssued, vars, Written
  <2> QED
    BY <2>1
<1>3. /\ command = PutOf(p) /\ addr' = addr
      /\ told'[addr] = told[addr] \/ told'[addr] = [k \in Keys |-> NoEntry]
  BY <1>1, <1>2, CommandGoesOn
<1>4. KeyOf[p] \in Keys /\ Typed'
  <2>1. Typed'
    BY <1>1, TypedNext DEF History
  <2>2. KeyOf[p] \in Keys
    BY <2>1 DEF Typed, EntryOfRequest
  <2> QED
    BY <2>1, <2>2
<1>5. told'[addr][KeyOf[p]] = told[addr][KeyOf[p]] /\ told[addr][KeyOf[p]] # NoEntry
  BY <1>3, <1>4
<1>6. CASE p \in Written
  <2>1. entry'[p] = entry[p] /\ Coordinator(p) = addr
    BY <1>1, <1>3, <1>6, EntriesStay DEF Session, PutAtAddr
  <2>2. p \in knows[addr]
    BY <1>1, <1>3, <1>6, <2>1, HomeKnows
  <2> QED
    BY <1>3, <1>5, <1>6, <2>1, <2>2 DEF Session, PutAhead
<1>7. CASE p \notin Written
  <2>1. PICK r \in Replicas : TakePut(r, p) /\ HandlePutStored(r, p)
    BY <1>7, NewWriteTaken
  <2>2. r = addr
    BY <1>3, <2>1 DEF TakePut, Session, PutAtAddr
  <2> DEFINE old == store[addr][KeyOf[p]]
             t == told[addr][KeyOf[p]]
  <2>3. t \in Entry /\ Reached(old, t)
    BY <1>1, <1>4, <1>5 DEF Session, SessionTypes, ToldBehind
  <2>4. old \in Entry /\ old # NoEntry
    BY <1>1, <1>4, <2>3 DEF Reached, History, Typed, Types
  <2>5. entry'[p] = Put(old, KeyOf[p], ValueOf[p], addr) /\ ValueOf[p] \in Values
    BY <1>1, <2>1, <2>2, PutFacts, SessionAssumption, RequestsAssumption DEF History
  <2> HIDE DEF old, t
  <2>6. entry'[p] \in Entry /\ Beats(entry'[p], old)
    BY <1>1, <1>4, <2>4, <2>5, PutNewer DEF Beats
  <2>7. Beats(entry'[p], t)
    <3>1. Reached(entry'[p], old)
      BY <2>6, NoEntryAssumption DEF Reached, Entry
    <3>2. CASE old = t
      BY <2>6, <3>2
    <3>3. CASE Beats(old, t)
      BY <2>3, <2>4, <2>6, <3>1, <3>3, BeatsChains
    <3> QED
      BY <2>3, <3>2, <3>3 DEF Reached
  <2> QED
    BY <1>3, <1>5, <2>7 DEF t
<1> QED
  BY <1>6, <1>7

LEMMA SessionInvariant == SessionSpec => []Session
<1>1. Session /\ [SessionNext]_sessionVars => Session'
  <2> SUFFICES ASSUME Session, [SessionNext]_sessionVars
               PROVE  Session'
    OBVIOUS
  <2>1. History'
    BY SessionStep, HistoryNext DEF Session
  <2> QED
    BY <2>1, SessionTypesNext, NotYetIssuedNext, PutAtAddrNext, HomeWritesNext, ToldBehindNext,
       PutAheadNext DEF Session
<1> QED
  BY <1>1, SessionStart, PTL DEF SessionSpec

-----------------------------------------------------------------------------
(***************************************************************************)
(* What the session sees.                                                  *)
(***************************************************************************)

\* What one process answers to a session about a key only gets newer, whatever the
\* session and the other clients do and whatever fails, and whatever values they write.
THEOREM SessionSeesNewer == SessionSpec => SessionMovesForward
<1>1. ASSUME Session, [SessionNext]_sessionVars, NEW r \in Replicas, NEW k \in Keys,
             told'[r][k] # told[r][k]
      PROVE  \/ told[r][k] = NoEntry
             \/ up[r] /\ ~up'[r]
             \/ told'[r][k] # NoEntry /\ Beats(told'[r][k], told[r][k])
  <2>1. CASE told'[r][k] = store[r][k]
    BY <1>1, <2>1 DEF Session, ToldBehind, Reached
  <2>2. ASSUME NEW p \in Mine, command = PutOf(p), k = KeyOf[p], r = addr,
               p \in knows[r], told'[r][k] = entry[p]
        PROVE  \/ told[r][k] = NoEntry
               \/ told'[r][k] # NoEntry /\ Beats(told'[r][k], told[r][k])
    <3>1. p \in Written
      BY <1>1, <2>2, AnswerReached
    <3> QED
      BY <1>1, <2>2, <3>1 DEF Session, PutAhead, Written
  <2> QED
    BY <1>1, <2>1, <2>2, ToldChanges
<1>2. Session /\ [SessionNext]_sessionVars =>
        [\A r \in Replicas, k \in Keys :
           told'[r][k] # told[r][k] =>
             \/ told[r][k] = NoEntry
             \/ up[r] /\ ~up'[r]
             \/ told'[r][k] # NoEntry /\ Beats(told'[r][k], told[r][k])]_sessionVars
  BY <1>1
<1> QED
  BY <1>2, SessionInvariant, PTL DEF SessionSpec, SessionMovesForward

\* Under a session, with POSTs that are taken late and commands given up, the store
\* keeps what it promises: its types, that no replica goes back to an older entry,
\* that versions record causality, and that majorities hold acknowledged writes.
THEOREM SessionKeepsTheStore ==
  SessionSpec => []TypeOK /\ NeverStepsBack /\ WriteDominates /\ []QuorumCoverage
<1>1. SessionInit => Init
  BY DEF SessionInit
<1>2. SessionSpec => Spec
  BY <1>1, SessionStep, PTL DEF SessionSpec, Spec
<1> QED
  BY <1>2, TypeCorrect, StoreNeverStepsBack, VersionsRecordCausality, AckedWritesCovered

=============================================================================
