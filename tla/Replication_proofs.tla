------------------------- MODULE Replication_proofs -------------------------
(***************************************************************************)
(* Proofs about module Replication for every set of replicas, requests,    *)
(* keys and values, every choice of modes and every choice of faults.      *)
(***************************************************************************)
EXTENDS Replication, FiniteSetTheorems, TLAPS

-----------------------------------------------------------------------------
(***************************************************************************)
(* Lemmas about the store.                                                 *)
(***************************************************************************)

\* Put builds an entry of the right type that is newer than the one it finds.
LEMMA PutNewer ==
  ASSUME NEW old \in Entry \cup {NoEntry}, NEW k \in Keys, NEW v \in Values, NEW r \in Replicas
  PROVE  /\ Put(old, k, v, r) \in Entry
         /\ Put(old, k, v, r).key = k
         /\ Put(old, k, v, r).value = v
         /\ Put(old, k, v, r).updatedBy = r
         /\ Put(old, k, v, r) # NoEntry
         /\ old # NoEntry => Put(old, k, v, r).version > old.version
<1>1. NextVersion(old) \in Nat \ {0} /\ (old # NoEntry => NextVersion(old) > old.version)
  BY DEF NextVersion, Entry
<1>2. Put(old, k, v, r) \in Entry
  BY <1>1 DEF Put, Entry
<1> QED
  BY <1>1, <1>2, NoEntryAssumption DEF Put, Entry

\* ApplyReplication keeps one of the two entries, and never the older version.
LEMMA ApplyKeepsNewer ==
  ASSUME NEW old \in Entry \cup {NoEntry}, NEW new \in Entry
  PROVE  /\ ApplyReplication(old, new) \in {old, new}
         /\ ApplyReplication(old, new) \in Entry
         /\ AtLeast(ApplyReplication(old, new), new)
         /\ old # NoEntry => AtLeast(ApplyReplication(old, new), old)
         /\ old # NoEntry /\ ApplyReplication(old, new) # old
              => Beats(ApplyReplication(old, new), old)
<1>1. new # NoEntry
  BY NoEntryAssumption DEF Entry
<1>2. CASE old = NoEntry
  BY <1>1, <1>2 DEF ApplyReplication, AtLeast, Entry
<1>3. CASE old # NoEntry
  BY <1>1, <1>3, ReplicasAssumption DEF ApplyReplication, AtLeast, Entry, Supersedes, Beats
<1> QED
  BY <1>2, <1>3

-----------------------------------------------------------------------------
(***************************************************************************)
(* Type correctness.                                                       *)
(***************************************************************************)

\* A request that was put has a key, and its entry is what Put built for it.
EntryOfRequest ==
  \A p \in Written : /\ KeyOf[p] \in Keys
                     /\ entry[p].key = KeyOf[p]
                     /\ entry[p].value = ValueOf[p]

\* The requests written are those put by a handler; only they are sent or known.
OnlyWritten ==
  /\ \A p \in Requests : p \in Written <=> phase[p] \notin {"new", "bad"}
  /\ \A p \in Requests, q \in Replicas : send[p][q] # "none" => p \in Written
  /\ \A r \in Replicas : knows[r] \subseteq Written

Typed == Types /\ EntryOfRequest /\ OnlyWritten

LEMMA WrittenEntry ==
  ASSUME Types, NEW p \in Written
  PROVE  p \in Requests /\ entry[p] \in Entry /\ entry[p] # NoEntry /\ Coordinator(p) \in Replicas
BY DEF Types, Written, Coordinator, Entry

LEMMA TypedInit == Init => Typed
<1> SUFFICES ASSUME Init PROVE Typed
  OBVIOUS
<1>1. Written = {}
  BY DEF Init, Written
<1>2. Types
  BY DEF Init, Types, Phases, SendStates
<1>3. EntryOfRequest
  BY <1>1 DEF EntryOfRequest
<1>4. OnlyWritten
  BY <1>1 DEF Init, OnlyWritten
<1> QED
  BY <1>2, <1>3, <1>4 DEF Typed

\* Crash of a process leaves sends of known type and starts none.
LEMMA SendAfterCrashType ==
  ASSUME Types, NEW r \in Replicas, NEW p \in Requests, NEW q \in Replicas
  PROVE  /\ SendAfterCrash(r, p, q) \in SendStates
         /\ send[p][q] = "none" => SendAfterCrash(r, p, q) = "none"
         /\ SendAfterCrash(r, p, q) \in {"replied", "ok"}
              => send[p][q] = SendAfterCrash(r, p, q)
         /\ send[p][q] = "ok" => SendAfterCrash(r, p, q) = "ok"
<1>1. send[p][q] \in SendStates
  BY DEF Types
<1> QED
  BY <1>1 DEF SendAfterCrash, SendStates

\* A local write, whichever the mode.
HandlePutStored(r, p) == HandlePutEventual(r, p) \/ HandlePutStrong(r, p)

LEMMA PutFacts ==
  ASSUME Typed, NEW r \in Replicas, NEW p \in Requests, HandlePutStored(r, p)
  PROVE  /\ Typed'
         /\ p \notin Written
         /\ Written' = Written \cup {p}
         /\ entry'[p] = Put(store[r][KeyOf[p]], KeyOf[p], ValueOf[p], r)
         /\ entry'[p].updatedBy = r
         /\ \A x \in Requests \ {p} : entry'[x] = entry[x]
         /\ store'[r][KeyOf[p]] = entry'[p]
         /\ \A s \in Replicas, k \in Keys :
              <<s, k>> # <<r, KeyOf[p]>> => store'[s][k] = store[s][k]
         /\ \A s \in Replicas : knows'[s] = IF s = r THEN knows[s] \cup {p} ELSE knows[s]
         /\ \A q \in Replicas : send'[p][q] \in {"none", "pending"}
         /\ send'[p][r] = "none"
         /\ \A x \in Requests \ {p} : send'[x] = send[x] /\ phase'[x] = phase[x]
         /\ ModeOf[r] = "strong" => phase'[p] = "waiting"
<1> DEFINE e == Put(store[r][KeyOf[p]], KeyOf[p], ValueOf[p], r)
<1>1. KeyOf[p] \in Keys /\ ValueOf[p] \in Values /\ store[r][KeyOf[p]] \in Entry \cup {NoEntry}
  BY RequestsAssumption
     DEF HandlePutStored, HandlePutEventual, HandlePutStrong, PutLocally, Typed, Types
<1>2. /\ e \in Entry /\ e # NoEntry
      /\ e.key = KeyOf[p] /\ e.value = ValueOf[p] /\ e.updatedBy = r
  BY <1>1, PutNewer
<1> HIDE DEF e
<1>3. /\ store' = [store EXCEPT ![r][KeyOf[p]] = e]
      /\ entry' = [entry EXCEPT ![p] = e]
      /\ send' = [send EXCEPT ![p] = [q \in Replicas |-> IF q \in Peers(r) THEN "pending" ELSE "none"]]
      /\ knows' = [knows EXCEPT ![r] = @ \cup {p}]
      /\ UNCHANGED up
      /\ phase[p] = "new"
      /\ \E a \in {"ok", "waiting"} : phase' = [phase EXCEPT ![p] = a]
  BY DEF HandlePutStored, HandlePutEventual, HandlePutStrong, PutLocally, Spawn, e
<1>4. Types'
  BY <1>1, <1>2, <1>3 DEF Typed, Types, SendStates, Phases
<1>5. /\ entry'[p] = e
      /\ \A x \in Requests \ {p} : entry'[x] = entry[x]
      /\ store'[r][KeyOf[p]] = e
      /\ \A s \in Replicas, k \in Keys :
           <<s, k>> # <<r, KeyOf[p]>> => store'[s][k] = store[s][k]
      /\ \A s \in Replicas : knows'[s] = IF s = r THEN knows[s] \cup {p} ELSE knows[s]
  BY <1>1, <1>3 DEF Typed, Types
<1>6. Written' = Written \cup {p}
  BY <1>2, <1>5 DEF Written
<1>7. EntryOfRequest'
  BY <1>1, <1>2, <1>5, <1>6 DEF Typed, EntryOfRequest, Written
<1>8. OnlyWritten'
  <2>1. \A x \in Requests : x \in Written' <=> phase'[x] \notin {"new", "bad"}
    BY <1>3, <1>6 DEF Typed, OnlyWritten, Types
  <2>2. \A x \in Requests, q \in Replicas : send'[x][q] # "none" => x \in Written'
    BY <1>3, <1>6 DEF Typed, OnlyWritten, Types
  <2>3. \A s \in Replicas : knows'[s] \subseteq Written'
    BY <1>5, <1>6 DEF Typed, OnlyWritten
  <2> QED
    BY <2>1, <2>2, <2>3 DEF OnlyWritten
<1>9. p \notin Written
  BY <1>3 DEF Typed, OnlyWritten
<1>10. /\ \A q \in Replicas : send'[p][q] \in {"none", "pending"}
       /\ send'[p][r] = "none"
       /\ \A x \in Requests \ {p} : send'[x] = send[x] /\ phase'[x] = phase[x]
  BY <1>3 DEF Typed, Types, Peers
<1>11. ModeOf[r] = "strong" => phase'[p] = "waiting"
  BY DEF HandlePutStored, HandlePutEventual, HandlePutStrong, Typed, Types
<1> QED
  BY <1>2, <1>4, <1>5, <1>6, <1>7, <1>8, <1>9, <1>10, <1>11 DEF Typed, e


LEMMA HandleReplicateFacts ==
  ASSUME Typed, NEW p \in Requests, NEW q \in Replicas, HandleReplicate(p, q)
  PROVE  /\ Typed'
         /\ p \in Written
         /\ KeyOf[p] \in Keys
         /\ UNCHANGED <<up, phase, entry>>
         /\ store'[q][KeyOf[p]] = ApplyReplication(store[q][KeyOf[p]], entry[p])
         /\ \A s \in Replicas, k \in Keys :
              <<s, k>> # <<q, KeyOf[p]>> => store'[s][k] = store[s][k]
         /\ \A s \in Replicas : knows'[s] = IF s = q THEN knows[s] \cup {p} ELSE knows[s]
         /\ send'[p][q] \in {"replied", "err"}
         /\ \A x \in Requests, s \in Replicas :
              <<x, s>> # <<p, q>> => send'[x][s] = send[x][s]
<1>1. p \in Written /\ KeyOf[p] \in Keys /\ entry[p] \in Entry
  BY WrittenEntry DEF HandleReplicate, Typed, OnlyWritten, EntryOfRequest
<1>2. /\ store[q][KeyOf[p]] \in Entry \cup {NoEntry}
      /\ ApplyReplication(store[q][KeyOf[p]], entry[p]) \in Entry
  <2>1. store[q][KeyOf[p]] \in Entry \cup {NoEntry}
    BY <1>1 DEF Typed, Types
  <2> QED
    BY <1>1, <2>1, ApplyKeepsNewer
<1> DEFINE e == ApplyReplication(store[q][KeyOf[p]], entry[p])
<1> HIDE DEF e
<1>3. /\ store' = [store EXCEPT ![q][KeyOf[p]] = e]
      /\ knows' = [knows EXCEPT ![q] = @ \cup {p}]
      /\ send'  = [send EXCEPT ![p][q] = IF @ = "inflight" THEN "replied" ELSE "err"]
      /\ UNCHANGED <<up, phase, entry>>
  BY DEF HandleReplicate, e
<1>4. e \in Entry
  BY <1>2 DEF e
<1>5. Types'
  <2>1. store' \in [Replicas -> [Keys -> Entry \cup {NoEntry}]]
    BY <1>1, <1>3, <1>4 DEF Typed, Types
  <2>2. send' \in [Requests -> [Replicas -> SendStates]]
    BY <1>3 DEF Typed, Types, SendStates
  <2>3. knows' \in [Replicas -> SUBSET Requests]
    BY <1>3 DEF Typed, Types
  <2> QED
    BY <1>3, <2>1, <2>2, <2>3 DEF Typed, Types
<1>6. Written' = Written
  BY <1>3 DEF Written
<1>7. EntryOfRequest'
  BY <1>3, <1>6 DEF Typed, EntryOfRequest
<1>8. /\ store'[q][KeyOf[p]] = e
      /\ \A s \in Replicas, k \in Keys :
           <<s, k>> # <<q, KeyOf[p]>> => store'[s][k] = store[s][k]
      /\ \A s \in Replicas : knows'[s] = IF s = q THEN knows[s] \cup {p} ELSE knows[s]
      /\ send'[p][q] \in {"replied", "err"}
      /\ \A x \in Requests, s \in Replicas :
           <<x, s>> # <<p, q>> => send'[x][s] = send[x][s]
  BY <1>1, <1>3 DEF Typed, Types
<1>9. OnlyWritten'
  BY <1>1, <1>3, <1>6, <1>8 DEF Typed, OnlyWritten
<1> QED
  BY <1>1, <1>3, <1>5, <1>7, <1>8, <1>9 DEF Typed, e

LEMMA SenderFacts ==
  ASSUME Typed, NEW p \in Requests, NEW q \in Replicas, Sender(p, q)
  PROVE  /\ Typed'
         /\ UNCHANGED <<up, store, phase, entry, knows>>
         /\ send[p][q] # "none"
         /\ send'[p][q] \in {"inflight", "orphan", "err", "ok"}
         /\ send'[p][q] = "ok" => send[p][q] = "replied"
         /\ send[p][q] # "ok"
         /\ \A x \in Requests, s \in Replicas :
              <<x, s>> # <<p, q>> => send'[x][s] = send[x][s]
<1>1. /\ UNCHANGED <<up, store, phase, entry, knows>>
      /\ send[p][q] \in {"pending", "inflight", "replied"}
      /\ \E a \in {"inflight", "orphan", "err", "ok"} :
           /\ send' = [send EXCEPT ![p][q] = a]
           /\ a = "ok" => send[p][q] = "replied"
  BY DEF Sender, Post, SendRefused, Ack, ReplyLost, Timeout
<1>2. PICK a \in {"inflight", "orphan", "err", "ok"} :
        send' = [send EXCEPT ![p][q] = a] /\ (a = "ok" => send[p][q] = "replied")
  BY <1>1
<1>3. Types'
  BY <1>1, <1>2 DEF Typed, Types, SendStates
<1>4. /\ send'[p][q] = a
      /\ \A x \in Requests, s \in Replicas :
           <<x, s>> # <<p, q>> => send'[x][s] = send[x][s]
  BY <1>2 DEF Typed, Types
<1>5. Written' = Written
  BY <1>1 DEF Written
<1>6. EntryOfRequest' /\ OnlyWritten'
  BY <1>1, <1>4, <1>5 DEF Typed, EntryOfRequest, OnlyWritten
<1> QED
  BY <1>1, <1>2, <1>3, <1>4, <1>6 DEF Typed

LEMMA CrashFacts ==
  ASSUME Typed, NEW r \in Replicas, Crash(r)
  PROVE  /\ Typed'
         /\ r \in MayCrash
         /\ up[r] /\ ~up'[r]
         /\ UNCHANGED entry
         /\ \A k \in Keys : store'[r][k] = NoEntry
         /\ knows'[r] = {}
         /\ \A s \in Replicas \ {r} : store'[s] = store[s] /\ knows'[s] = knows[s]
         /\ \A p \in Requests : phase'[p] \in {phase[p], "dropped"}
         /\ \A p \in Requests, q \in Replicas : send'[p][q] = SendAfterCrash(r, p, q)
<1>1. /\ send' = [p \in Requests |-> [q \in Replicas |-> SendAfterCrash(r, p, q)]]
      /\ store' = [store EXCEPT ![r] = [k \in Keys |-> NoEntry]]
      /\ knows' = [knows EXCEPT ![r] = {}]
      /\ up' = [up EXCEPT ![r] = FALSE]
      /\ UNCHANGED entry
      /\ up[r] /\ r \in MayCrash
  BY DEF Crash
<1>2. \A p \in Requests, q \in Replicas : send'[p][q] = SendAfterCrash(r, p, q)
  BY <1>1
<1>3. /\ phase' = [p \in Requests |->
                     IF phase[p] = "waiting" /\ Coordinator(p) = r THEN "dropped" ELSE phase[p]]
      /\ \A p \in Requests : phase'[p] = phase[p] \/ (phase[p] = "waiting" /\ phase'[p] = "dropped")
  BY DEF Crash
<1>4. Types'
  <2>1. send' \in [Requests -> [Replicas -> SendStates]]
    BY <1>1, SendAfterCrashType DEF Typed
  <2>2. phase' \in [Requests -> Phases]
    BY <1>3 DEF Typed, Types, Phases
  <2> QED
    BY <1>1, <2>1, <2>2 DEF Typed, Types
<1>5. Written' = Written
  BY <1>1 DEF Written
<1>6. EntryOfRequest'
  BY <1>1, <1>5 DEF Typed, EntryOfRequest
<1>7. OnlyWritten'
  <2>1. \A p \in Requests : p \in Written' <=> phase'[p] \notin {"new", "bad"}
    BY <1>3, <1>5 DEF Typed, OnlyWritten
  <2>2. \A p \in Requests, q \in Replicas : send'[p][q] # "none" => p \in Written'
    BY <1>2, <1>5, SendAfterCrashType DEF Typed, OnlyWritten
  <2>3. \A s \in Replicas : knows'[s] \subseteq Written'
    BY <1>1, <1>5 DEF Typed, OnlyWritten, Types
  <2> QED
    BY <2>1, <2>2, <2>3 DEF OnlyWritten
<1>8. /\ \A k \in Keys : store'[r][k] = NoEntry
      /\ knows'[r] = {}
      /\ ~up'[r]
      /\ \A s \in Replicas \ {r} : store'[s] = store[s] /\ knows'[s] = knows[s]
  BY <1>1 DEF Typed, Types
<1> QED
  BY <1>1, <1>2, <1>3, <1>4, <1>6, <1>7, <1>8 DEF Typed

\* The steps that touch neither stores, entries, sends nor histories.
Answer(p) ==
  \/ \E r \in Replicas : HandlePutInvalid(r, p)
  \/ QuorumReached(p)
  \/ QuorumFailed(p)

LEMMA AnswerFacts ==
  ASSUME Typed, NEW p \in Requests, Answer(p)
  PROVE  /\ Typed'
         /\ UNCHANGED <<up, store, entry, send, knows>>
         /\ \A x \in Requests \ {p} : phase'[x] = phase[x]
         /\ phase'[p] = "ok" => Cardinality(Acks(p)) >= Needed(Coordinator(p))
<1>1. /\ UNCHANGED <<up, store, entry, send, knows>>
      /\ \E a \in {"bad", "ok", "failed"} :
           /\ phase' = [phase EXCEPT ![p] = a]
           /\ a = "bad" <=> phase[p] = "new"
           /\ phase[p] # "bad"
           /\ a = "ok" => Cardinality(Acks(p)) >= Needed(Coordinator(p))
  BY DEF Answer, HandlePutInvalid, QuorumReached, QuorumFailed
<1>2. PICK a \in {"bad", "ok", "failed"} :
        /\ phase' = [phase EXCEPT ![p] = a]
        /\ a = "bad" <=> phase[p] = "new"
        /\ phase[p] # "bad"
        /\ a = "ok" => Cardinality(Acks(p)) >= Needed(Coordinator(p))
  BY <1>1
<1>3. /\ phase'[p] = a
      /\ \A x \in Requests \ {p} : phase'[x] = phase[x]
  BY <1>2 DEF Typed, Types
<1>4. Types'
  BY <1>1, <1>2 DEF Typed, Types, Phases
<1>5. Written' = Written
  BY <1>1 DEF Written
<1>6. EntryOfRequest' /\ OnlyWritten'
  BY <1>1, <1>2, <1>3, <1>5 DEF Typed, EntryOfRequest, OnlyWritten
<1> QED
  BY <1>1, <1>2, <1>3, <1>4, <1>6 DEF Typed

\* The steps of Next, grouped by what they change.
LEMMA NextCases ==
  ASSUME Next
  PROVE  \/ \E r \in Replicas, p \in Requests : HandlePutStored(r, p)
         \/ \E p \in Requests : Answer(p)
         \/ \E p \in Requests, q \in Replicas : Sender(p, q)
         \/ \E p \in Requests, q \in Replicas : HandleReplicate(p, q)
         \/ \E r \in Replicas : Crash(r)
         \/ \E r \in Replicas : Restart(r)
BY DEF Next, HandlePut, HandlePutStored, SendQuorumReturns, Answer

LEMMA RestartFacts ==
  ASSUME Typed, NEW r \in Replicas, Restart(r)
  PROVE  Typed' /\ ~up[r] /\ UNCHANGED <<store, phase, entry, send, knows>>
BY DEF Restart, Typed, Types, EntryOfRequest, OnlyWritten, Written

LEMMA TypedNext == Typed /\ [Next]_vars => Typed'
<1> SUFFICES ASSUME Typed, [Next]_vars PROVE Typed'
  OBVIOUS
<1>1. CASE UNCHANGED vars
  BY <1>1 DEF vars, Typed, Types, EntryOfRequest, OnlyWritten, Written
<1> QED
  BY <1>1, NextCases, PutFacts, AnswerFacts, SenderFacts, HandleReplicateFacts,
     CrashFacts, RestartFacts

\* A running replica that places an entry under its own key disturbs neither fact.
LEMMA PlacesOne ==
  ASSUME EntriesUnderTheirKey, DownIsEmpty, NEW r \in Replicas, NEW c \in Keys,
         up[r], up' = up,
         store'[r][c] # NoEntry => store'[r][c].key = c,
         \A s \in Replicas, k \in Keys : <<s, k>> # <<r, c>> => store'[s][k] = store[s][k],
         \A s \in Replicas \ {r} : knows'[s] = knows[s]
  PROVE  EntriesUnderTheirKey' /\ DownIsEmpty'
<1>1. EntriesUnderTheirKey'
  <2> SUFFICES ASSUME NEW s \in Replicas, NEW k \in Keys, store'[s][k] # NoEntry
               PROVE  store'[s][k].key = k
    BY DEF EntriesUnderTheirKey
  <2>1. CASE s = r /\ k = c
    BY <2>1
  <2>2. CASE ~(s = r /\ k = c)
    <3>1. store'[s][k] = store[s][k]
      BY <2>2
    <3> QED
      BY <3>1 DEF EntriesUnderTheirKey
  <2> QED
    BY <2>1, <2>2
<1>2. DownIsEmpty'
  <2> SUFFICES ASSUME NEW s \in Replicas, ~up'[s]
               PROVE  knows'[s] = {} /\ \A k \in Keys : store'[s][k] = NoEntry
    BY DEF DownIsEmpty
  <2>1. s # r /\ ~up[s]
    OBVIOUS
  <2>2. knows'[s] = knows[s] /\ \A k \in Keys : store'[s][k] = store[s][k]
    BY <2>1
  <2> QED
    BY <2>1, <2>2 DEF DownIsEmpty
<1> QED
  BY <1>1, <1>2

\* Only a replica that runs puts an entry in its store, and under the key of its request.
LEMMA PlacesNext ==
  Typed /\ EntriesUnderTheirKey /\ DownIsEmpty /\ [Next]_vars
    => EntriesUnderTheirKey' /\ DownIsEmpty'
<1> SUFFICES ASSUME Typed, EntriesUnderTheirKey, DownIsEmpty, [Next]_vars
             PROVE  EntriesUnderTheirKey' /\ DownIsEmpty'
  OBVIOUS
<1>1. ASSUME NEW r \in Replicas, NEW p \in Requests, HandlePutStored(r, p)
      PROVE  EntriesUnderTheirKey' /\ DownIsEmpty'
  <2>1. /\ up' = up
        /\ up[r]
        /\ KeyOf[p] \in Keys
        /\ knows' = [knows EXCEPT ![r] = @ \cup {p}]
    BY <1>1 DEF HandlePutStored, HandlePutEventual, HandlePutStrong, PutLocally
  <2>2. /\ store'[r][KeyOf[p]] = Put(store[r][KeyOf[p]], KeyOf[p], ValueOf[p], r)
        /\ \A s \in Replicas, k \in Keys : <<s, k>> # <<r, KeyOf[p]>> => store'[s][k] = store[s][k]
    BY <1>1, PutFacts
  <2>3. store'[r][KeyOf[p]].key = KeyOf[p]
    BY <2>2 DEF Put
  <2>4. \A s \in Replicas \ {r} : knows'[s] = knows[s]
    BY <2>1 DEF Typed, Types
  <2> QED
    BY <2>1, <2>2, <2>3, <2>4, PlacesOne
<1>2. ASSUME NEW p \in Requests, NEW q \in Replicas, HandleReplicate(p, q)
      PROVE  EntriesUnderTheirKey' /\ DownIsEmpty'
  <2>1. /\ up' = up
        /\ up[q]
        /\ knows' = [knows EXCEPT ![q] = @ \cup {p}]
    BY <1>2 DEF HandleReplicate
  <2>2. /\ p \in Written /\ KeyOf[p] \in Keys
        /\ store'[q][KeyOf[p]] = ApplyReplication(store[q][KeyOf[p]], entry[p])
        /\ \A s \in Replicas, k \in Keys : <<s, k>> # <<q, KeyOf[p]>> => store'[s][k] = store[s][k]
    BY <1>2, HandleReplicateFacts
  <2>3. entry[p].key = KeyOf[p]
    BY <2>2 DEF Typed, EntryOfRequest
  <2>4. store'[q][KeyOf[p]] \in {store[q][KeyOf[p]], entry[p]}
    BY <2>2 DEF ApplyReplication
  <2>5. store'[q][KeyOf[p]] # NoEntry => store'[q][KeyOf[p]].key = KeyOf[p]
    BY <2>2, <2>3, <2>4 DEF EntriesUnderTheirKey
  <2>6. \A s \in Replicas \ {q} : knows'[s] = knows[s]
    BY <2>1 DEF Typed, Types
  <2> QED
    BY <2>1, <2>2, <2>5, <2>6, PlacesOne
<1>3. ASSUME NEW r \in Replicas, Crash(r)
      PROVE  EntriesUnderTheirKey' /\ DownIsEmpty'
  <2>1. \A s \in Replicas \ {r} : up'[s] = up[s]
    BY <1>3 DEF Crash, Typed, Types
  <2> QED
    BY <1>3, <2>1, CrashFacts DEF EntriesUnderTheirKey, DownIsEmpty
<1>4. ASSUME NEW r \in Replicas, Restart(r)
      PROVE  EntriesUnderTheirKey' /\ DownIsEmpty'
  BY <1>4 DEF Restart, Typed, Types, EntriesUnderTheirKey, DownIsEmpty
<1>5. CASE \/ \E p \in Requests : Answer(p)
           \/ \E p \in Requests, q \in Replicas : Sender(p, q)
           \/ UNCHANGED vars
  BY <1>5, AnswerFacts, SenderFacts DEF vars, EntriesUnderTheirKey, DownIsEmpty
<1> QED
  BY <1>1, <1>2, <1>3, <1>4, <1>5, NextCases

\* In every reachable state, whatever the faults, the variables have their types, the
\* stores hold entries under their own key, and a stopped replica holds nothing.
THEOREM TypeCorrect == Spec => []TypeOK
<1>1. Init => EntriesUnderTheirKey /\ DownIsEmpty
  BY DEF Init, EntriesUnderTheirKey, DownIsEmpty
<1>2. Typed /\ EntriesUnderTheirKey /\ DownIsEmpty => TypeOK
  BY DEF Typed, TypeOK
<1> QED
  BY <1>1, <1>2, TypedInit, TypedNext, PlacesNext, PTL DEF Spec


-----------------------------------------------------------------------------
(***************************************************************************)
(* A replica never goes back to an older entry.                            *)
(***************************************************************************)

LEMMA StepsForward ==
  ASSUME Typed, [Next]_vars, NEW r \in Replicas, NEW k \in Keys
  PROVE  \/ store[r][k] = NoEntry
         \/ store'[r][k] = store[r][k]
         \/ up[r] /\ ~up'[r]
         \/ store'[r][k] # NoEntry /\ Beats(store'[r][k], store[r][k])
<1>1. store[r][k] \in Entry \cup {NoEntry}
  BY DEF Typed, Types
<1>2. ASSUME NEW s \in Replicas, NEW p \in Requests, HandlePutStored(s, p),
             store[r][k] # NoEntry, store'[r][k] # store[r][k]
      PROVE  store'[r][k] # NoEntry /\ Beats(store'[r][k], store[r][k])
  <2>1. s = r /\ k = KeyOf[p]
    BY <1>2, PutFacts
  <2>2. store'[r][k] = Put(store[r][k], k, ValueOf[p], r) /\ ValueOf[p] \in Values
    BY <1>2, <2>1, PutFacts, RequestsAssumption
  <2> QED
    BY <1>1, <1>2, <2>2, PutNewer DEF Beats
<1>3. ASSUME NEW p \in Requests, NEW q \in Replicas, HandleReplicate(p, q),
             store[r][k] # NoEntry, store'[r][k] # store[r][k]
      PROVE  store'[r][k] # NoEntry /\ Beats(store'[r][k], store[r][k])
  <2>1. q = r /\ k = KeyOf[p] /\ entry[p] \in Entry
    BY <1>3, HandleReplicateFacts, WrittenEntry DEF Typed
  <2>2. store'[r][k] = ApplyReplication(store[r][k], entry[p])
    BY <1>3, <2>1, HandleReplicateFacts
  <2> QED
    BY <1>1, <1>3, <2>1, <2>2, ApplyKeepsNewer DEF AtLeast
<1>4. ASSUME NEW s \in Replicas, Crash(s)
      PROVE  store'[r][k] = store[r][k] \/ (up[r] /\ ~up'[r])
  BY <1>4, CrashFacts
<1>5. CASE UNCHANGED vars
  BY <1>5 DEF vars
<1>6. CASE Next
  <2>1. CASE \E s \in Replicas, p \in Requests : HandlePutStored(s, p)
    BY <1>2, <2>1
  <2>2. CASE \E p \in Requests : Answer(p)
    BY <2>2, AnswerFacts
  <2>3. CASE \E p \in Requests, q \in Replicas : Sender(p, q)
    BY <2>3, SenderFacts
  <2>4. CASE \E p \in Requests, q \in Replicas : HandleReplicate(p, q)
    BY <1>3, <2>4
  <2>5. CASE \E s \in Replicas : Crash(s)
    BY <1>4, <2>5
  <2>6. CASE \E s \in Replicas : Restart(s)
    BY <2>6, RestartFacts
  <2> QED
    BY <1>6, <2>1, <2>2, <2>3, <2>4, <2>5, <2>6, NextCases
<1> QED
  BY <1>5, <1>6

\* As long as its process runs, a replica replaces an entry only with one that
\* beats it, whatever the values written and whatever fails elsewhere.
THEOREM StoreNeverStepsBack == Spec => NeverStepsBack
<1>1. Spec => []Typed
  BY TypedInit, TypedNext, PTL DEF Spec
<1>2. Typed /\ [Next]_vars =>
        [\A r \in Replicas, k \in Keys :
           \/ store[r][k] = NoEntry
           \/ store'[r][k] = store[r][k]
           \/ up[r] /\ ~up'[r]
           \/ store'[r][k] # NoEntry /\ Beats(store'[r][k], store[r][k])]_vars
  BY StepsForward
<1> QED
  BY <1>1, <1>2, PTL DEF Spec, NeverStepsBack

-----------------------------------------------------------------------------
(***************************************************************************)
(* The history a replica knows and what its store holds.                   *)
(***************************************************************************)

\* The store is at least as new as every write the process has met.
StoreNewest ==
  \A r \in Replicas : \A p \in knows[r] : AtLeast(store[r][KeyOf[p]], entry[p])

\* What the store holds is the entry of a write the process has met.
StoreFromKnown ==
  \A r \in Replicas, k \in Keys :
    store[r][k] # NoEntry => \E p \in KnownOn(r, k) : store[r][k] = entry[p]

\* A write is known where it was made and where its delivery was answered,
\* unless that process may have lost it in a crash.
KnownWhereMet ==
  /\ \A p \in Written : Coordinator(p) \in MayCrash \/ p \in knows[Coordinator(p)]
  /\ \A p \in Requests, q \in Replicas :
       send[p][q] \in {"replied", "ok"} => q \in MayCrash \/ p \in knows[q]

\* Acknowledgements come from peers, and a strong write answered 200 has enough.
AckedByPeers ==
  /\ \A p \in Written : send[p][Coordinator(p)] = "none"
  /\ \A p \in Requests : AckedStrong(p) => Cardinality(Acks(p)) >= Needed(Coordinator(p))

History == Typed /\ StoreNewest /\ StoreFromKnown /\ KnownWhereMet /\ AckedByPeers


LEMMA HistoryInit == Init => History
<1> SUFFICES ASSUME Init PROVE History
  OBVIOUS
<1>1. Typed /\ Written = {} /\ \A r \in Replicas : knows[r] = {}
  BY TypedInit DEF Init, Written
<1>2. \A p \in Requests : phase[p] = "new" /\ \A q \in Replicas : send[p][q] = "none"
  BY DEF Init
<1>3. \A r \in Replicas, k \in Keys : store[r][k] = NoEntry
  BY DEF Init
<1> QED
  BY <1>1, <1>2, <1>3
     DEF History, StoreNewest, StoreFromKnown, KnownWhereMet, AckedByPeers, AckedStrong

\* The entry a local write makes is newer than all the writes its replica knows.
LEMMA PutDominates ==
  ASSUME History, NEW r \in Replicas, NEW p \in Requests, HandlePutStored(r, p)
  PROVE  \A q \in KnownOn(r, KeyOf[p]) : entry'[p].version > entry[q].version
<1> TAKE q \in KnownOn(r, KeyOf[p])
<1>1. /\ q \in knows[r] /\ KeyOf[q] = KeyOf[p] /\ q \in Written
      /\ entry[q] \in Entry
  BY WrittenEntry DEF History, Typed, OnlyWritten, KnownOn
<1>2. AtLeast(store[r][KeyOf[p]], entry[q])
  BY <1>1 DEF History, StoreNewest
<1>3. KeyOf[p] \in Keys /\ ValueOf[p] \in Values /\ store[r][KeyOf[p]] \in Entry \cup {NoEntry}
  BY RequestsAssumption
     DEF HandlePutStored, HandlePutEventual, HandlePutStrong, PutLocally, History, Typed, Types
<1>4. entry'[p] = Put(store[r][KeyOf[p]], KeyOf[p], ValueOf[p], r)
  BY PutFacts DEF History
<1>5. /\ entry'[p].version > store[r][KeyOf[p]].version
      /\ entry'[p] \in Entry
      /\ store[r][KeyOf[p]] \in Entry
  BY <1>2, <1>3, <1>4, PutNewer DEF AtLeast
<1> QED
  BY <1>1, <1>2, <1>5 DEF AtLeast, Entry

LEMMA HistoryPut ==
  ASSUME History, NEW r \in Replicas, NEW p \in Requests, HandlePutStored(r, p)
  PROVE  History'
<1>1. Typed
  BY DEF History
<1>2. /\ Typed'
      /\ p \notin Written /\ Written' = Written \cup {p}
      /\ entry'[p].updatedBy = r
      /\ \A x \in Requests \ {p} : entry'[x] = entry[x]
      /\ store'[r][KeyOf[p]] = entry'[p]
      /\ \A s \in Replicas, k \in Keys :
           <<s, k>> # <<r, KeyOf[p]>> => store'[s][k] = store[s][k]
      /\ \A s \in Replicas : knows'[s] = IF s = r THEN knows[s] \cup {p} ELSE knows[s]
      /\ \A q \in Replicas : send'[p][q] \in {"none", "pending"}
      /\ send'[p][r] = "none"
      /\ \A x \in Requests \ {p} : send'[x] = send[x] /\ phase'[x] = phase[x]
      /\ ModeOf[r] = "strong" => phase'[p] = "waiting"
  BY <1>1, PutFacts
<1>3. entry'[p] \in Entry /\ entry'[p] # NoEntry
  BY <1>2 DEF Typed, Types, Written
<1>4. \A s \in Replicas : knows[s] \subseteq Written
  BY <1>1 DEF Typed, OnlyWritten
<1>5. \A x \in Written : x \in Requests /\ x # p /\ entry'[x] = entry[x] /\ KeyOf[x] \in Keys
  BY <1>1, <1>2 DEF Typed, EntryOfRequest, Written
<1>6. StoreNewest'
  <2> SUFFICES ASSUME NEW s \in Replicas, NEW x \in knows'[s]
               PROVE  AtLeast(store'[s][KeyOf[x]], entry'[x])
    BY DEF StoreNewest, AtLeast
  <2>1. CASE x = p
    <3>1. s = r
      BY <1>2, <1>4, <2>1
    <3> QED
      BY <1>2, <1>3, <2>1, <3>1 DEF AtLeast, Entry
  <2>2. CASE x # p
    <3>1. x \in knows[s] /\ x \in Written
      <4>1. knows'[s] \subseteq knows[s] \cup {p}
        BY <1>2
      <4> QED
        BY <1>4, <2>2, <4>1
    <3>2. AtLeast(store[s][KeyOf[x]], entry[x])
      BY <3>1 DEF History, StoreNewest
    <3>3. CASE s = r /\ KeyOf[x] = KeyOf[p]
      <4>1. x \in KnownOn(r, KeyOf[p])
        BY <3>1, <3>3 DEF KnownOn
      <4>2. entry'[p].version > entry[x].version
        BY <4>1, PutDominates
      <4>3. entry[x].version \in Nat /\ entry'[p].version \in Nat
        BY <1>1, <1>3, <3>1, WrittenEntry DEF Typed, Entry
      <4> QED
        BY <1>2, <1>3, <1>5, <3>1, <3>3, <4>2, <4>3 DEF AtLeast
    <3>4. CASE ~(s = r /\ KeyOf[x] = KeyOf[p])
      BY <1>2, <1>5, <3>1, <3>2, <3>4
    <3> QED
      BY <3>3, <3>4
  <2> QED
    BY <2>1, <2>2
<1>7. StoreFromKnown'
  <2> SUFFICES ASSUME NEW s \in Replicas, NEW k \in Keys, store'[s][k] # NoEntry
               PROVE  \E x \in knows'[s] : KeyOf[x] = k /\ store'[s][k] = entry'[x]
    BY DEF StoreFromKnown, KnownOn
  <2>1. CASE s = r /\ k = KeyOf[p]
    BY <1>2, <2>1
  <2>2. CASE ~(s = r /\ k = KeyOf[p])
    <3>1. store'[s][k] = store[s][k]
      BY <1>2, <2>2
    <3>2. PICK x \in knows[s] : KeyOf[x] = k /\ store[s][k] = entry[x]
      BY <3>1 DEF History, StoreFromKnown, KnownOn
    <3> QED
      BY <1>2, <1>4, <1>5, <3>1, <3>2
  <2> QED
    BY <2>1, <2>2
<1>8. KnownWhereMet'
  <2>1. \A x \in Written' :
          entry'[x].updatedBy \in MayCrash \/ x \in knows'[entry'[x].updatedBy]
    <3> TAKE x \in Written'
    <3>1. CASE x = p
      <4>1. entry'[x].updatedBy = r /\ x \in knows'[r]
        BY <1>2, <3>1
      <4> QED
        BY <4>1
    <3>2. CASE x # p
      <4>1. x \in Written /\ entry'[x].updatedBy = Coordinator(x) /\ Coordinator(x) \in Replicas
        BY <1>1, <1>2, <1>5, <3>2, WrittenEntry DEF Coordinator, Typed
      <4>2. Coordinator(x) \in MayCrash \/ x \in knows[Coordinator(x)]
        BY <4>1 DEF History, KnownWhereMet
      <4>3. \A s \in Replicas : knows[s] \subseteq knows'[s]
        BY <1>2
      <4> QED
        BY <4>1, <4>2, <4>3
    <3> QED
      BY <3>1, <3>2
  <2>2. \A x \in Requests, q \in Replicas :
          send'[x][q] \in {"replied", "ok"} => q \in MayCrash \/ x \in knows'[q]
    BY <1>2 DEF History, KnownWhereMet
  <2> QED
    BY <2>1, <2>2 DEF KnownWhereMet, Coordinator
<1>9. AckedByPeers'
  <2>1. \A x \in Written' : send'[x][Coordinator(x)'] = "none"
    <3> TAKE x \in Written'
    <3>1. CASE x = p
      BY <1>2, <3>1 DEF Coordinator
    <3>2. CASE x # p
      BY <1>1, <1>2, <1>5, <3>2 DEF Coordinator, History, AckedByPeers
    <3> QED
      BY <3>1, <3>2
  <2>2. ASSUME NEW x \in Requests, AckedStrong(x)'
        PROVE  Cardinality(Acks(x)') >= Needed(Coordinator(x)')
    <3>1. x # p
      BY <1>2, <2>2 DEF AckedStrong, Coordinator
    <3>2. x \in Written /\ AckedStrong(x)
      BY <1>2, <1>5, <2>2, <3>1 DEF AckedStrong, Coordinator
    <3>3. Acks(x)' = Acks(x) /\ Coordinator(x)' = Coordinator(x)
      BY <1>2, <1>5, <3>1, <3>2 DEF Acks, Coordinator
    <3> QED
      BY <3>2, <3>3 DEF History, AckedByPeers
  <2> QED
    BY <2>1, <2>2 DEF AckedByPeers, Needed, Peers
<1> QED
  BY <1>2, <1>6, <1>7, <1>8, <1>9 DEF History


LEMMA HistoryReplicate ==
  ASSUME History, NEW p \in Requests, NEW q \in Replicas, HandleReplicate(p, q)
  PROVE  History'
<1>1. Typed
  BY DEF History
<1>2. /\ Typed'
      /\ p \in Written
      /\ KeyOf[p] \in Keys
      /\ UNCHANGED <<up, phase, entry>>
      /\ store'[q][KeyOf[p]] = ApplyReplication(store[q][KeyOf[p]], entry[p])
      /\ \A s \in Replicas, k \in Keys :
           <<s, k>> # <<q, KeyOf[p]>> => store'[s][k] = store[s][k]
      /\ \A s \in Replicas : knows'[s] = IF s = q THEN knows[s] \cup {p} ELSE knows[s]
      /\ send'[p][q] \in {"replied", "err"}
      /\ \A x \in Requests, s \in Replicas :
           <<x, s>> # <<p, q>> => send'[x][s] = send[x][s]
  BY <1>1, HandleReplicateFacts
<1>3. entry[p] \in Entry /\ store[q][KeyOf[p]] \in Entry \cup {NoEntry}
  BY <1>1, <1>2, WrittenEntry DEF Typed, Types
<1>4. Written' = Written
  BY <1>2 DEF Written
<1>5. \A x \in Written : x \in Requests /\ entry[x] \in Entry /\ KeyOf[x] \in Keys
  BY <1>1, WrittenEntry DEF Typed, EntryOfRequest
<1>6. \A s \in Replicas : knows[s] \subseteq knows'[s] /\ knows'[s] \subseteq Written
  BY <1>2, <1>4 DEF Typed, OnlyWritten
<1>7. StoreNewest'
  <2> SUFFICES ASSUME NEW s \in Replicas, NEW x \in knows'[s]
               PROVE  AtLeast(store'[s][KeyOf[x]], entry[x])
    BY <1>2 DEF StoreNewest, AtLeast
  <2>1. x \in Written
    BY <1>6
  <2>2. CASE s = q /\ KeyOf[x] = KeyOf[p]
    <3>1. CASE x = p
      BY <1>2, <1>3, <2>2, <3>1, ApplyKeepsNewer
    <3>2. CASE x # p
      <4>1. x \in knows[q]
        BY <1>2, <2>2, <3>2
      <4>2. AtLeast(store[q][KeyOf[p]], entry[x])
        BY <2>2, <4>1 DEF History, StoreNewest
      <4>3. /\ store[q][KeyOf[p]] \in Entry
            /\ store'[q][KeyOf[p]] \in Entry
            /\ AtLeast(store'[q][KeyOf[p]], store[q][KeyOf[p]])
        BY <1>2, <1>3, <4>2, ApplyKeepsNewer DEF AtLeast
      <4> QED
        BY <1>5, <2>1, <2>2, <4>2, <4>3 DEF AtLeast, Entry
    <3> QED
      BY <3>1, <3>2
  <2>3. CASE ~(s = q /\ KeyOf[x] = KeyOf[p])
    <3>1. x \in knows[s]
      BY <1>2, <2>3
    <3>2. store'[s][KeyOf[x]] = store[s][KeyOf[x]]
      BY <1>2, <1>5, <2>1, <2>3
    <3> QED
      BY <3>1, <3>2 DEF History, StoreNewest
  <2> QED
    BY <2>2, <2>3
<1>8. StoreFromKnown'
  <2> SUFFICES ASSUME NEW s \in Replicas, NEW k \in Keys, store'[s][k] # NoEntry
               PROVE  \E x \in knows'[s] : KeyOf[x] = k /\ store'[s][k] = entry[x]
    BY <1>2 DEF StoreFromKnown, KnownOn
  <2>1. CASE s = q /\ k = KeyOf[p] /\ store'[s][k] = entry[p]
    BY <1>2, <2>1
  <2>2. CASE ~(s = q /\ k = KeyOf[p] /\ store'[s][k] = entry[p])
    <3>1. store'[s][k] = store[s][k]
      BY <1>2, <1>3, <2>2, ApplyKeepsNewer
    <3>2. PICK x \in knows[s] : KeyOf[x] = k /\ store[s][k] = entry[x]
      BY <3>1 DEF History, StoreFromKnown, KnownOn
    <3> QED
      BY <1>6, <3>1, <3>2
  <2> QED
    BY <2>1, <2>2
<1>9. KnownWhereMet'
  <2>1. \A x \in Written : Coordinator(x) \in MayCrash \/ x \in knows'[Coordinator(x)]
    BY <1>1, <1>6, WrittenEntry DEF History, KnownWhereMet, Typed
  <2>2. ASSUME NEW x \in Requests, NEW s \in Replicas, send'[x][s] \in {"replied", "ok"}
        PROVE  s \in MayCrash \/ x \in knows'[s]
    <3>1. CASE x = p /\ s = q
      BY <1>2, <3>1
    <3>2. CASE ~(x = p /\ s = q)
      BY <1>2, <1>6, <2>2, <3>2 DEF History, KnownWhereMet
    <3> QED
      BY <3>1, <3>2
  <2> QED
    BY <1>2, <1>4, <2>1, <2>2 DEF KnownWhereMet, Coordinator
<1>10. AckedByPeers'
  <2>1. send[p][q] \notin {"none", "ok"}
    BY DEF HandleReplicate
  <2>2. \A x \in Written : send'[x][Coordinator(x)] = "none"
    BY <1>1, <1>2, <1>5, <2>1, WrittenEntry DEF History, AckedByPeers, Typed
  <2>3. \A x \in Requests : Acks(x)' = Acks(x)
    <3> TAKE x \in Requests
    <3>1. \A s \in Replicas : send'[x][s] = "ok" <=> send[x][s] = "ok"
      BY <1>2, <2>1
    <3> QED
      BY <3>1 DEF Acks
  <2>4. \A x \in Requests : AckedStrong(x)' => AckedStrong(x)
    BY <1>2, <1>4 DEF AckedStrong, Coordinator
  <2> QED
    BY <1>2, <1>4, <2>2, <2>3, <2>4 DEF History, AckedByPeers, Coordinator
<1> QED
  BY <1>2, <1>7, <1>8, <1>9, <1>10 DEF History

\* A step that writes nothing, at most empties replicas that may crash and takes
\* back neither an acknowledgement nor a delivery keeps the histories right.
LEMMA HistoryQuiet ==
  ASSUME History, Typed', UNCHANGED entry,
         \A s \in Replicas :
           \/ store'[s] = store[s] /\ knows'[s] = knows[s]
           \/ s \in MayCrash /\ knows'[s] = {} /\ \A k \in Keys : store'[s][k] = NoEntry,
         \A x \in Requests, s \in Replicas :
           /\ send'[x][s] \in {"replied", "ok"} => send[x][s] \in {"replied", "ok"}
           /\ send[x][s] = "none" => send'[x][s] = "none"
           /\ send[x][s] = "ok" => send'[x][s] = "ok",
         \A x \in Requests : AckedStrong(x)' /\ ~AckedStrong(x) =>
           Cardinality(Acks(x)) >= Needed(Coordinator(x))
  PROVE  History'
<1>1. StoreNewest' /\ StoreFromKnown'
  BY DEF History, StoreNewest, StoreFromKnown, KnownOn
<1>2. Written' = Written
  BY DEF Written
<1>3. KnownWhereMet'
  <2>1. \A s \in Replicas : s \in MayCrash \/ knows'[s] = knows[s]
    OBVIOUS
  <2>2. \A p \in Written : Coordinator(p) \in MayCrash \/ p \in knows'[Coordinator(p)]
    BY <2>1, WrittenEntry DEF History, KnownWhereMet, Typed
  <2>3. \A p \in Requests, q \in Replicas :
          send'[p][q] \in {"replied", "ok"} => q \in MayCrash \/ p \in knows'[q]
    BY <2>1 DEF History, KnownWhereMet
  <2> QED
    BY <1>2, <2>2, <2>3 DEF KnownWhereMet, Coordinator
<1>4. ASSUME NEW x \in Requests, AckedStrong(x)'
      PROVE  Cardinality(Acks(x)') >= Needed(Coordinator(x))
  <2>1. Cardinality(Acks(x)) >= Needed(Coordinator(x))
    BY <1>4 DEF History, AckedByPeers
  <2>2. Acks(x) \subseteq Acks(x)' /\ Acks(x)' \subseteq Replicas
    BY DEF Acks
  <2>3. /\ IsFiniteSet(Acks(x)) /\ IsFiniteSet(Acks(x)')
        /\ Cardinality(Acks(x)) <= Cardinality(Acks(x)')
    BY <2>2, ClusterAssumption, FS_Subset
  <2>4. Cardinality(Acks(x)) \in Nat /\ Cardinality(Acks(x)') \in Nat
    BY <2>3, FS_CardinalityType
  <2>5. Needed(Coordinator(x)) \in Int
    <3>1. IsFiniteSet(Peers(Coordinator(x)))
      BY ClusterAssumption, FS_Subset DEF Peers
    <3>2. Cardinality(Peers(Coordinator(x))) \in Nat
      BY <3>1, FS_CardinalityType
    <3> QED
      BY <3>2 DEF Needed
  <2> QED
    BY <2>1, <2>3, <2>4, <2>5
<1>5. \A x \in Written : send'[x][Coordinator(x)] = "none"
  BY WrittenEntry DEF History, Typed, AckedByPeers
<1>6. AckedByPeers'
  BY <1>2, <1>4, <1>5 DEF AckedByPeers, Coordinator, Needed, Peers
<1> QED
  BY <1>1, <1>3, <1>6 DEF History


LEMMA HistoryNext == History /\ [Next]_vars => History'
<1> SUFFICES ASSUME History, [Next]_vars PROVE History'
  OBVIOUS
<1> USE DEF History
<1>1. ASSUME NEW p \in Requests, Answer(p) PROVE History'
  <2>1. /\ Typed' /\ UNCHANGED <<up, store, entry, send, knows>>
        /\ \A x \in Requests \ {p} : phase'[x] = phase[x]
        /\ phase'[p] = "ok" => Cardinality(Acks(p)) >= Needed(Coordinator(p))
    BY <1>1, AnswerFacts
  <2>2. \A x \in Requests : AckedStrong(x)' /\ ~AckedStrong(x) =>
          Cardinality(Acks(x)) >= Needed(Coordinator(x))
    BY <2>1 DEF AckedStrong, Written, Coordinator
  <2> QED
    BY <2>1, <2>2, HistoryQuiet
<1>2. ASSUME NEW p \in Requests, NEW q \in Replicas, Sender(p, q) PROVE History'
  <2>1. /\ Typed' /\ UNCHANGED <<up, store, phase, entry, knows>>
        /\ \A x \in Requests, s \in Replicas :
             /\ send'[x][s] \in {"replied", "ok"} => send[x][s] \in {"replied", "ok"}
             /\ send[x][s] = "none" => send'[x][s] = "none"
             /\ send[x][s] = "ok" => send'[x][s] = "ok"
    BY <1>2, SenderFacts
  <2>2. \A x \in Requests : AckedStrong(x)' => AckedStrong(x)
    BY <2>1 DEF AckedStrong, Written, Coordinator
  <2> QED
    BY <2>1, <2>2, HistoryQuiet
<1>3. ASSUME NEW r \in Replicas, Crash(r) PROVE History'
  <2>1. /\ Typed' /\ UNCHANGED entry
        /\ \A s \in Replicas :
             \/ store'[s] = store[s] /\ knows'[s] = knows[s]
             \/ s \in MayCrash /\ knows'[s] = {} /\ \A k \in Keys : store'[s][k] = NoEntry
        /\ \A x \in Requests : phase'[x] \in {phase[x], "dropped"}
        /\ \A x \in Requests, s \in Replicas : send'[x][s] = SendAfterCrash(r, x, s)
    BY <1>3, CrashFacts
  <2>2. \A x \in Requests, s \in Replicas :
          /\ send'[x][s] \in {"replied", "ok"} => send[x][s] \in {"replied", "ok"}
          /\ send[x][s] = "none" => send'[x][s] = "none"
          /\ send[x][s] = "ok" => send'[x][s] = "ok"
    BY <2>1, SendAfterCrashType DEF Typed
  <2>3. \A x \in Requests : AckedStrong(x)' => AckedStrong(x)
    BY <2>1 DEF AckedStrong, Written, Coordinator
  <2> QED
    BY <2>1, <2>2, <2>3, HistoryQuiet
<1>4. ASSUME NEW r \in Replicas, Restart(r) PROVE History'
  BY <1>4, RestartFacts, HistoryQuiet DEF AckedStrong, Written, Coordinator
<1>5. CASE UNCHANGED vars
  <2>1. Typed'
    BY TypedNext
  <2> QED
    BY <1>5, <2>1, HistoryQuiet DEF vars, AckedStrong, Written, Coordinator
<1> QED
  BY <1>1, <1>2, <1>3, <1>4, <1>5, HistoryPut, HistoryReplicate, NextCases

LEMMA HistoryInvariant == Spec => []History
BY HistoryInit, HistoryNext, PTL DEF Spec

-----------------------------------------------------------------------------
\* A new write beats every write of its key its replica had met, whatever fails.
THEOREM VersionsRecordCausality == Spec => WriteDominates
<1>1. ASSUME History, [Next]_vars, NEW p \in Requests, entry[p] = NoEntry, entry'[p] # NoEntry
      PROVE  \A q \in KnownOn(entry'[p].updatedBy, KeyOf[p]) : entry'[p].version > entry[q].version
  <2>1. PICK r \in Replicas, x \in Requests : HandlePutStored(r, x)
    BY <1>1, NextCases, AnswerFacts, SenderFacts, HandleReplicateFacts, CrashFacts, RestartFacts
       DEF History, vars
  <2>2. x = p /\ entry'[p].updatedBy = r
    BY <1>1, <2>1, PutFacts DEF History
  <2> QED
    BY <1>1, <2>1, <2>2, PutDominates
<1>2. History /\ [Next]_vars =>
        [\A p \in Requests :
           entry[p] = NoEntry /\ entry'[p] # NoEntry =>
             \A q \in KnownOn(entry'[p].updatedBy, KeyOf[p]) :
               entry'[p].version > entry[q].version]_vars
  BY <1>1
<1> QED
  BY <1>2, HistoryInvariant, PTL DEF Spec, WriteDominates

-----------------------------------------------------------------------------
\* The coordinator and the peers counted by SendQuorum are a majority.
LEMMA AcksAndCoordinator ==
  ASSUME NEW c \in Replicas, NEW A \in SUBSET (Replicas \ {c}), Cardinality(A) >= Needed(c)
  PROVE  /\ IsFiniteSet(A \cup {c})
         /\ 2 * Cardinality(A \cup {c}) > Cardinality(Replicas)
<1> DEFINE n == Cardinality(Peers(c))
<1>1. IsFiniteSet(Peers(c)) /\ IsFiniteSet(A)
  BY ClusterAssumption, FS_Subset DEF Peers
<1>2. n \in Nat /\ Cardinality(A) \in Nat
  BY <1>1, FS_CardinalityType
<1>3. Cardinality(Replicas) = n + 1
  <2>1. Replicas = Peers(c) \cup {c} /\ c \notin Peers(c)
    BY DEF Peers
  <2> QED
    BY <1>1, <2>1, FS_AddElement
<1>4. IsFiniteSet(A \cup {c}) /\ Cardinality(A \cup {c}) = Cardinality(A) + 1
  BY <1>1, FS_AddElement
<1>5. Cardinality(A) >= (n + 1) \div 2
  BY <1>2 DEF Needed
<1> HIDE DEF n
<1>6. 2 * (Cardinality(A) + 1) > n + 1
  BY <1>2, <1>5
<1> QED
  BY <1>3, <1>4, <1>6

LEMMA CoverageFromHistory == History => QuorumCoverage
<1> SUFFICES ASSUME History, NEW p \in Requests, AckedStrong(p),
                    NEW Q \in SUBSET Replicas, 2 * Cardinality(Q) > Cardinality(Replicas)
             PROVE  \E r \in Q : r \in MayCrash \/ AtLeast(store[r][KeyOf[p]], entry[p])
  BY DEF QuorumCoverage
<1> DEFINE c == Coordinator(p)
           S == Acks(p) \cup {c}
<1>1. p \in Written /\ c \in Replicas /\ Cardinality(Acks(p)) >= Needed(c)
  BY WrittenEntry DEF History, Typed, AckedByPeers, AckedStrong
<1>2. Acks(p) \in SUBSET (Replicas \ {c})
  BY <1>1 DEF Acks, History, AckedByPeers
<1>3. 2 * Cardinality(S) > Cardinality(Replicas) /\ S \subseteq Replicas
  BY <1>1, <1>2, AcksAndCoordinator
<1>4. PICK r \in Q : r \in S
  <2>1. IsFiniteSet(Q) /\ IsFiniteSet(S)
    BY <1>3, ClusterAssumption, FS_Subset
  <2>2. Cardinality(Q) \in Nat /\ Cardinality(S) \in Nat /\ Cardinality(Replicas) \in Nat
    BY <2>1, ClusterAssumption, FS_CardinalityType
  <2>3. Cardinality(Q) + Cardinality(S) > Cardinality(Replicas)
    BY <1>3, <2>2
  <2>4. Q \cap S # {}
    BY <1>3, <2>3, ClusterAssumption, FS_MajoritiesIntersect
  <2> QED
    BY <2>4
<1>5. r \in Replicas /\ (r \in MayCrash \/ p \in knows[r])
  BY <1>1, <1>3, <1>4 DEF History, KnownWhereMet, Acks
<1>6. p \in knows[r] => AtLeast(store[r][KeyOf[p]], entry[p])
  BY <1>5 DEF History, StoreNewest
<1> QED
  BY <1>4, <1>5, <1>6

\* Every majority of replicas holds a strong write that was answered 200, or a
\* newer one, unless a member of it may have lost its memory.
THEOREM AckedWritesCovered == Spec => []QuorumCoverage
BY HistoryInvariant, CoverageFromHistory, PTL

=============================================================================
