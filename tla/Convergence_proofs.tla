------------------------- MODULE Convergence_proofs -------------------------
(***************************************************************************)
(* Convergence of the replicas, proved for clusters whose processes do not *)
(* stop and whose requests write different values to a key.  Without these *)
(* two conditions it is false: runs RepeatedValues and RestartedWriter.    *)
(***************************************************************************)
EXTENDS Replication_proofs

\* No two requests write the same value to the same key.
DistinctValues ==
  \A p, q \in Requests : KeyOf[p] = KeyOf[q] /\ ValueOf[p] = ValueOf[q] => p = q

\* No process stops.
NoCrashes == MayCrash = {}

-----------------------------------------------------------------------------
\* Version and writer identify a write of a key.
StampsUnique ==
  \A p, q \in Written :
    p # q /\ KeyOf[p] = KeyOf[q] =>
      entry[p].version # entry[q].version \/ entry[p].updatedBy # entry[q].updatedBy

\* The store beats every other write its process has met.
StoreLast ==
  \A r \in Replicas : \A p \in knows[r] :
    store[r][KeyOf[p]] = entry[p] \/ Beats(store[r][KeyOf[p]], entry[p])

Converging == History /\ StampsUnique /\ StoreLast

\* Beats is a strict order.
LEMMA BeatsOrder ==
  ASSUME NEW e \in Entry, NEW f \in Entry, NEW g \in Entry
  PROVE  /\ ~(Beats(e, f) /\ Beats(f, e))
         /\ ~Beats(e, e)
         /\ Beats(e, f) /\ Beats(f, g) => Beats(e, g)
<1>1. \A x \in Entry : x.version \in Nat /\ x.updatedBy \in Nat
  BY ReplicasAssumption DEF Entry
<1>2. /\ e.version \in Nat /\ f.version \in Nat /\ g.version \in Nat
      /\ e.updatedBy \in Nat /\ f.updatedBy \in Nat /\ g.updatedBy \in Nat
  BY <1>1
<1> QED
  BY <1>2 DEF Beats

\* Known writes are written, with entries of the right type.
LEMMA KnownWritten ==
  ASSUME Typed, NEW r \in Replicas, NEW p \in knows[r]
  PROVE  /\ p \in Requests /\ p \in Written /\ KeyOf[p] \in Keys
         /\ entry[p] \in Entry /\ entry[p] # NoEntry
         /\ entry[p].value = ValueOf[p]
         /\ entry[p].updatedBy \in Replicas
<1>1. p \in Written
  BY DEF Typed, OnlyWritten
<1> QED
  BY <1>1, WrittenEntry DEF Typed, EntryOfRequest, Coordinator

\* The store holds the entry of a known write of the key.
LEMMA StoreIsKnown ==
  ASSUME History, NEW r \in Replicas, NEW k \in Keys, store[r][k] # NoEntry
  PROVE  \E p \in knows[r] : KeyOf[p] = k /\ store[r][k] = entry[p] /\ store[r][k] \in Entry
<1>1. PICK p \in knows[r] : KeyOf[p] = k /\ store[r][k] = entry[p]
  BY DEF History, StoreFromKnown, KnownOn
<1> QED
  BY <1>1, KnownWritten DEF History

\* What ApplyReplication keeps is the entry that arrives or one that beats it.
LEMMA ApplyKeepsLast ==
  ASSUME DistinctValues, Converging, NEW p \in Written, NEW q \in Replicas
  PROVE  LET e == ApplyReplication(store[q][KeyOf[p]], entry[p])
         IN  e = entry[p] \/ Beats(e, entry[p])
<1> DEFINE old == store[q][KeyOf[p]]
<1>1. /\ p \in Requests /\ KeyOf[p] \in Keys /\ entry[p] \in Entry
      /\ entry[p].value = ValueOf[p]
  BY WrittenEntry DEF Converging, History, Typed, EntryOfRequest
<1>2. CASE old = NoEntry \/ Supersedes(entry[p], old)
  BY <1>2 DEF ApplyReplication
<1>3. CASE old # NoEntry /\ ~Supersedes(entry[p], old)
  <2>1. PICK y \in knows[q] : KeyOf[y] = KeyOf[p] /\ old = entry[y] /\ old \in Entry
    BY <1>1, <1>3, StoreIsKnown DEF Converging
  <2>2. y \in Requests /\ y \in Written /\ entry[y].value = ValueOf[y]
    BY KnownWritten DEF Converging, History
  <2>3. CASE y = p
    BY <1>3, <2>1, <2>3 DEF ApplyReplication
  <2>4. CASE y # p
    <3>1. old.value # entry[p].value
      BY <1>1, <2>1, <2>2, <2>4 DEF DistinctValues
    <3>2. old.version # entry[p].version \/ old.updatedBy # entry[p].updatedBy
      BY <2>1, <2>2, <2>4 DEF Converging, StampsUnique
    <3>3. Beats(old, entry[p])
      BY <1>1, <1>3, <2>1, <3>1, <3>2, ReplicasAssumption DEF Supersedes, Beats, Entry
    <3> QED
      BY <1>3, <3>3 DEF ApplyReplication
  <2> QED
    BY <2>3, <2>4
<1> QED
  BY <1>2, <1>3

LEMMA ConvergingInit == Init => Converging
<1> SUFFICES ASSUME Init PROVE Converging
  OBVIOUS
<1>1. History /\ Written = {} /\ \A r \in Replicas : knows[r] = {}
  BY HistoryInit DEF Init, Written
<1> QED
  BY <1>1 DEF Converging, StampsUnique, StoreLast

LEMMA ConvergingPut ==
  ASSUME NoCrashes, Converging, NEW r \in Replicas, NEW p \in Requests, HandlePutStored(r, p)
  PROVE  StampsUnique' /\ StoreLast'
<1>1. /\ Typed /\ Typed'
      /\ p \notin Written /\ Written' = Written \cup {p}
      /\ entry'[p].updatedBy = r
      /\ \A x \in Requests \ {p} : entry'[x] = entry[x]
      /\ store'[r][KeyOf[p]] = entry'[p]
      /\ \A s \in Replicas, k \in Keys :
           <<s, k>> # <<r, KeyOf[p]>> => store'[s][k] = store[s][k]
      /\ \A s \in Replicas : knows'[s] = IF s = r THEN knows[s] \cup {p} ELSE knows[s]
  BY PutFacts DEF Converging, History
<1>2. entry'[p] \in Entry
  BY <1>1 DEF Typed, Types, Written
<1>3. \A x \in knows[r] : KeyOf[x] = KeyOf[p] => entry'[p].version > entry[x].version
  BY PutDominates DEF Converging, KnownOn
<1>4. \A x \in Written : /\ x \in Requests /\ x # p /\ entry'[x] = entry[x]
                         /\ KeyOf[x] \in Keys /\ entry[x] \in Entry
                         /\ x \in knows[entry[x].updatedBy]
  BY <1>1, WrittenEntry
     DEF NoCrashes, Converging, History, KnownWhereMet, Coordinator, Typed, EntryOfRequest
<1>5. ASSUME NEW x \in Written, KeyOf[x] = KeyOf[p]
      PROVE  entry[x].version # entry'[p].version \/ entry[x].updatedBy # r
  <2>1. CASE entry[x].updatedBy = r
    <3>1. entry'[p].version > entry[x].version
      BY <1>3, <1>4, <1>5, <2>1
    <3> QED
      BY <1>2, <1>4, <3>1 DEF Entry
  <2> QED
    BY <2>1
<1>6. StampsUnique'
  <2> SUFFICES ASSUME NEW x \in Written', NEW y \in Written', x # y, KeyOf[x] = KeyOf[y]
               PROVE  \/ entry'[x].version # entry'[y].version
                      \/ entry'[x].updatedBy # entry'[y].updatedBy
    BY DEF StampsUnique
  <2>1. CASE x = p
    BY <1>1, <1>4, <1>5, <2>1
  <2>2. CASE y = p
    BY <1>1, <1>4, <1>5, <2>2
  <2>3. CASE x # p /\ y # p
    BY <1>1, <1>4, <2>3 DEF Converging, StampsUnique
  <2> QED
    BY <2>1, <2>2, <2>3
<1>7. StoreLast'
  <2> SUFFICES ASSUME NEW s \in Replicas, NEW x \in knows'[s]
               PROVE  store'[s][KeyOf[x]] = entry'[x] \/ Beats(store'[s][KeyOf[x]], entry'[x])
    BY DEF StoreLast, Beats
  <2>1. CASE x \notin knows[s]
    <3>1. s = r /\ x = p
      BY <1>1, <2>1
    <3> QED
      BY <1>1, <3>1
  <2>2. CASE x \in knows[s]
    <3>1. x \in Written
      BY <1>1, <2>2, KnownWritten
    <3>2. CASE s = r /\ KeyOf[x] = KeyOf[p]
      <4>1. entry'[p].version > entry[x].version
        BY <1>3, <2>2, <3>2
      <4> QED
        BY <1>1, <1>4, <3>1, <3>2, <4>1 DEF Beats
    <3>3. CASE ~(s = r /\ KeyOf[x] = KeyOf[p])
      <4>1. store'[s][KeyOf[x]] = store[s][KeyOf[x]] /\ entry'[x] = entry[x]
        BY <1>1, <1>4, <3>1, <3>3
      <4> QED
        BY <2>2, <4>1 DEF Converging, StoreLast
    <3> QED
      BY <3>2, <3>3
  <2> QED
    BY <2>1, <2>2
<1> QED
  BY <1>6, <1>7

LEMMA ConvergingReplicate ==
  ASSUME DistinctValues, Converging, NEW p \in Requests, NEW q \in Replicas, HandleReplicate(p, q)
  PROVE  StampsUnique' /\ StoreLast'
<1>1. /\ Typed
      /\ p \in Written
      /\ KeyOf[p] \in Keys
      /\ UNCHANGED <<up, phase, entry>>
      /\ store'[q][KeyOf[p]] = ApplyReplication(store[q][KeyOf[p]], entry[p])
      /\ \A s \in Replicas, k \in Keys :
           <<s, k>> # <<q, KeyOf[p]>> => store'[s][k] = store[s][k]
      /\ \A s \in Replicas : knows'[s] = IF s = q THEN knows[s] \cup {p} ELSE knows[s]
  BY HandleReplicateFacts DEF Converging, History
<1>2. StampsUnique'
  BY <1>1 DEF Converging, StampsUnique, Written
<1>3. StoreLast'
  <2> SUFFICES ASSUME NEW s \in Replicas, NEW x \in knows'[s]
               PROVE  store'[s][KeyOf[x]] = entry[x] \/ Beats(store'[s][KeyOf[x]], entry[x])
    BY <1>1 DEF StoreLast, Beats
  <2>1. CASE s = q /\ x = p
    BY <1>1, <2>1, ApplyKeepsLast
  <2>2. CASE x \in knows[s] /\ s = q /\ KeyOf[x] = KeyOf[p]
    <3> DEFINE old == store[q][KeyOf[p]]
               new == store'[q][KeyOf[p]]
    <3>1. old = entry[x] \/ Beats(old, entry[x])
      BY <2>2 DEF Converging, StoreLast
    <3>2. entry[x] \in Entry /\ AtLeast(old, entry[x])
      BY <1>1, <2>2, KnownWritten DEF Converging, History, StoreNewest
    <3>3. old \in Entry /\ entry[p] \in Entry /\ old # NoEntry
      BY <1>1, <3>2, WrittenEntry DEF AtLeast, Typed, Types
    <3>4. new \in Entry /\ (new = old \/ Beats(new, old))
      BY <1>1, <3>3, ApplyKeepsNewer
    <3> HIDE DEF old, new
    <3>5. new = entry[x] \/ Beats(new, entry[x])
      BY <3>1, <3>2, <3>3, <3>4, BeatsOrder
    <3> QED
      BY <2>2, <3>5 DEF new
  <2>3. CASE x \in knows[s] /\ ~(s = q /\ KeyOf[x] = KeyOf[p])
    <3>1. store'[s][KeyOf[x]] = store[s][KeyOf[x]]
      BY <1>1, <2>3, KnownWritten
    <3> QED
      BY <2>3, <3>1 DEF Converging, StoreLast
  <2> QED
    BY <1>1, <2>1, <2>2, <2>3
<1> QED
  BY <1>2, <1>3

LEMMA ConvergingNext ==
  ASSUME NoCrashes, DistinctValues
  PROVE  Converging /\ [Next]_vars => Converging'
<1> SUFFICES ASSUME Converging, [Next]_vars PROVE Converging'
  OBVIOUS
<1>1. History /\ Typed /\ History'
  BY HistoryNext DEF Converging, History
<1>2. ASSUME UNCHANGED <<store, entry, knows>> PROVE StampsUnique' /\ StoreLast'
  BY <1>2 DEF Converging, StampsUnique, StoreLast, Written
<1>3. ASSUME NEW r \in Replicas PROVE ~Crash(r)
  BY DEF Crash, NoCrashes
<1>4. CASE UNCHANGED vars
  BY <1>1, <1>2, <1>4 DEF Converging, vars
<1> QED
  BY <1>1, <1>2, <1>3, <1>4, NextCases, AnswerFacts, SenderFacts, RestartFacts,
     ConvergingPut, ConvergingReplicate DEF Converging

LEMMA ConvergingInvariant ==
  ASSUME NoCrashes, DistinctValues
  PROVE  Spec => []Converging
BY ConvergingInit, ConvergingNext, PTL DEF Spec

-----------------------------------------------------------------------------
LEMMA SameFromConverging == Converging => SameUpdatesSameValue
<1> SUFFICES ASSUME Converging, NEW r \in Replicas, NEW s \in Replicas, NEW k \in Keys,
                    KnownOn(r, k) = KnownOn(s, k)
             PROVE  SameValue(store[r][k], store[s][k])
  BY DEF SameUpdatesSameValue, HandleGet
<1>1. \A x : x \in knows[r] /\ KeyOf[x] = k <=> x \in knows[s] /\ KeyOf[x] = k
  BY DEF KnownOn
<1>2. \A x \in knows[r] : KeyOf[x] = k => store[r][k] # NoEntry
  BY DEF Converging, History, StoreNewest, AtLeast
<1>3. \A x \in knows[s] : KeyOf[x] = k => store[s][k] # NoEntry
  BY DEF Converging, History, StoreNewest, AtLeast
<1>4. CASE store[r][k] = NoEntry
  <2>1. store[s][k] = NoEntry
    BY <1>1, <1>2, <1>4, StoreIsKnown DEF Converging
  <2> QED
    BY <1>4, <2>1 DEF SameValue
<1>5. CASE store[r][k] # NoEntry
  <2>1. PICK x \in knows[r] : KeyOf[x] = k /\ store[r][k] = entry[x] /\ store[r][k] \in Entry
    BY <1>5, StoreIsKnown DEF Converging
  <2>2. store[s][k] # NoEntry
    BY <1>1, <1>3, <2>1
  <2>3. PICK y \in knows[s] : KeyOf[y] = k /\ store[s][k] = entry[y] /\ store[s][k] \in Entry
    BY <2>2, StoreIsKnown DEF Converging
  <2>4. store[r][k] = store[s][k] \/ Beats(store[r][k], store[s][k])
    BY <1>1, <2>3 DEF Converging, StoreLast
  <2>5. store[s][k] = store[r][k] \/ Beats(store[s][k], store[r][k])
    BY <1>1, <2>1 DEF Converging, StoreLast
  <2>6. store[r][k] = store[s][k]
    BY <2>1, <2>3, <2>4, <2>5, BeatsOrder
  <2> QED
    BY <1>5, <2>2, <2>6 DEF SameValue
<1> QED
  BY <1>4, <1>5

\* Replicas that have met the same writes of a key answer a GET alike, in whatever
\* order the writes arrived, if no process stops and values are distinct.
THEOREM ReplicasConverge ==
  ASSUME NoCrashes, DistinctValues
  PROVE  Spec => []SameUpdatesSameValue
BY ConvergingInvariant, SameFromConverging, PTL


-----------------------------------------------------------------------------
(***************************************************************************)
(* The replicas implement last-writer-wins registers.                      *)
(***************************************************************************)

\* The entry a store holds is that of the last writer among the known writes.
LEMMA StoreShowsLast == Converging => Register!LastWriterShown
<1> SUFFICES ASSUME Converging, NEW r \in Replicas, NEW k \in Keys
             PROVE  Register!IsLast(store[r][k], KnownOn(r, k))
  BY DEF Register!LastWriterShown, Register!KnownOn, KnownOn
<1> DEFINE S == KnownOn(r, k)
<1>1. CASE S = {}
  <2>1. store[r][k] = NoEntry
    BY <1>1, StoreIsKnown DEF Converging, KnownOn
  <2> QED
    BY <1>1, <2>1 DEF Register!IsLast
<1>2. CASE S # {}
  <2>1. store[r][k] # NoEntry
    BY <1>2 DEF Converging, History, StoreNewest, AtLeast, KnownOn
  <2>2. PICK p \in knows[r] : KeyOf[p] = k /\ store[r][k] = entry[p]
    BY <2>1, StoreIsKnown DEF Converging
  <2>3. p \in S /\ p \in Written /\ entry[p] \in Entry
    BY <2>2, KnownWritten DEF KnownOn, Converging, History
  <2>4. ASSUME NEW q \in S \ {p} PROVE Beats(entry[p], entry[q])
    <3>1. q \in knows[r] /\ KeyOf[q] = k /\ q \in Written
      BY <2>4, KnownWritten DEF KnownOn, Converging, History
    <3>2. entry[p] # entry[q]
      BY <2>2, <2>3, <2>4, <3>1 DEF Converging, StampsUnique
    <3> QED
      BY <2>2, <3>1, <3>2 DEF Converging, StoreLast
  <2> QED
    BY <1>2, <2>2, <2>3, <2>4 DEF Register!IsLast, Register!Beats, Beats
<1> QED
  BY <1>1, <1>2

LEMMA RegisterPut ==
  ASSUME Converging, Converging', NEW r \in Replicas, NEW p \in Requests, HandlePutStored(r, p)
  PROVE  Register!Issue(r, p)
<1>1. /\ entry' = [entry EXCEPT ![p] = entry'[p]]
      /\ knows' = [knows EXCEPT ![r] = @ \cup {p}]
      /\ KeyOf[p] \in Keys
  BY DEF HandlePutStored, HandlePutEventual, HandlePutStrong, PutLocally,
         Converging, History, Typed, Types
<1>2. entry[p] = NoEntry
  BY PutFacts DEF Converging, History, Written
<1>3. p \in Written' /\ entry'[p].updatedBy = r
  BY PutFacts DEF Converging, History
<1>4. entry'[p] \in Entry /\ entry'[p].key = KeyOf[p]
  BY <1>3 DEF Converging, History, Typed, Types, EntryOfRequest, Written
<1>5. \A q \in KnownOn(r, KeyOf[p]) : entry'[p].version > entry[q].version
  BY PutDominates DEF Converging
<1> QED
  BY <1>1, <1>2, <1>3, <1>4, <1>5 DEF Register!Issue, Register!KnownOn, KnownOn, Register!Entry, Entry

\* A delivery is the arrival of a write, or changes nothing that can be seen.
LEMMA RegisterReplicate ==
  ASSUME Converging, NEW p \in Requests, NEW q \in Replicas, HandleReplicate(p, q)
  PROVE  Register!Learn(q, p) \/ UNCHANGED <<entry, knows, store>>
<1>1. /\ p \in Written /\ KeyOf[p] \in Keys
      /\ knows' = [knows EXCEPT ![q] = @ \cup {p}]
      /\ store' = [store EXCEPT ![q][KeyOf[p]] = ApplyReplication(@, entry[p])]
      /\ UNCHANGED entry
  BY HandleReplicateFacts DEF HandleReplicate, Converging, History
<1>2. CASE p \notin knows[q]
  BY <1>1, <1>2 DEF Register!Learn, Written
<1>3. CASE p \in knows[q]
  <2> DEFINE old == store[q][KeyOf[p]]
  <2>1. knows' = knows
    BY <1>1, <1>3 DEF Converging, History, Typed, Types
  <2>2. old # NoEntry /\ old \in Entry /\ entry[p] \in Entry
    BY <1>1, <1>3, WrittenEntry
       DEF Converging, History, StoreNewest, AtLeast, Typed, Types
  <2>3. old = entry[p] \/ Beats(old, entry[p])
    BY <1>3 DEF Converging, StoreLast
  <2>4. ~Supersedes(entry[p], old)
    <3> HIDE DEF old
    <3>1. Supersedes(entry[p], old) => Beats(entry[p], old)
      BY DEF Supersedes, Beats
    <3> QED
      BY <2>2, <2>3, <3>1, BeatsOrder
  <2>5. ApplyReplication(old, entry[p]) = old
    BY <2>2, <2>4 DEF ApplyReplication
  <2>6. store' = store
    BY <1>1, <2>5 DEF Converging, History, Typed, Types
  <2> QED
    BY <1>1, <2>1, <2>6
<1> QED
  BY <1>2, <1>3

\* In a cluster whose processes do not stop, each replica is a last-writer-wins
\* register over the set of writes it has met, if values are distinct.
THEOREM RegisterImplemented ==
  ASSUME NoCrashes, DistinctValues
  PROVE  Spec => ImplementsRegister
<1>1. Init => Register!Init
  BY DEF Init, Register!Init
<1>2. Converging' => (Register!LastWriterShown)'
  BY StoreShowsLast, PTL
<1>3. Converging /\ Converging' /\ [Next]_vars => [Register!Next]_(Register!vars)
  <2> SUFFICES ASSUME Converging, Converging', [Next]_vars
               PROVE  Register!Next \/ UNCHANGED <<entry, knows, store>>
    BY DEF Register!vars
  <2>1. /\ store' \in [Replicas -> [Keys -> Entry \cup {NoEntry}]]
        /\ (Register!LastWriterShown)'
    BY <1>2 DEF Converging, History, Typed, Types
  <2>2. ASSUME NEW r \in Replicas PROVE ~Crash(r)
    BY DEF Crash, NoCrashes
  <2>3. ASSUME NEW r \in Replicas, NEW p \in Requests, HandlePutStored(r, p)
        PROVE  Register!Next
    BY <2>1, <2>3, RegisterPut DEF Register!Next, Register!Entry, Entry
  <2>4. ASSUME NEW p \in Requests, NEW q \in Replicas, HandleReplicate(p, q)
        PROVE  Register!Next \/ UNCHANGED <<entry, knows, store>>
    BY <2>1, <2>4, RegisterReplicate DEF Register!Next, Register!Entry, Entry
  <2>5. CASE UNCHANGED vars
    BY <2>5 DEF vars
  <2> QED
    BY <2>2, <2>3, <2>4, <2>5, NextCases, AnswerFacts, SenderFacts, RestartFacts
       DEF Converging, History
<1> QED
  BY <1>1, <1>3, ConvergingInvariant, PTL DEF Spec, ImplementsRegister, Register!Spec

=============================================================================
