--------------------------- MODULE Healing_proofs ---------------------------
(***************************************************************************)
(* What later writes repair: in any cluster, with crashes, restarts, lost  *)
(* and late sends, the write that beats all others of its key is shown by  *)
(* every replica it reaches, if no two requests write one value to one key.*)
(***************************************************************************)
EXTENDS Convergence_proofs

\* No write a process has met beats the entry its store holds.
StoreUnbeaten ==
  \A r \in Replicas : \A p \in knows[r] : ~Beats(entry[p], store[r][KeyOf[p]])

Healing == History /\ StoreUnbeaten

\* An entry that something replaced is beaten by what replaced it.
LEMMA BeatsTransfers ==
  ASSUME NEW e \in Entry, NEW f \in Entry, NEW g \in Entry,
         ~Beats(e, f), g = f \/ Beats(g, f)
  PROVE  ~Beats(e, g)
<1>1. \A x \in Entry : x.version \in Nat /\ x.updatedBy \in Nat
  BY ReplicasAssumption DEF Entry
<1> QED
  BY <1>1 DEF Beats

\* What ApplyReplication keeps is not beaten by the entry that arrived.
LEMMA ApplyUnbeaten ==
  ASSUME DistinctValues, History, NEW p \in Written, NEW q \in Replicas
  PROVE  ~Beats(entry[p], ApplyReplication(store[q][KeyOf[p]], entry[p]))
<1> DEFINE old == store[q][KeyOf[p]]
<1>1. /\ p \in Requests /\ KeyOf[p] \in Keys /\ entry[p] \in Entry
      /\ entry[p].value = ValueOf[p]
  BY WrittenEntry DEF History, Typed, EntryOfRequest
<1>2. ~Beats(entry[p], entry[p])
  BY <1>1, BeatsOrder
<1>3. CASE old = NoEntry \/ Supersedes(entry[p], old)
  BY <1>2, <1>3 DEF ApplyReplication
<1>4. CASE old # NoEntry /\ ~Supersedes(entry[p], old)
  <2>1. PICK y \in knows[q] : KeyOf[y] = KeyOf[p] /\ old = entry[y] /\ old \in Entry
    BY <1>1, <1>4, StoreIsKnown
  <2>2. y \in Requests /\ entry[y].value = ValueOf[y]
    BY KnownWritten DEF History
  <2>3. ApplyReplication(old, entry[p]) = old
    BY <1>4 DEF ApplyReplication
  <2>4. CASE old.value = entry[p].value
    BY <1>1, <1>2, <2>1, <2>2, <2>3, <2>4 DEF DistinctValues
  <2>5. CASE old.value # entry[p].value
    BY <1>4, <2>3, <2>5 DEF Supersedes, Beats
  <2> QED
    BY <2>4, <2>5
<1> QED
  BY <1>3, <1>4

LEMMA HealingInit == Init => Healing
<1> SUFFICES ASSUME Init PROVE Healing
  OBVIOUS
<1>1. History /\ \A r \in Replicas : knows[r] = {}
  BY HistoryInit DEF Init
<1> QED
  BY <1>1 DEF Healing, StoreUnbeaten

LEMMA HealingPut ==
  ASSUME Healing, NEW r \in Replicas, NEW p \in Requests, HandlePutStored(r, p)
  PROVE  StoreUnbeaten'
<1>1. /\ Typed /\ Typed' /\ p \notin Written
      /\ \A x \in Requests \ {p} : entry'[x] = entry[x]
      /\ store'[r][KeyOf[p]] = entry'[p]
      /\ \A s \in Replicas, k \in Keys :
           <<s, k>> # <<r, KeyOf[p]>> => store'[s][k] = store[s][k]
      /\ \A s \in Replicas : knows'[s] = IF s = r THEN knows[s] \cup {p} ELSE knows[s]
      /\ Written' = Written \cup {p}
  BY PutFacts DEF Healing, History
<1>2. entry'[p] \in Entry
  BY <1>1 DEF Typed, Types, Written
<1>3. \A x \in knows[r] : KeyOf[x] = KeyOf[p] => entry'[p].version > entry[x].version
  BY PutDominates DEF Healing, KnownOn
<1>4. ASSUME NEW s \in Replicas, NEW x \in knows'[s]
      PROVE  ~Beats(entry'[x], store'[s][KeyOf[x]])
  <2>1. CASE x \notin knows[s]
    <3>1. knows'[s] = IF s = r THEN knows[s] \cup {p} ELSE knows[s]
      BY <1>1
    <3>2. s = r /\ x = p
      BY <2>1, <3>1
    <3>3. store'[s][KeyOf[x]] = entry'[p]
      BY <1>1, <3>2
    <3>4. ~Beats(entry'[p], entry'[p])
      BY <1>2, BeatsOrder
    <3> QED
      BY <3>2, <3>3, <3>4
  <2>2. CASE x \in knows[s]
    <3>1. /\ x \in Written /\ x \in Requests /\ x # p /\ KeyOf[x] \in Keys
          /\ entry'[x] = entry[x] /\ entry[x] \in Entry
      BY <1>1, <2>2, KnownWritten
    <3>2. CASE s = r /\ KeyOf[x] = KeyOf[p]
      <4>1. entry'[p].version > entry[x].version
        BY <1>3, <2>2, <3>2
      <4>2. entry'[p].version \in Nat /\ entry[x].version \in Nat
        BY <1>2, <3>1 DEF Entry
      <4>3. ~Beats(entry[x], entry'[p])
        BY <4>1, <4>2 DEF Beats
      <4> QED
        BY <1>1, <3>1, <3>2, <4>3
    <3>3. CASE ~(s = r /\ KeyOf[x] = KeyOf[p])
      <4>1. store'[s][KeyOf[x]] = store[s][KeyOf[x]]
        BY <1>1, <3>1, <3>3
      <4> QED
        BY <2>2, <3>1, <4>1 DEF Healing, StoreUnbeaten
    <3> QED
      BY <3>2, <3>3
  <2> QED
    BY <2>1, <2>2
<1> QED
  BY <1>4 DEF StoreUnbeaten, Beats

LEMMA HealingReplicate ==
  ASSUME DistinctValues, Healing, NEW p \in Requests, NEW q \in Replicas, HandleReplicate(p, q)
  PROVE  StoreUnbeaten'
<1>1. /\ Typed /\ p \in Written /\ KeyOf[p] \in Keys /\ UNCHANGED entry
      /\ store'[q][KeyOf[p]] = ApplyReplication(store[q][KeyOf[p]], entry[p])
      /\ \A s \in Replicas, k \in Keys :
           <<s, k>> # <<q, KeyOf[p]>> => store'[s][k] = store[s][k]
      /\ \A s \in Replicas : knows'[s] = IF s = q THEN knows[s] \cup {p} ELSE knows[s]
  BY HandleReplicateFacts DEF Healing, History
<1>2. ASSUME NEW s \in Replicas, NEW x \in knows'[s]
      PROVE  ~Beats(entry[x], store'[s][KeyOf[x]])
  <2>1. CASE s = q /\ x = p
    BY <1>1, <2>1, ApplyUnbeaten DEF Healing
  <2>2. CASE x \in knows[s] /\ s = q /\ KeyOf[x] = KeyOf[p]
    <3> DEFINE old == store[q][KeyOf[p]]
               new == store'[q][KeyOf[p]]
    <3>1. entry[x] \in Entry /\ ~Beats(entry[x], old)
      BY <1>1, <2>2, KnownWritten DEF Healing, StoreUnbeaten
    <3>2. old \in Entry /\ old # NoEntry /\ entry[p] \in Entry
      BY <1>1, <2>2, WrittenEntry DEF Healing, History, StoreNewest, AtLeast, Typed, Types
    <3>3. new \in Entry /\ (new = old \/ Beats(new, old))
      BY <1>1, <3>2, ApplyKeepsNewer
    <3> HIDE DEF old, new
    <3>4. ~Beats(entry[x], new)
      BY <3>1, <3>2, <3>3, BeatsTransfers
    <3> QED
      BY <2>2, <3>4 DEF new
  <2>3. CASE x \in knows[s] /\ ~(s = q /\ KeyOf[x] = KeyOf[p])
    <3>1. store'[s][KeyOf[x]] = store[s][KeyOf[x]]
      BY <1>1, <2>3, KnownWritten
    <3> QED
      BY <2>3, <3>1 DEF Healing, StoreUnbeaten
  <2> QED
    BY <1>1, <2>1, <2>2, <2>3
<1> QED
  BY <1>1, <1>2 DEF StoreUnbeaten, Beats

\* A process that stops forgets what it had met together with what it stored.
LEMMA HealingCrash ==
  ASSUME Healing, NEW r \in Replicas, Crash(r)
  PROVE  StoreUnbeaten'
<1>1. /\ UNCHANGED entry /\ knows'[r] = {}
      /\ \A s \in Replicas \ {r} : store'[s] = store[s] /\ knows'[s] = knows[s]
  BY CrashFacts DEF Healing, History
<1> QED
  BY <1>1 DEF Healing, StoreUnbeaten, Beats

LEMMA HealingNext ==
  ASSUME DistinctValues
  PROVE  Healing /\ [Next]_vars => Healing'
<1> SUFFICES ASSUME Healing, [Next]_vars PROVE Healing'
  OBVIOUS
<1>1. History /\ Typed /\ History'
  BY HistoryNext DEF Healing, History
<1>2. ASSUME UNCHANGED <<store, entry, knows>> PROVE StoreUnbeaten'
  BY <1>2 DEF Healing, StoreUnbeaten, Beats
<1>3. CASE UNCHANGED vars
  BY <1>1, <1>2, <1>3 DEF Healing, vars
<1> QED
  BY <1>1, <1>2, <1>3, NextCases, AnswerFacts, SenderFacts, RestartFacts,
     HealingPut, HealingReplicate, HealingCrash DEF Healing

LEMMA LatestFromHealing == Healing => LatestShown
<1> SUFFICES ASSUME Healing, NEW p \in Written,
                    \A q \in Written \ {p} : KeyOf[q] = KeyOf[p] => Beats(entry[p], entry[q]),
                    NEW r \in Replicas, p \in knows[r]
             PROVE  store[r][KeyOf[p]] = entry[p]
  BY DEF LatestShown, HandleGet
<1>1. KeyOf[p] \in Keys /\ store[r][KeyOf[p]] # NoEntry
  BY KnownWritten DEF Healing, History, StoreNewest, AtLeast
<1>2. PICK y \in knows[r] : KeyOf[y] = KeyOf[p] /\ store[r][KeyOf[p]] = entry[y]
  BY <1>1, StoreIsKnown DEF Healing
<1>3. y \in Written
  BY KnownWritten DEF Healing, History
<1>4. ~Beats(entry[p], entry[y])
  BY <1>2 DEF Healing, StoreUnbeaten
<1> QED
  BY <1>2, <1>3, <1>4

\* The write that beats all others of its key is answered by every replica it has
\* reached, whatever crashes and losses came before, if values are distinct.
THEOREM LatestWriteShown ==
  ASSUME DistinctValues
  PROVE  Spec => []LatestShown
BY HealingInit, HealingNext, LatestFromHealing, PTL DEF Spec

=============================================================================
