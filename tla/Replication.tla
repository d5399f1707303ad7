---------------------------- MODULE Replication ----------------------------
(***************************************************************************)
(* The replicated key-value store of Homework3/Codes: replicas with an     *)
(* HTTP handler each (replica/handler), the in-memory store of module      *)
(* Store and the replicator that pushes local writes to the peers          *)
(* (replica/replicator), under process crashes and sends that time out.    *)
(*                                                                         *)
(* A request is one POST /put of a client.  Its entry, once written        *)
(* locally, travels to every peer in a goroutine of its own, so nothing    *)
(* orders the deliveries.  net/http never repeats a POST of which a byte   *)
(* was written, so each goroutine delivers its entry at most once.         *)
(***************************************************************************)
EXTENDS Store, FiniteSets

CONSTANTS
  Requests,   \* the POST /put calls of all clients, each made at most once
  KeyOf,      \* request -> the key in its body
  ValueOf,    \* request -> the value in its body
  EmptyKey,   \* the key "", also standing for a body that does not decode
  ModeOf,     \* replica -> consistency_mode of its configuration
  MayCrash,   \* the replicas whose process may be stopped and started again
  MayTimeOut  \* whether the 5 s limit of the replicator's client can expire

ASSUME RequestsAssumption ==
  /\ KeyOf \in [Requests -> Keys \cup {EmptyKey}]
  /\ EmptyKey \notin Keys
  /\ ValueOf \in [Requests -> Values]

\* Config.validate accepts no other mode.
ASSUME ConfigAssumption == ModeOf \in [Replicas -> {"eventual", "strong"}]

ASSUME FaultAssumption == MayCrash \subseteq Replicas /\ MayTimeOut \in BOOLEAN

ASSUME ClusterAssumption == IsFiniteSet(Replicas)

VARIABLES
  up,     \* up[r]: the process of replica r is running
  store,  \* store[r][k]: the entry of key k in the store of r
  phase,  \* phase[p]: what the client of request p has been told
  entry,  \* entry[p]: the entry Store.Put built for p
  send,   \* send[p][q]: the goroutine that sends entry[p] to peer q
  knows   \* history: knows[r], the requests whose entry was put in the store
          \* of r or offered to it since the process of r started

vars == <<up, store, phase, entry, send, knows>>

\* "dropped": the replica stopped before it answered.
Phases == {"new", "bad", "waiting", "ok", "failed", "dropped"}

(***************************************************************************)
(* The life of one send goroutine: "pending" until its POST has reached    *)
(* the peer (delay, dial), "inflight" while the peer has the request,      *)
(* "replied" when the peer has handled it, then "ok" or "err", the result  *)
(* it puts in the channel.  "orphan" is "err" for the sender, who has given*)
(* up or is gone, while the peer may still handle the request.             *)
(***************************************************************************)
SendStates == {"none", "pending", "inflight", "replied", "ok", "err", "orphan"}

\* The configured peers of a replica: all the others.
Peers(r) == Replicas \ {r}

\* (mutant of Needed) half of the replicas taken for a majority.
NeededHalf(r) == (Cardinality(Peers(r)) + 1) \div 2 - 1

\* quorum - 1: the acknowledgements SendQuorum waits for, its own write aside.
Needed(r) ==
  LET total  == Cardinality(Peers(r)) + 1
      quorum == total \div 2 + 1
  IN  quorum - 1

Written == {p \in Requests : entry[p] # NoEntry}

Coordinator(p) == entry[p].updatedBy

\* The peers whose goroutine has put a nil error in the channel.
Acks(p) == {q \in Replicas : send[p][q] = "ok"}

Init ==
  /\ up    = [r \in Replicas |-> TRUE]
  /\ store = [r \in Replicas |-> [k \in Keys |-> NoEntry]]
  /\ phase = [p \in Requests |-> "new"]
  /\ entry = [p \in Requests |-> NoEntry]
  /\ send  = [p \in Requests |-> [q \in Replicas |-> "none"]]
  /\ knows = [r \in Replicas |-> {}]

-----------------------------------------------------------------------------
(***************************************************************************)
(* HandlePut.                                                              *)
(***************************************************************************)

\* A body that does not decode or has no key: 400, nothing stored.
HandlePutInvalid(r, p) ==
  /\ up[r]
  /\ phase[p] = "new"
  /\ KeyOf[p] \notin Keys
  /\ phase' = [phase EXCEPT ![p] = "bad"]
  /\ UNCHANGED <<up, store, entry, send, knows>>

\* (mutant of Spawn) every goroutine captures the last peer of the loop.
SpawnLast(r, p) ==
  send' = [send EXCEPT ![p] = [q \in Replicas |->
             IF q \in Peers(r) /\ \A s \in Peers(r) : s <= q THEN "pending" ELSE "none"]]

\* The goroutines SendAsync and SendQuorum start: one for each peer.
Spawn(r, p) ==
  send' = [send EXCEPT ![p] = [q \in Replicas |-> IF q \in Peers(r) THEN "pending" ELSE "none"]]

\* Store.Put under the store's mutex, then the start of the goroutines; until
\* they run, nobody can tell the two apart.
PutLocally(r, p) ==
  /\ up[r]
  /\ phase[p] = "new"
  /\ KeyOf[p] \in Keys
  /\ LET e == Put(store[r][KeyOf[p]], KeyOf[p], ValueOf[p], r)
     IN  /\ store' = [store EXCEPT ![r][KeyOf[p]] = e]
         /\ entry' = [entry EXCEPT ![p] = e]
  /\ Spawn(r, p)
  /\ knows' = [knows EXCEPT ![r] = @ \cup {p}]
  /\ UNCHANGED up

\* Eventual mode: SendAsync returns at once and the client is answered 200.
HandlePutEventual(r, p) ==
  /\ ModeOf[r] = "eventual"
  /\ PutLocally(r, p)
  /\ phase' = [phase EXCEPT ![p] = "ok"]

\* Strong mode: the handler blocks in SendQuorum.
HandlePutStrong(r, p) ==
  /\ ModeOf[r] = "strong"
  /\ PutLocally(r, p)
  /\ phase' = [phase EXCEPT ![p] = "waiting"]

\* SendQuorum returns nil as soon as it has counted enough acknowledgements
\* (at once if the replica has no peers): 200.
QuorumReached(p) ==
  /\ phase[p] = "waiting"
  /\ Cardinality(Acks(p)) >= Needed(Coordinator(p))
  /\ phase' = [phase EXCEPT ![p] = "ok"]
  /\ UNCHANGED <<up, store, entry, send, knows>>

\* (mutant of QuorumFailed) the handler takes the local write back.
QuorumFailedRollback(p) ==
  /\ phase[p] = "waiting"
  /\ \A q \in Peers(Coordinator(p)) : send[p][q] \in {"ok", "err", "orphan"}
  /\ Cardinality(Acks(p)) < Needed(Coordinator(p))
  /\ phase' = [phase EXCEPT ![p] = "failed"]
  /\ store' = [store EXCEPT ![Coordinator(p)][KeyOf[p]] = IF @ = entry[p] THEN NoEntry ELSE @]
  /\ UNCHANGED <<up, entry, send, knows>>

\* SendQuorum has received a result from every peer and counted too few
\* acknowledgements: 503, and the entry stays where it has arrived.
QuorumFailed(p) ==
  /\ phase[p] = "waiting"
  /\ \A q \in Peers(Coordinator(p)) : send[p][q] \in {"ok", "err", "orphan"}
  /\ Cardinality(Acks(p)) < Needed(Coordinator(p))
  /\ phase' = [phase EXCEPT ![p] = "failed"]
  /\ UNCHANGED <<up, store, entry, send, knows>>


-----------------------------------------------------------------------------
(***************************************************************************)
(* send: one goroutine per peer, and the handler of the peer.              *)
(***************************************************************************)

\* The delay is over and the peer accepts the POST.
Post(p, q) ==
  /\ send[p][q] = "pending"
  /\ up[q]
  /\ send' = [send EXCEPT ![p][q] = "inflight"]
  /\ UNCHANGED <<up, store, phase, entry, knows>>

\* Nobody listens at the peer's address.
SendRefused(p, q) ==
  /\ send[p][q] = "pending"
  /\ ~up[q]
  /\ send' = [send EXCEPT ![p][q] = "err"]
  /\ UNCHANGED <<up, store, phase, entry, knows>>

\* HandleReplicate at q: the entry is applied, skipped or beaten in a conflict,
\* and the answer is 200 in every case.
HandleReplicate(p, q) ==
  /\ send[p][q] \in {"inflight", "orphan"}
  /\ up[q]
  /\ store' = [store EXCEPT ![q][KeyOf[p]] = ApplyReplication(@, entry[p])]
  /\ knows' = [knows EXCEPT ![q] = @ \cup {p}]
  /\ send'  = [send EXCEPT ![p][q] = IF @ = "inflight" THEN "replied" ELSE "err"]
  /\ UNCHANGED <<up, phase, entry>>

\* The sender reads the status 200.
Ack(p, q) ==
  /\ send[p][q] = "replied"
  /\ send' = [send EXCEPT ![p][q] = "ok"]
  /\ UNCHANGED <<up, store, phase, entry, knows>>

\* The peer stopped before its answer had been read.
ReplyLost(p, q) ==
  /\ send[p][q] = "replied"
  /\ ~up[q]
  /\ send' = [send EXCEPT ![p][q] = "err"]
  /\ UNCHANGED <<up, store, phase, entry, knows>>

\* (mutant of Timeout) a client that only limits the time to connect.
TimeoutDialOnly(p, q) ==
  /\ MayTimeOut
  /\ send[p][q] = "pending"
  /\ send' = [send EXCEPT ![p][q] = "err"]
  /\ UNCHANGED <<up, store, phase, entry, knows>>

\* The client's 5 s are over; a request the peer has received is still handled.
Timeout(p, q) ==
  /\ MayTimeOut
  /\ send[p][q] \in {"pending", "inflight", "replied"}
  /\ send' = [send EXCEPT ![p][q] = IF @ = "inflight" THEN "orphan" ELSE "err"]
  /\ UNCHANGED <<up, store, phase, entry, knows>>

-----------------------------------------------------------------------------
(***************************************************************************)
(* The process of a replica: docker stop, docker start.                    *)
(***************************************************************************)

\* What becomes of the goroutine that sends entry[p] to q when r stops.
SendAfterCrash(r, p, q) ==
  CASE q = r /\ send[p][q] \in {"inflight", "orphan"} -> "err"
    [] p \in Written /\ Coordinator(p) = r /\ send[p][q] \in {"pending", "replied"} -> "err"
    [] p \in Written /\ Coordinator(p) = r /\ send[p][q] = "inflight" -> "orphan"
    [] OTHER -> send[p][q]

\* The store is only in memory, and the connections of the process break.
Crash(r) ==
  /\ r \in MayCrash
  /\ up[r]
  /\ up' = [up EXCEPT ![r] = FALSE]
  /\ store' = [store EXCEPT ![r] = [k \in Keys |-> NoEntry]]
  /\ knows' = [knows EXCEPT ![r] = {}]
  /\ send' = [p \in Requests |-> [q \in Replicas |-> SendAfterCrash(r, p, q)]]
  /\ phase' = [p \in Requests |->
                 IF phase[p] = "waiting" /\ Coordinator(p) = r THEN "dropped" ELSE phase[p]]
  /\ UNCHANGED entry

\* main: a new store, and the handlers serve again.
Restart(r) ==
  /\ ~up[r]
  /\ up' = [up EXCEPT ![r] = TRUE]
  /\ UNCHANGED <<store, phase, entry, send, knows>>

-----------------------------------------------------------------------------
HandlePut(r, p) ==
  \/ HandlePutInvalid(r, p)
  \/ HandlePutEventual(r, p)
  \/ HandlePutStrong(r, p)

Sender(p, q) ==
  \/ Post(p, q)
  \/ SendRefused(p, q)
  \/ Ack(p, q)
  \/ ReplyLost(p, q)
  \/ Timeout(p, q)

SendQuorumReturns(p) == QuorumReached(p) \/ QuorumFailed(p)

Next ==
  \/ \E r \in Replicas, p \in Requests : HandlePut(r, p)
  \/ \E p \in Requests : SendQuorumReturns(p)
  \/ \E p \in Requests, q \in Replicas : Sender(p, q) \/ HandleReplicate(p, q)
  \/ \E r \in Replicas : Crash(r) \/ Restart(r)

Spec == Init /\ [][Next]_vars

\* The Go scheduler runs every goroutine that can run, and net/http ends every
\* exchange: answered, refused, broken or out of time.
SenderFairness ==
  /\ \A p \in Requests : WF_vars(SendQuorumReturns(p))
  /\ \A p \in Requests, q \in Replicas : WF_vars(Sender(p, q))

\* A replica that runs handles what it has received.
ReplicaFairness ==
  \A p \in Requests, q \in Replicas : WF_vars(HandleReplicate(p, q))

SenderSpec == Spec /\ SenderFairness

FairSpec == SenderSpec /\ ReplicaFairness


-----------------------------------------------------------------------------
(***************************************************************************)
(* Properties.                                                             *)
(***************************************************************************)

Types ==
  /\ up \in [Replicas -> BOOLEAN]
  /\ store \in [Replicas -> [Keys -> Entry \cup {NoEntry}]]
  /\ phase \in [Requests -> Phases]
  /\ entry \in [Requests -> Entry \cup {NoEntry}]
  /\ send \in [Requests -> [Replicas -> SendStates]]
  /\ knows \in [Replicas -> SUBSET Requests]

EntriesUnderTheirKey ==
  \A r \in Replicas, k \in Keys : store[r][k] # NoEntry => store[r][k].key = k

DownIsEmpty ==
  \A r \in Replicas : ~up[r] => knows[r] = {} /\ \A k \in Keys : store[r][k] = NoEntry

\* Every variable has its type, a version being at least 1; a store holds entries
\* under their own key (Store.Put, ApplyReplication), and a replica that is down has
\* neither data nor past.
TypeOK == Types /\ EntriesUnderTheirKey /\ DownIsEmpty

\* HandleGet: what a GET of key k returns at replica r, 404 if NoEntry.
HandleGet(r, k) == store[r][k]

\* The writes of key k that the process of r has made or received.
KnownOn(r, k) == {p \in knows[r] : KeyOf[p] = k}

SameValue(e, f) == IF NoEntry \in {e, f} THEN e = f ELSE e.value = f.value

\* "Every replica that receives both versions of the entry independently
\* reaches the same conclusion" (orchestrate.py): two replicas that have got the
\* same writes of a key, in whatever order, give the same answer to a GET.
SameUpdatesSameValue ==
  \A r, s \in Replicas, k \in Keys :
    KnownOn(r, k) = KnownOn(s, k) => SameValue(HandleGet(r, k), HandleGet(s, k))

\* ApplyReplication rejects what is old: as long as its process runs, a replica
\* replaces an entry only with one that beats it by version, then by writer, in
\* whatever order local and replicated writes arrive.
NeverStepsBack ==
  [][\A r \in Replicas, k \in Keys :
       \/ store[r][k] = NoEntry
       \/ store'[r][k] = store[r][k]
       \/ up[r] /\ ~up'[r]
       \/ store'[r][k] # NoEntry /\ Beats(store'[r][k], store[r][k])]_vars

\* "May return stale data briefly after a write" (orchestrate.py), and no longer
\* than until it arrives: a write that beats every other write of its key is what
\* each replica that has met it answers, also one that restarted empty, missed
\* writes whose sends failed, or met it through a strong write answered 503.
LatestShown ==
  \A p \in Written :
    (\A q \in Written \ {p} : KeyOf[q] = KeyOf[p] => Beats(entry[p], entry[q])) =>
      \A r \in Replicas : p \in knows[r] => HandleGet(r, KeyOf[p]) = entry[p]

\* A version records causality: a write beats every write of its key that its
\* replica had made or received before, even those its store had skipped.
WriteDominates ==
  [][\A p \in Requests :
       entry[p] = NoEntry /\ entry'[p] # NoEntry =>
         \A q \in KnownOn(entry'[p].updatedBy, KeyOf[p]) :
           entry'[p].version > entry[q].version]_vars

AckedStrong(p) == p \in Written /\ phase[p] = "ok" /\ ModeOf[Coordinator(p)] = "strong"

\* e is at least as new as f; nothing is older than an absent entry.
AtLeast(e, f) == e # NoEntry /\ e.version >= f.version

\* A strong write that was answered 200 is held, or outdated, by a member of
\* every majority of replicas: no majority that has never lost its memory can
\* have forgotten it, whatever timed out and in whatever order replies came.
QuorumCoverage ==
  \A p \in Requests : AckedStrong(p) =>
    \A Q \in SUBSET Replicas : 2 * Cardinality(Q) > Cardinality(Replicas) =>
      \E r \in Q : r \in MayCrash \/ AtLeast(store[r][KeyOf[p]], entry[p])

\* "Always consistent once a write succeeds" (the table of orchestrate.py, strong
\* mode): a GET at any replica that runs is at least as new as every strong
\* write that was answered 200.
StrongReadsFresh ==
  \A p \in Requests : AckedStrong(p) =>
    \A r \in Replicas : up[r] => AtLeast(HandleGet(r, KeyOf[p]), entry[p])

\* No client of a strong write waits forever: peers that are down, slow or silent
\* all yield a result, and SendQuorum counts one from each.
PutAnswered ==
  \A p \in Requests : phase[p] = "waiting" ~> phase[p] \in {"ok", "failed", "dropped"}

\* Once clients stop writing, the replicas agree on every key for good.
EventuallyConsistent ==
  <>[](\A r, s \in Replicas, k \in Keys : SameValue(HandleGet(r, k), HandleGet(s, k)))


-----------------------------------------------------------------------------
\* As long as no process stops and no two requests write the same value, the
\* stores are last-writer-wins registers over the sets of writes received.
Register == INSTANCE LastWriterWins WITH written <- entry, known <- knows, view <- store

\* Every step of a replica is a write, the arrival of one, or invisible.
ImplementsRegister == Register!Spec

\* Moreover every write arrives everywhere.
ImplementsFairRegister == Register!FairSpec

=============================================================================
