--------------------------- MODULE LastWriterWins ---------------------------
(***************************************************************************)
(* What eventual mode promises, without messages: a register per key whose *)
(* value at a replica is a function of the SET of writes the replica has   *)
(* learned, namely the one that beats all the others.  Replicas learn      *)
(* writes one by one in any order, and a new write beats all its replica   *)
(* has learned.                                                            *)
(***************************************************************************)
EXTENDS Store

CONSTANTS
  Requests, \* the writes
  KeyOf     \* write -> its key

VARIABLES
  written, \* written[p]: the entry of write p, NoEntry before it is issued
  known,   \* known[r]: the writes replica r has learned
  view     \* view[r][k]: the entry replica r shows for key k

vars == <<written, known, view>>

KnownOn(r, k) == {p \in known[r] : KeyOf[p] = k}

\* e is the entry of the last writer among the writes S.
IsLast(e, S) ==
  IF S = {}
  THEN e = NoEntry
  ELSE \E p \in S : /\ e = written[p]
                    /\ \A q \in S \ {p} : Beats(e, written[q])

LastWriterShown == \A r \in Replicas, k \in Keys : IsLast(view[r][k], KnownOn(r, k))

Init ==
  /\ written = [p \in Requests |-> NoEntry]
  /\ known   = [r \in Replicas |-> {}]
  /\ view    = [r \in Replicas |-> [k \in Keys |-> NoEntry]]

\* Replica r makes write p.
Issue(r, p) ==
  /\ written[p] = NoEntry
  /\ KeyOf[p] \in Keys
  /\ written'[p] \in Entry
  /\ written'[p].key = KeyOf[p]
  /\ written'[p].updatedBy = r
  /\ \A q \in KnownOn(r, KeyOf[p]) : written'[p].version > written[q].version
  /\ written' = [written EXCEPT ![p] = written'[p]]
  /\ known' = [known EXCEPT ![r] = @ \cup {p}]

\* Replica r hears of write p.
Learn(r, p) ==
  /\ written[p] # NoEntry
  /\ p \notin known[r]
  /\ known' = [known EXCEPT ![r] = @ \cup {p}]
  /\ UNCHANGED written

Next ==
  /\ \E r \in Replicas, p \in Requests : Issue(r, p) \/ Learn(r, p)
  /\ view' \in [Replicas -> [Keys -> Entry \cup {NoEntry}]]
  /\ LastWriterShown'

Spec == Init /\ [][Next]_vars

\* Every write reaches every replica.
Dissemination ==
  \A r \in Replicas, p \in Requests : WF_<<written, known>>(Learn(r, p))

FairSpec == Spec /\ Dissemination

=============================================================================
