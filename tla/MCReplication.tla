--------------------------- MODULE MCReplication ---------------------------
(***************************************************************************)
(* Small instances of module Replication for TLC.                          *)
(***************************************************************************)
EXTENDS Replication, TLC

CONSTANTS k1, k2, none, emptyKey, p1, p2, p3, pBad, a, b

OneKey(p) == IF p = pBad THEN emptyKey ELSE k1

\* Every request on one key, except the one without a key.
SameKey == [p \in Requests |-> OneKey(p)]

\* p3 writes another key than the rest.
TwoKeys == [p \in Requests |-> IF p = p3 THEN k2 ELSE OneKey(p)]

\* Every request writes a value of its own.
OwnValue == [p \in Requests |-> p]

\* p1 and p3 write the same value.
RepeatedValue == [p \in Requests |-> IF p = p2 THEN b ELSE a]

AllEventual == [r \in Replicas |-> "eventual"]
AllStrong == [r \in Replicas |-> "strong"]

\* Requests that differ only in their name.
Interchangeable == Permutations(Requests \ {pBad})

=============================================================================
