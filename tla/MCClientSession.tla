-------------------------- MODULE MCClientSession --------------------------
(***************************************************************************)
(* Small instances of module ClientSession for TLC.                        *)
(***************************************************************************)
EXTENDS ClientSession

CONSTANTS k1, none, emptyKey, p1, p2, pBad

\* Every request on one key, except the one without a key.
SameKey == [p \in Requests |-> IF p = pBad THEN emptyKey ELSE k1]

\* Every request writes a value of its own.
OwnValue == [p \in Requests |-> p]

AllStrong == [r \in Replicas |-> "strong"]

=============================================================================
