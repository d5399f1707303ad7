------------------------------- MODULE Store -------------------------------
(***************************************************************************)
(* The local key-value store of one replica                                *)
(* (Homework3/Codes/replica/store/store.go), as pure operators on entries. *)
(* Every method of the Go type runs under the store's own mutex and        *)
(* touches the entry of one key, so each is a single atomic function from  *)
(* the stored entry to the next one.                                       *)
(*                                                                         *)
(* The field UpdatedAt is left out: no code compares it, the policy called *)
(* last_write_wins orders entries by Version and then by UpdatedBy.        *)
(***************************************************************************)
EXTENDS Integers

CONSTANTS
  Replicas, \* replica ids, as their positions in the order of Go strings
  Keys,     \* the keys of the map Store.data
  Values,   \* the values clients write; only their equality matters
  NoEntry   \* the key is absent from the map

\* Only the total order of the ids matters, so they are numbers.
ASSUME ReplicasAssumption == Replicas \subseteq Nat

\* nil is not an entry.
ASSUME NoEntryAssumption ==
  NoEntry \notin [key: Keys, value: Values, version: Nat \ {0}, updatedBy: Replicas]

Entry == [key: Keys, value: Values, version: Nat \ {0}, updatedBy: Replicas]

-----------------------------------------------------------------------------
(***************************************************************************)
(* Put: the next entry of a key written locally.                           *)
(***************************************************************************)

\* (mutant of NextVersion) versions start at the zero value of int64.
NextVersionFromZero(existing) ==
  IF existing = NoEntry THEN 0 ELSE existing.version + 1

\* (mutant of NextVersion) an overwrite keeps the version it finds.
NextVersionKept(existing) ==
  IF existing = NoEntry THEN 1 ELSE existing.version

NextVersion(existing) ==
  IF existing = NoEntry THEN 1 ELSE existing.version + 1

Put(existing, key, value, replicaID) ==
  [key       |-> key,
   value     |-> value,
   version   |-> NextVersion(existing),
   updatedBy |-> replicaID]

(***************************************************************************)
(* ApplyReplication: the entry kept when a peer's entry arrives.  A higher *)
(* version replaces, a lower one is skipped; at equal versions only a      *)
(* different value is a conflict, and the larger replica id wins it.       *)
(***************************************************************************)

\* (mutant of Supersedes) the conflict goes to whatever arrives last.
SupersedesLatestArrival(incoming, existing) ==
  \/ incoming.version > existing.version
  \/ incoming.version = existing.version /\ incoming.value # existing.value

\* (mutant of Supersedes) an older version is not skipped.
SupersedesNoSkip(incoming, existing) ==
  \/ incoming.version > existing.version
  \/ incoming.value # existing.value /\ incoming.updatedBy > existing.updatedBy

\* (mutant of Supersedes) a conflict always goes to the entry already stored.
SupersedesNewer(incoming, existing) ==
  incoming.version > existing.version

Supersedes(incoming, existing) ==
  \/ incoming.version > existing.version
  \/ /\ incoming.version = existing.version
     /\ incoming.value # existing.value
     /\ incoming.updatedBy > existing.updatedBy

ApplyReplication(existing, incoming) ==
  IF existing = NoEntry \/ Supersedes(incoming, existing)
  THEN incoming
  ELSE existing

-----------------------------------------------------------------------------
(***************************************************************************)
(* The order "last writer wins" is meant to be: by version, ties by the id *)
(* of the writer, whatever the values.  Properties compare entries with it.*)
(***************************************************************************)
Beats(e, f) ==
  \/ e.version > f.version
  \/ e.version = f.version /\ e.updatedBy > f.updatedBy

=============================================================================
