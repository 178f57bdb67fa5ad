---------------------------- MODULE ClusterMeta ----------------------------
(***************************************************************************)
(* The metadata record kept per cluster (daemon/metadata.go): who owns it  *)
(* and when it expires.  Only the values are defined here; the store that  *)
(* holds them is MetaStore, and what the rest of the daemon may rely on is *)
(* MetaRegistry.                                                           *)
(*                                                                         *)
(* Time is counted in ticks, Second ticks to the second: the daemon        *)
(* computes expiry times to the nanosecond and stores them to the second.  *)
(***************************************************************************)
EXTENDS Integers

CONSTANTS
  Cluster,    \* cluster ids
  User,       \* users a request can name in its cbdn-user header
  NoOwner,    \* "unknown" or "": an owner that no request can name
  NoMeta,     \* the store holds no record under the cluster's key
  FarFuture,  \* DEFAULT_CLUSTER_TIMEOUT, 1 January 2222
  Unreadable  \* clusters whose record badger may fail to read (a disk error)

Second == 2

Owner == User \cup {NoOwner}

ClusterMetaRecord == [owner : Owner, timeout : Int]

ASSUME MetaAssumption ==
  /\ NoOwner \notin User
  /\ NoMeta \notin ClusterMetaRecord
  /\ FarFuture \in Int
  /\ Unreadable \subseteq Cluster

(* What GetClusterMeta returns with an error, and what it returns without  *)
(* one when badger panics: the deferred recover leaves both results at     *)
(* their zero values, so the time is year 1 and the error is nil.          *)
DEFAULT_CLUSTER_META == [owner |-> NoOwner, timeout |-> FarFuture]
ZERO_CLUSTER_META    == [owner |-> NoOwner, timeout |-> -1]

(* Mutant: the fraction of the second is kept.                             *)
serializeMetaNano(m) == m

(* serializeMeta formats the time as RFC3339, which drops the fraction of  *)
(* the second; deserializeMeta parses it back to the same instant.         *)
serializeMeta(m) == [m EXCEPT !.timeout = @ - (@ % Second)]

(* Mutant: the new timeout always wins.                                    *)
refreshMetaForced(old, new) == new

(* The closure refreshCluster gives to UpdateClusterMeta.                  *)
refreshMeta(old, new) ==
  [owner   |-> new.owner,
   timeout |-> IF old.timeout < new.timeout THEN new.timeout ELSE old.timeout]

=============================================================================
