---------------------------- MODULE MetaRegistry ----------------------------
(***************************************************************************)
(* What the metadata store promises to the rest of the daemon: a registry  *)
(* in which a cluster is entered once, is never removed, and in which a    *)
(* refresh moves the expiry time forwards only.  The promise is void for a *)
(* cluster whose record cannot be read: CreateClusterMeta takes any error  *)
(* of its read to mean that the key is free, and replaces the record.      *)
(***************************************************************************)
EXTENDS ClusterMeta

CONSTANT Record   \* the records its callers may ask it to write
VARIABLE db       \* the record stored for each cluster, or NoMeta

Init == db = [c \in Cluster |-> NoMeta]

Register(c, m) ==
  /\ db[c] = NoMeta \/ c \in Unreadable
  /\ db' = [db EXCEPT ![c] = serializeMeta(m)]

(* UpdateClusterMeta applies the closure to the record stored now. *)
Refresh(c, m) ==
  /\ db[c] # NoMeta
  /\ db' = [db EXCEPT ![c] = serializeMeta(refreshMeta(db[c], m))]

Next == \E c \in Cluster, m \in Record : Register(c, m) \/ Refresh(c, m)

Spec == Init /\ [][Next]_db

=============================================================================
