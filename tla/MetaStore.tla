------------------------------ MODULE MetaStore ------------------------------
(***************************************************************************)
(* MetaDataStore (daemon/metadata.go) at the granularity of its badger     *)
(* transactions.  Every request handler runs in a goroutine of its own, so *)
(* several db.Update calls are open at the same time, each reading from    *)
(* the snapshot taken when it began; badger refuses the commit of one that *)
(* read a key written since.                                               *)
(***************************************************************************)
EXTENDS ClusterMeta

CONSTANTS
  Txn,        \* one element per call of CreateClusterMeta or UpdateClusterMeta
  Call,       \* the calls that may be made
  ReadError   \* txn.Get returned an error other than "key not found"

ASSUME CallAssumption ==
  /\ Call \subseteq [op : {"create", "update"}, cid : Cluster, meta : ClusterMetaRecord]
  /\ ReadError \notin ClusterMetaRecord \cup {NoMeta}

VARIABLES
  db,        \* badger's committed contents
  call,      \* what each transaction was asked to do
  status,    \* "new", "open", "ok" or "err"
  snap,      \* what txn.Get returned
  stale      \* badger: the key was committed to after the snapshot

vars == <<db, call, status, snap, stale>>

Stored == ClusterMetaRecord \cup {NoMeta}

Init ==
  /\ db = [c \in Cluster |-> NoMeta]
  /\ call \in [Txn -> Call]
  /\ status = [t \in Txn |-> "new"]
  /\ snap = [t \in Txn |-> NoMeta]
  /\ stale = [t \in Txn |-> FALSE]

(* db.Update starts a transaction and the closure's txn.Get reads its      *)
(* snapshot.                                                               *)
Get(t) ==
  /\ status[t] = "new"
  /\ status' = [status EXCEPT ![t] = "open"]
  /\ \/ snap' = [snap EXCEPT ![t] = db[call[t].cid]]
     \/ call[t].cid \in Unreadable /\ snap' = [snap EXCEPT ![t] = ReadError]
  /\ UNCHANGED <<db, call, stale>>

(* Mutant: no conflict detection, as with a View followed by an Update.    *)
CommitBlind(t, m) ==
  /\ db' = [db EXCEPT ![call[t].cid] = serializeMeta(m)]
  /\ status' = [status EXCEPT ![t] = "ok"]
  /\ UNCHANGED <<call, snap, stale>>

(* txn.Set and the commit, which marks every other open transaction that   *)
(* has read the same key.  The caller is told "ok", unless the daemon dies *)
(* (or the disk reports an error) once the record is on disk.              *)
Commit(t, m) ==
  /\ ~stale[t]
  /\ db' = [db EXCEPT ![call[t].cid] = serializeMeta(m)]
  /\ stale' = [u \in Txn |-> stale[u] \/ (status[u] = "open" /\ u # t
                                             /\ call[u].cid = call[t].cid)]
  /\ \E reply \in {"ok", "err"} : status' = [status EXCEPT ![t] = reply]
  /\ UNCHANGED <<call, snap>>

(* The closure returned an error ("already existed", no record to update), *)
(* the commit did (ErrConflict, the disk), or the daemon died with the     *)
(* transaction open.  Nothing was written.                                 *)
Fail(t) ==
  /\ status[t] = "open"
  /\ status' = [status EXCEPT ![t] = "err"]
  /\ UNCHANGED <<db, call, snap, stale>>

(* Mutant: an existing record is replaced.                                 *)
CreateClusterMetaUnchecked(t) ==
  /\ status[t] = "open" /\ call[t].op = "create"
  /\ Commit(t, call[t].meta)

(* "err == nil" is the only outcome of the read that refuses the record.   *)
CreateClusterMeta(t) ==
  /\ status[t] = "open" /\ call[t].op = "create"
  /\ snap[t] \in {NoMeta, ReadError}
  /\ Commit(t, call[t].meta)

(* Mutant: the record is replaced without the caller's closure.            *)
UpdateClusterMetaBlind(t) ==
  /\ status[t] = "open" /\ call[t].op = "update"
  /\ snap[t] \notin {NoMeta, ReadError}
  /\ Commit(t, call[t].meta)

UpdateClusterMeta(t) ==
  /\ status[t] = "open" /\ call[t].op = "update"
  /\ snap[t] \notin {NoMeta, ReadError}
  /\ Commit(t, refreshMeta(snap[t], call[t].meta))

Next ==
  \E t \in Txn : Get(t) \/ CreateClusterMeta(t) \/ UpdateClusterMeta(t) \/ Fail(t)

Spec == Init /\ [][Next]_vars

-----------------------------------------------------------------------------

TypeOK ==
  /\ db \in [Cluster -> Stored]
  /\ call \in [Txn -> Call]
  /\ status \in [Txn -> {"new", "open", "ok", "err"}]
  /\ snap \in [Txn -> Stored \cup {ReadError}]
  /\ stale \in [Txn -> BOOLEAN]

(* A call that reported success keeps its effect: whatever transactions    *)
(* overlapped it, the cluster stays registered at least until the time it  *)
(* was asked for (to the second).  A lost update of concurrent refreshes   *)
(* would break it.                                                         *)
AckedLeaseKept ==
  \A t \in Txn : status[t] = "ok" /\ call[t].cid \notin Unreadable =>
    /\ db[call[t].cid] # NoMeta
    /\ db[call[t].cid].timeout >= serializeMeta(call[t].meta).timeout

(* Two calls of CreateClusterMeta never both succeed for one cluster id:   *)
(* a random id drawn twice is refused, even when the two allocations       *)
(* overlap.                                                                *)
CreatedOnce ==
  \A t, u \in Txn :
    /\ status[t] = "ok" /\ call[t].op = "create"
    /\ status[u] = "ok" /\ call[u].op = "create"
    /\ call[t].cid = call[u].cid /\ call[t].cid \notin Unreadable
    => t = u

(* A refresh never brings an expiry forward, and no record disappears.     *)
LeaseNeverShrinks ==
  [][\A c \in Cluster \ Unreadable : db[c] # NoMeta =>
        db'[c] # NoMeta /\ db'[c].timeout >= db[c].timeout]_vars

(* The transactions implement the atomic registry.                         *)
Registry == INSTANCE MetaRegistry WITH Record <- {k.meta : k \in Call}
ImplementsRegistry == Registry!Spec

-----------------------------------------------------------------------------
(* The inductive invariant. *)

(* Until badger marks an open transaction, what it read is what the store  *)
(* still holds: the commit is as good as an atomic read and write.         *)
SnapshotCurrent ==
  \A t \in Txn : status[t] = "open" /\ ~stale[t] =>
    snap[t] = db[call[t].cid]
      \/ (snap[t] = ReadError /\ call[t].cid \in Unreadable)

(* Stored times are whole seconds, so truncating a refreshed time never    *)
(* moves it below the stored one.                                          *)
WholeSeconds ==
  \A c \in Cluster : db[c] # NoMeta => db[c].timeout % Second = 0

(* With these two, what AckedLeaseKept and CreatedOnce say is preserved by *)
(* every commit.                                                           *)
Inv == TypeOK /\ SnapshotCurrent /\ WholeSeconds /\ AckedLeaseKept /\ CreatedOnce

=============================================================================
