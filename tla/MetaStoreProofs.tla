--------------------------- MODULE MetaStoreProofs ---------------------------
(***************************************************************************)
(* Proofs about MetaStore for any set of clusters, any number of           *)
(* overlapping transactions and any calls.                                 *)
(***************************************************************************)
EXTENDS MetaStore, TLAPS

(* serializeMeta returns a record of whole seconds that is not above its   *)
(* argument; refreshMeta returns a record above both of its arguments.     *)
LEMMA SerializeLemma ==
  ASSUME NEW m \in ClusterMetaRecord
  PROVE  /\ serializeMeta(m) \in ClusterMetaRecord
         /\ serializeMeta(m).timeout % Second = 0
         /\ serializeMeta(m).owner = m.owner
         /\ serializeMeta(m) # NoMeta
  BY MetaAssumption DEF serializeMeta, ClusterMetaRecord, Second

LEMMA RefreshLemma ==
  ASSUME NEW old \in ClusterMetaRecord, NEW new \in ClusterMetaRecord
  PROVE  refreshMeta(old, new) \in ClusterMetaRecord
  BY DEF refreshMeta, ClusterMetaRecord

(* Truncation is monotone and leaves a whole second where it is: a         *)
(* refreshed record is stored with a time that is neither below the stored *)
(* one nor below the truncated time of the refresh.                        *)
LEMMA RefreshedLease ==
  ASSUME NEW old \in ClusterMetaRecord, NEW new \in ClusterMetaRecord,
         old.timeout % Second = 0
  PROVE  /\ serializeMeta(refreshMeta(old, new)).timeout >= old.timeout
         /\ serializeMeta(refreshMeta(old, new)).timeout
              >= serializeMeta(new).timeout
  BY DEF serializeMeta, refreshMeta, ClusterMetaRecord, Second

(* Typing alone is inductive. *)
LEMMA TypeStep == TypeOK /\ [Next]_vars => TypeOK'
<1> SUFFICES ASSUME TypeOK, [Next]_vars PROVE TypeOK'
  OBVIOUS
<1> USE CallAssumption DEF TypeOK, Stored
<1>1. CASE UNCHANGED vars
  BY <1>1 DEF vars
<1>2. ASSUME NEW t \in Txn, Get(t) PROVE TypeOK'
  BY <1>2 DEF Get
<1>3. ASSUME NEW t \in Txn, Fail(t) PROVE TypeOK'
  BY <1>3 DEF Fail
<1>4. ASSUME NEW t \in Txn, NEW m \in ClusterMetaRecord, Commit(t, m)
      PROVE  TypeOK'
  <2>1. serializeMeta(m) \in ClusterMetaRecord
    BY SerializeLemma
  <2>2. QED
    BY <1>4, <2>1 DEF Commit
<1>5. ASSUME NEW t \in Txn, CreateClusterMeta(t) PROVE TypeOK'
  BY <1>4, <1>5 DEF CreateClusterMeta
<1>6. ASSUME NEW t \in Txn, UpdateClusterMeta(t) PROVE TypeOK'
  BY <1>4, <1>6, RefreshLemma DEF UpdateClusterMeta
<1>7. QED
  BY <1>1, <1>2, <1>3, <1>5, <1>6 DEF Next

(* Every variable keeps its type, for every value of the constants. *)
THEOREM TypeCorrect == Spec => []TypeOK
<1>1. Init => TypeOK
  BY DEF Init, TypeOK, Stored
<1>2. QED
  BY <1>1, TypeStep, PTL DEF Spec

(* What a commit writes is fit to be stored, and for a readable cluster it *)
(* is neither below the stored lease nor below the lease asked for.        *)
LEMMA CommitWrites ==
  ASSUME Inv, NEW t \in Txn, CreateClusterMeta(t) \/ UpdateClusterMeta(t)
  PROVE  \E m \in ClusterMetaRecord :
           /\ Commit(t, m)
           /\ status[t] = "open"
           /\ call[t].op = "create" /\ call[t].cid \notin Unreadable
                => db[call[t].cid] = NoMeta
           /\ call[t].cid \notin Unreadable =>
                /\ serializeMeta(m).timeout >= serializeMeta(call[t].meta).timeout
                /\ db[call[t].cid] # NoMeta =>
                     serializeMeta(m).timeout >= db[call[t].cid].timeout
<1> DEFINE new == call[t].meta
           old == snap[t]
<1>1. call[t] \in Call /\ new \in ClusterMetaRecord /\ call[t].cid \in Cluster
  BY CallAssumption DEF Inv, TypeOK
<1>2. serializeMeta(new).timeout \in Int
  BY <1>1, SerializeLemma DEF ClusterMetaRecord
<1>3. ~stale[t] /\ status[t] = "open"
  BY DEF CreateClusterMeta, UpdateClusterMeta, Commit
<1>4. call[t].cid \notin Unreadable => old = db[call[t].cid]
  BY <1>3 DEF Inv, SnapshotCurrent
<1>5. CASE CreateClusterMeta(t)
  <2>1. Commit(t, new)
    BY <1>5 DEF CreateClusterMeta
  <2>2. call[t].cid \notin Unreadable => db[call[t].cid] = NoMeta
    <3>1. db[call[t].cid] \in Stored
      BY <1>1 DEF Inv, TypeOK
    <3>2. QED
      BY <3>1, <1>4, <1>5, CallAssumption DEF CreateClusterMeta, Stored
  <2>3. QED
    BY <2>1, <2>2, <1>1, <1>2, <1>3
<1>6. CASE UpdateClusterMeta(t)
  <2>1. old \in ClusterMetaRecord
    BY <1>6 DEF UpdateClusterMeta, Inv, TypeOK, Stored
  <2>2. /\ Commit(t, refreshMeta(old, new))
        /\ call[t].op = "update"
    BY <1>6 DEF UpdateClusterMeta
  <2>3. refreshMeta(old, new) \in ClusterMetaRecord
    BY <2>1, <1>1, RefreshLemma
  <2>4. ASSUME call[t].cid \notin Unreadable
        PROVE  /\ serializeMeta(refreshMeta(old, new)).timeout
                    >= serializeMeta(new).timeout
               /\ serializeMeta(refreshMeta(old, new)).timeout
                    >= db[call[t].cid].timeout
    <3>1. old = db[call[t].cid] /\ old # NoMeta
      BY <2>4, <1>4, <2>1, MetaAssumption
    <3>2. old.timeout % Second = 0
      BY <3>1, <1>1 DEF Inv, WholeSeconds
    <3>3. QED
      BY <3>1, <3>2, <2>1, <1>1, RefreshedLease
  <2>5. QED
    BY <2>2, <2>3, <2>4, <1>3
<1>7. QED
  BY <1>5, <1>6

(* Inv is inductive.  SnapshotCurrent and WholeSeconds are what the two    *)
(* promises AckedLeaseKept and CreatedOnce lack to be inductive alone.     *)
LEMMA InvStep == Inv /\ [Next]_vars => Inv'
<1> SUFFICES ASSUME Inv, [Next]_vars PROVE Inv'
  OBVIOUS
<1>1. TypeOK /\ TypeOK'
  BY TypeStep DEF Inv
<1>2. CASE UNCHANGED vars
  BY <1>2 DEF vars, Inv, TypeOK, SnapshotCurrent, WholeSeconds, AckedLeaseKept,
              CreatedOnce
<1>3. ASSUME NEW t \in Txn, Get(t) PROVE Inv'
  <2>1. /\ UNCHANGED <<db, call, stale>> /\ status[t] = "new"
        /\ status' = [status EXCEPT ![t] = "open"]
        /\ \A u \in Txn : u # t => snap'[u] = snap[u]
        /\ \/ snap'[t] = db[call[t].cid]
           \/ snap'[t] = ReadError /\ call[t].cid \in Unreadable
    BY <1>1, <1>3 DEF Get, TypeOK
  <2>2. SnapshotCurrent'
    <3>1. \A u \in Txn : u # t => status'[u] = status[u]
      BY <1>1, <2>1 DEF TypeOK
    <3>2. QED
      BY <2>1, <3>1 DEF Inv, SnapshotCurrent
  <2>3. WholeSeconds'
    BY <2>1 DEF Inv, WholeSeconds
  <2>4. \A u \in Txn : status'[u] = "ok" => status[u] = "ok"
    BY <1>1, <2>1 DEF TypeOK
  <2>5. AckedLeaseKept' /\ CreatedOnce'
    BY <2>1, <2>4 DEF Inv, AckedLeaseKept, CreatedOnce
  <2>6. QED
    BY <1>1, <2>2, <2>3, <2>5 DEF Inv
<1>4. ASSUME NEW t \in Txn, Fail(t) PROVE Inv'
  <2>1. UNCHANGED <<db, call, snap, stale>> /\ status' = [status EXCEPT ![t] = "err"]
    BY <1>4 DEF Fail
  <2>2. \A u \in Txn : /\ status'[u] = "ok" => status[u] = "ok"
                       /\ status'[u] = "open" => status[u] = "open"
    BY <1>1, <2>1 DEF TypeOK
  <2>3. SnapshotCurrent' /\ WholeSeconds' /\ AckedLeaseKept' /\ CreatedOnce'
    BY <2>1, <2>2 DEF Inv, SnapshotCurrent, WholeSeconds, AckedLeaseKept, CreatedOnce
  <2>4. QED
    BY <1>1, <2>3 DEF Inv
<1>5. ASSUME NEW t \in Txn, CreateClusterMeta(t) \/ UpdateClusterMeta(t)
      PROVE  Inv'
  <2> DEFINE c == call[t].cid
  <2>1. PICK m \in ClusterMetaRecord :
           /\ Commit(t, m)
           /\ status[t] = "open"
           /\ call[t].op = "create" /\ c \notin Unreadable => db[c] = NoMeta
           /\ c \notin Unreadable =>
                /\ serializeMeta(m).timeout >= serializeMeta(call[t].meta).timeout
                /\ db[c] # NoMeta => serializeMeta(m).timeout >= db[c].timeout
    BY <1>5, CommitWrites
  <2> DEFINE s == serializeMeta(m)
  <2>2. s \in ClusterMetaRecord /\ s.timeout % Second = 0 /\ s # NoMeta /\ s.timeout \in Int
    BY SerializeLemma DEF ClusterMetaRecord
  <2>3. \A u \in Txn : /\ call[u].cid \in Cluster
                        /\ call[u].meta \in ClusterMetaRecord
                        /\ serializeMeta(call[u].meta).timeout \in Int
    BY <1>1, CallAssumption, SerializeLemma DEF TypeOK, ClusterMetaRecord
  <2>4. /\ UNCHANGED <<call, snap>>
        /\ db' = [db EXCEPT ![c] = s]
        /\ \A u \in Txn : u # t => status'[u] = status[u]
        /\ status'[t] \in {"ok", "err"}
        /\ \A u \in Txn : stale'[u] <=> stale[u] \/ (status[u] = "open" /\ u # t
                                                    /\ call[u].cid = c)
    BY <1>1, <2>1 DEF Commit, TypeOK
  <2> HIDE DEF s, c
  <2>5. /\ db'[c] = s
        /\ \A d \in Cluster : d # c => db'[d] = db[d]
    BY <1>1, <2>3, <2>4 DEF TypeOK, c
  <2>6. SnapshotCurrent'
    BY <2>3, <2>4, <2>5 DEF Inv, SnapshotCurrent
  <2>7. WholeSeconds'
    BY <2>2, <2>5 DEF Inv, WholeSeconds
  <2>8. AckedLeaseKept'
    <3> SUFFICES ASSUME NEW u \in Txn, status'[u] = "ok", call[u].cid \notin Unreadable
                 PROVE  /\ db'[call[u].cid] # NoMeta
                        /\ db'[call[u].cid].timeout
                             >= serializeMeta(call[u].meta).timeout
      BY <2>4 DEF AckedLeaseKept
    <3>1. CASE u = t
      BY <3>1, <2>1, <2>2, <2>5 DEF c, s
    <3>2. CASE u # t /\ call[u].cid = c
      <4>1. db[c] # NoMeta /\ db[c].timeout >= serializeMeta(call[u].meta).timeout
        BY <3>2, <2>4 DEF Inv, AckedLeaseKept
      <4>2. db[c].timeout \in Int
        BY <4>1, <1>1, <2>3 DEF TypeOK, Stored, ClusterMetaRecord, c
      <4>3. s.timeout >= db[c].timeout
        BY <3>2, <4>1, <2>1 DEF s, c
      <4>4. QED
        BY <3>2, <4>1, <4>2, <4>3, <2>2, <2>3, <2>5
    <3>3. CASE u # t /\ call[u].cid # c
      BY <3>3, <2>3, <2>4, <2>5 DEF Inv, AckedLeaseKept
    <3>4. QED
      BY <3>1, <3>2, <3>3
  <2>9. CreatedOnce'
    <3>1. ASSUME NEW u \in Txn, u # t, status[u] = "ok", call[u].cid = c,
                 c \notin Unreadable
          PROVE  call[t].op # "create"
      BY <3>1, <2>1 DEF Inv, AckedLeaseKept, c
    <3>2. QED
      BY <3>1, <2>4 DEF Inv, CreatedOnce, c
  <2>10. QED
    BY <1>1, <2>6, <2>7, <2>8, <2>9 DEF Inv
<1>6. QED
  BY <1>2, <1>3, <1>4, <1>5 DEF Next

LEMMA InvInit == Init => Inv
  BY DEF Init, Inv, TypeOK, Stored, SnapshotCurrent, WholeSeconds, AckedLeaseKept,
         CreatedOnce

(* An open transaction that has not been overtaken sees the store as it    *)
(* is, and every stored time is a whole second.                            *)
THEOREM InvAlways == Spec => []Inv
  BY InvInit, InvStep, PTL DEF Spec

(* An acknowledged create or refresh is never undone by an overlapping     *)
(* call, however many there are.                                           *)
THEOREM AckedLeaseKeptAlways == Spec => []AckedLeaseKept
  BY InvAlways, PTL DEF Inv

(* A cluster id is handed out at most once. *)
THEOREM CreatedOnceAlways == Spec => []CreatedOnce
  BY InvAlways, PTL DEF Inv

(* One step of the transactions never brings a lease forward. *)
LEMMA LeaseStep ==
  ASSUME Inv, [Next]_vars, NEW c \in Cluster \ Unreadable, db[c] # NoMeta
  PROVE  db'[c] # NoMeta /\ db'[c].timeout >= db[c].timeout
<1>1. db[c].timeout \in Int
  BY DEF Inv, TypeOK, Stored, ClusterMetaRecord
<1>2. CASE db' = db
  BY <1>1, <1>2
<1>3. ASSUME NEW t \in Txn, CreateClusterMeta(t) \/ UpdateClusterMeta(t)
      PROVE  db'[c] # NoMeta /\ db'[c].timeout >= db[c].timeout
  <2>1. PICK m \in ClusterMetaRecord :
           /\ Commit(t, m)
           /\ call[t].cid \notin Unreadable /\ db[call[t].cid] # NoMeta =>
                serializeMeta(m).timeout >= db[call[t].cid].timeout
    BY <1>3, CommitWrites
  <2>2. serializeMeta(m) # NoMeta
    BY SerializeLemma
  <2>3. db' = [db EXCEPT ![call[t].cid] = serializeMeta(m)]
    BY <2>1 DEF Commit
  <2>4. QED
    BY <1>1, <2>1, <2>2, <2>3 DEF Inv, TypeOK
<1>4. QED
  BY <1>2, <1>3 DEF Next, Get, Fail, vars

(* Refreshes only extend: no transaction brings an expiry time forward or  *)
(* removes a record that badger can read.                                  *)
THEOREM LeaseNeverShrinksAlways == Spec => LeaseNeverShrinks
<1>1. Inv /\ [Next]_vars =>
        [\A c \in Cluster \ Unreadable : db[c] # NoMeta =>
           db'[c] # NoMeta /\ db'[c].timeout >= db[c].timeout]_vars
  BY LeaseStep
<1>2. QED
  BY <1>1, InvAlways, PTL DEF Spec, LeaseNeverShrinks

(* Every transaction that commits takes effect as one atomic operation of  *)
(* the registry on the record stored at that moment.                       *)
LEMMA RegistryStep ==
  ASSUME Inv, [Next]_vars
  PROVE  [Registry!Next]_db
<1> DEFINE Rec == {k.meta : k \in Call}
<1>1. CASE db' = db
  BY <1>1
<1>2. ASSUME NEW t \in Txn PROVE call[t].cid \in Cluster /\ call[t].meta \in Rec
  BY CallAssumption DEF Inv, TypeOK
<1>3. ASSUME NEW t \in Txn, CreateClusterMeta(t) PROVE Registry!Next
  <2>1. db[call[t].cid] = NoMeta \/ call[t].cid \in Unreadable
    <3>1. status[t] = "open" /\ ~stale[t] /\ snap[t] \in {NoMeta, ReadError}
      BY <1>3 DEF CreateClusterMeta, Commit
    <3>2. db[call[t].cid] \in Stored
      BY <1>2 DEF Inv, TypeOK
    <3>3. QED
      BY <3>1, <3>2, CallAssumption DEF Inv, SnapshotCurrent, Stored
  <2>2. Registry!Register(call[t].cid, call[t].meta)
    BY <1>3, <2>1 DEF CreateClusterMeta, Commit, Registry!Register,
                      Registry!serializeMeta, serializeMeta, Registry!Second, Second
  <2>3. QED
    BY <1>2, <2>2 DEF Registry!Next
<1>4. ASSUME NEW t \in Txn, UpdateClusterMeta(t) PROVE Registry!Next
  <2>1. snap[t] = db[call[t].cid] /\ snap[t] # NoMeta
    BY <1>4 DEF UpdateClusterMeta, Commit, Inv, SnapshotCurrent
  <2>2. db' = [db EXCEPT ![call[t].cid] =
                  serializeMeta(refreshMeta(db[call[t].cid], call[t].meta))]
    BY <1>4, <2>1 DEF UpdateClusterMeta, Commit
  <2>3. Registry!Refresh(call[t].cid, call[t].meta)
    BY <2>1, <2>2 DEF Registry!Refresh, Registry!serializeMeta, serializeMeta,
         Registry!refreshMeta, refreshMeta, Registry!Second, Second
  <2>4. QED
    BY <1>2, <2>3 DEF Registry!Next
<1>5. QED
  BY <1>1, <1>3, <1>4 DEF Next, Get, Fail, vars

(* The store at transaction granularity implements the atomic registry     *)
(* that the rest of the daemon is modelled with.                           *)
THEOREM RegistryRefinement == Spec => ImplementsRegistry
<1>1. Init => Registry!Init
  BY DEF Init, Registry!Init
<1>2. Inv /\ [Next]_vars => [Registry!Next]_db
  BY RegistryStep
<1>3. QED
  BY <1>1, <1>2, InvAlways, PTL DEF Spec, ImplementsRegistry, Registry!Spec

=============================================================================
