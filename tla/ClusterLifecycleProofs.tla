----------------------- MODULE ClusterLifecycleProofs -----------------------
(***************************************************************************)
(* Proofs about ClusterLifecycle for any number of clusters, nodes, users  *)
(* and requests, any lease lengths and any number of crashes.              *)
(***************************************************************************)
EXTENDS ClusterLifecycle, TLAPS

(* One entry of a table of tables is changed. *)
LEMMA NestedUpdate ==
  ASSUME NEW A, NEW B, NEW V, NEW f \in [A -> [B -> V]], NEW a \in A, NEW b \in B, NEW v \in V,
         NEW g, g = [f EXCEPT ![a][b] = v]
  PROVE  /\ g \in [A -> [B -> V]]
         /\ \A x \in A, y \in B : g[x][y] = IF x = a /\ y = b THEN v ELSE f[x][y]
  OBVIOUS

(* A stored record is a record, with the owner it was given.               *)
LEMMA StoredRecord ==
  ASSUME NEW m \in ClusterMetaRecord
  PROVE  /\ serializeMeta(m) \in ClusterMetaRecord
         /\ serializeMeta(m).owner = m.owner
         /\ serializeMeta(m) # NoMeta
  BY MetaAssumption DEF serializeMeta, ClusterMetaRecord, Second

LEMMA RefreshedRecord ==
  ASSUME NEW old \in ClusterMetaRecord, NEW new \in ClusterMetaRecord
  PROVE  /\ refreshMeta(old, new) \in ClusterMetaRecord
         /\ refreshMeta(old, new).owner = new.owner
  BY DEF refreshMeta, ClusterMetaRecord

LEMMA ConstantTypes ==
  /\ Lease \in Int /\ MaxTime \in Int /\ FarFuture \in Int /\ MaxTime < FarFuture
  /\ NoOwner \in Owner /\ User \subseteq Owner
  BY MetaAssumption, LifecycleAssumption DEF Owner

(* The fields of a request.                                                *)
LEMMA RequestFields ==
  ASSUME TypeOK, NEW r \in Req
  PROVE  /\ req[r] \in Request
         /\ req[r].op \in {"alloc", "refresh", "kill"} /\ req[r].user \in Owner
         /\ req[r].admin \in BOOLEAN /\ req[r].cid \in Cluster
         /\ req[r].size \in Nat /\ req[r].dur \in Int
         /\ cid(r) = req[r].cid
         /\ req[r].op = "alloc" => cid(r) \notin Legacy
  BY LifecycleAssumption DEF TypeOK, cid

LEMMA ThreadCluster ==
  ASSUME TypeOK, NEW t \in Thread
  PROVE  cid(t) \in Cluster /\ (t \in Req \/ (t \in Cluster /\ t \notin Req /\ cid(t) = t))
  BY RequestFields, LifecycleAssumption DEF cid, Thread

LEMMA NewMetaType ==
  ASSUME TypeOK, NEW r \in Req
  PROVE  newMeta(r) \in ClusterMetaRecord /\ newMeta(r).owner = req[r].user
  BY RequestFields DEF newMeta, ClusterMetaRecord, TypeOK

(* GetClusterMeta returns records. *)
LEMMA GetClusterMetaType ==
  ASSUME TypeOK, NEW c \in Cluster, NEW g \in GetClusterMeta(c)
  PROVE  g.rec \in ClusterMetaRecord /\ g.err \in BOOLEAN
<1>1. DEFAULT_CLUSTER_META \in ClusterMetaRecord /\ ZERO_CLUSTER_META \in ClusterMetaRecord
  BY ConstantTypes DEF DEFAULT_CLUSTER_META, ZERO_CLUSTER_META, ClusterMetaRecord
<1>2. meta[c] # NoMeta => meta[c] \in ClusterMetaRecord
  BY DEF TypeOK
<1> DEFINE stored == [err |-> meta[c] = NoMeta,
                      rec |-> IF meta[c] = NoMeta THEN DEFAULT_CLUSTER_META ELSE meta[c]]
<1>3. \/ g = stored
      \/ g = [err |-> TRUE, rec |-> DEFAULT_CLUSTER_META]
      \/ g = [err |-> FALSE, rec |-> ZERO_CLUSTER_META]
  BY Zenon DEF GetClusterMeta
<1>4. CASE g = stored
  BY <1>1, <1>2, <1>4
<1>5. CASE g = [err |-> TRUE, rec |-> DEFAULT_CLUSTER_META]
  BY <1>1, <1>5
<1>6. CASE g = [err |-> FALSE, rec |-> ZERO_CLUSTER_META]
  BY <1>1, <1>6
<1>7. QED
  BY <1>3, <1>4, <1>5, <1>6

(* A step changes the state of one container. *)
LEMMA ContainerUpdate ==
  ASSUME TypeOK, NEW c \in Cluster, NEW s \in Slot, NEW v \in ContainerState,
         cont' = [cont EXCEPT ![c][s] = v]
  PROVE  /\ cont' \in [Cluster -> [Slot -> ContainerState]]
         /\ \A d \in Cluster, z \in Slot :
              cont'[d][z] = IF d = c /\ z = s THEN v ELSE cont[d][z]
  BY NestedUpdate DEF TypeOK

LEMMA TypeStep == TypeOK /\ [Next]_vars => TypeOK'
<1> SUFFICES ASSUME TypeOK, [Next]_vars PROVE TypeOK'
  OBVIOUS
<1> USE DEF Goto, At, docker, thread, cleanup, process, Place, NodePlace, ContainerState
<1>1. CASE UNCHANGED vars
  BY <1>1 DEF vars, TypeOK
<1>2. ASSUME NEW r \in Req, Reject(r) PROVE TypeOK'
  BY <1>2 DEF Reject, TypeOK
<1>3. ASSUME NEW r \in Req, AllocateCluster(r) PROVE TypeOK'
  <2>1. now + Lease \in Int
    BY ConstantTypes DEF TypeOK
  <2>2. QED
    BY <1>3, <2>1 DEF AllocateCluster, TypeOK
<1>4. ASSUME NEW r \in Req, CreateMeta(r) PROVE TypeOK'
  <2>1. serializeMeta([owner |-> req[r].user, timeout |-> lease[r]]) \in ClusterMetaRecord
    BY RequestFields, StoredRecord DEF ClusterMetaRecord, TypeOK
  <2>2. QED
    <3>1. meta' \in [Cluster -> ClusterMetaRecord \cup {NoMeta}]
      BY <1>4, <2>1 DEF CreateMeta, TypeOK
    <3>2. pc' \in [Thread -> Place]
      BY <1>4 DEF CreateMeta, TypeOK
    <3>3. QED
      BY <1>4, <3>1, <3>2 DEF CreateMeta, TypeOK
<1>5. ASSUME NEW r \in Req, EnsureImage(r) PROVE TypeOK'
  <2>1. gor' \in [Req -> [Slot -> NodePlace]]
    BY <1>5 DEF EnsureImage, TypeOK
  <2>2. pc' \in [Thread -> Place]
    BY <1>5 DEF EnsureImage, TypeOK
  <2>3. QED
    BY <1>5, <2>1, <2>2 DEF EnsureImage, TypeOK
<1>6. ASSUME NEW r \in Req, NEW s \in Slot, CreateNode(r, s) PROVE TypeOK'
  <2>1. PICK g \in NodePlace : gor' = [gor EXCEPT ![r][s] = g]
    BY <1>6 DEF CreateNode
  <2>2. gor' \in [Req -> [Slot -> NodePlace]]
    BY <2>1, NestedUpdate DEF TypeOK
  <2>3. cont' = cont \/ cont' = [cont EXCEPT ![cid(r)][s] = "created"]
    BY <1>6 DEF CreateNode
  <2>4. cont' \in [Cluster -> [Slot -> ContainerState]]
    <3>1. CASE cont' = cont
      BY <3>1 DEF TypeOK
    <3>2. CASE cont' = [cont EXCEPT ![cid(r)][s] = "created"]
      BY <3>2, RequestFields, ContainerUpdate
    <3>3. QED
      BY <2>3, <3>1, <3>2
  <2>5. creator' \in [Cluster -> Owner]
    BY <1>6, RequestFields DEF CreateNode, TypeOK
  <2>6. QED
    BY <1>6, <2>2, <2>4, <2>5 DEF CreateNode, TypeOK
<1>7. ASSUME NEW r \in Req, NEW s \in Slot, StartNode(r, s) PROVE TypeOK'
  <2>1. PICK g \in NodePlace : gor' = [gor EXCEPT ![r][s] = g]
    BY <1>7 DEF StartNode
  <2>2. gor' \in [Req -> [Slot -> NodePlace]]
    BY <2>1, NestedUpdate DEF TypeOK
  <2>3. \/ cont' = cont
        \/ cont' = [cont EXCEPT ![cid(r)][s] = "running"]
        \/ cont' = [cont EXCEPT ![cid(r)][s] = "none"]
    BY <1>7 DEF StartNode
  <2>4. cont' \in [Cluster -> [Slot -> ContainerState]]
    <3>1. CASE cont' = cont
      BY <3>1 DEF TypeOK
    <3>2. CASE cont' = [cont EXCEPT ![cid(r)][s] = "running"]
      BY <3>2, RequestFields, ContainerUpdate
    <3>3. CASE cont' = [cont EXCEPT ![cid(r)][s] = "none"]
      BY <3>3, RequestFields, ContainerUpdate
    <3>4. QED
      BY <2>3, <3>1, <3>2, <3>3
  <2>5. QED
    BY <1>7, <2>2, <2>4 DEF StartNode, TypeOK
<1>8. ASSUME NEW r \in Req, NEW s \in Slot, InspectNode(r, s) PROVE TypeOK'
  BY <1>8 DEF InspectNode, TypeOK
<1>9. ASSUME NEW r \in Req, CollectNodes(r) PROVE TypeOK'
  BY <1>9 DEF CollectNodes, TypeOK
<1>10. ASSUME NEW r \in Req, KillCluster(r) PROVE TypeOK'
  BY <1>10 DEF KillCluster, TypeOK
<1>11. ASSUME NEW t \in Thread, ListNodes(t) PROVE TypeOK'
  BY <1>11 DEF ListNodes, Nodes, TypeOK, Allocating
<1>12. ASSUME NEW t \in Thread, ListFails(t) PROVE TypeOK'
  BY <1>12 DEF ListFails, Returned, TypeOK
<1>13. ASSUME NEW t \in Thread, CheckOwner(t) PROVE TypeOK'
  BY <1>13 DEF CheckOwner, Returned, TypeOK
<1>14. ASSUME NEW t \in Thread, NEW s \in Slot, StopNode(t, s) PROVE TypeOK'
  <2>1. cont' \in [Cluster -> [Slot -> ContainerState]]
    <3>1. \/ cont' = cont
          \/ cont' = [cont EXCEPT ![cid(t)][s] = "exited"]
          \/ cont' = [cont EXCEPT ![cid(t)][s] = cont[cid(t)][s]]
      BY <1>14 DEF StopNode
    <3>2. cid(t) \in Cluster /\ cont[cid(t)][s] \in ContainerState
      BY ThreadCluster DEF TypeOK
    <3>3. CASE cont' = cont
      BY <3>3 DEF TypeOK
    <3>4. CASE cont' = [cont EXCEPT ![cid(t)][s] = "exited"]
      BY <3>2, <3>4, ContainerUpdate
    <3>5. CASE cont' = [cont EXCEPT ![cid(t)][s] = cont[cid(t)][s]]
      BY <3>2, <3>5, ContainerUpdate
    <3>6. QED
      BY <3>1, <3>3, <3>4, <3>5
  <2>2. todo' \in [Thread -> SUBSET Slot] /\ failed' \in [Thread -> BOOLEAN]
    BY <1>14 DEF StopNode, TypeOK
  <2>3. QED
    BY <1>14, <2>1, <2>2 DEF StopNode, TypeOK
<1>15. ASSUME NEW t \in Thread, KillReturns(t) PROVE TypeOK'
  BY <1>15 DEF KillReturns, Returned, TypeOK
<1>16. ASSUME NEW r \in Req, RefreshCluster(r) PROVE TypeOK'
  BY <1>16 DEF RefreshCluster, TypeOK
<1>17. ASSUME NEW r \in Req, RefreshLookup(r) PROVE TypeOK'
  <2>1. lease' \in [Req -> Int]
    <3>1. now + req[r].dur \in Int
      BY RequestFields DEF TypeOK
    <3>2. QED
      BY <1>17, <3>1 DEF RefreshLookup, TypeOK
  <2>2. pc' \in [Thread -> Place]
    BY <1>17 DEF RefreshLookup, TypeOK
  <2>3. QED
    BY <1>17, <2>1, <2>2 DEF RefreshLookup, TypeOK
<1>18. ASSUME NEW r \in Req, RefreshInsert(r) PROVE TypeOK'
  BY <1>18, NewMetaType, StoredRecord DEF RefreshInsert, TypeOK
<1>19. ASSUME NEW r \in Req, RefreshExtend(r) PROVE TypeOK'
  <2>1. cid(r) \in Cluster /\ meta[cid(r)] \in ClusterMetaRecord
    BY <1>19, RequestFields DEF RefreshExtend, TypeOK
  <2>2. serializeMeta(refreshMeta(meta[cid(r)], newMeta(r))) \in ClusterMetaRecord
    BY <2>1, NewMetaType, StoredRecord, RefreshedRecord
  <2>3. QED
    BY <1>19, <2>1, <2>2 DEF RefreshExtend, TypeOK
<1>20. ASSUME NEW r \in Req, RefreshFails(r) PROVE TypeOK'
  BY <1>20 DEF RefreshFails, TypeOK
<1>21. CASE CleanupList
  BY <1>21 DEF CleanupList, TypeOK
<1>22. ASSUME NEW c \in Cluster, CleanupRead(c) PROVE TypeOK'
  BY <1>22, GetClusterMetaType DEF CleanupRead, TypeOK, ClusterMetaRecord
<1>23. CASE CleanupSpawn
  BY <1>23, MetaAssumption DEF CleanupSpawn, TypeOK
<1>24. CASE CleanupDone
  BY <1>24 DEF CleanupDone, TypeOK
<1>25. ASSUME NEW c \in Cluster, NEW s \in Slot, AutoRemove(c, s) PROVE TypeOK'
  BY <1>25 DEF AutoRemove, TypeOK
<1>26. CASE Tick
  BY <1>26 DEF Tick, TypeOK
<1>27. CASE Crash
  <2>1. pc' \in [Thread -> Place]
    BY <1>27 DEF Crash, TypeOK
  <2>2. gor' \in [Req -> [Slot -> NodePlace]]
    BY <1>27 DEF Crash
  <2>3. /\ todo' \in [Thread -> SUBSET Slot] /\ failed' \in [Thread -> BOOLEAN]
        /\ expiry' \in [Cluster -> Int] /\ raced' \in [Cluster -> BOOLEAN]
    BY <1>27, ConstantTypes DEF Crash
  <2>4. up' = FALSE /\ crashes' = crashes + 1 /\ cleaner' = "sleep" /\ unread' = {}
    BY <1>27 DEF Crash
  <2>5. crashes' \in Nat
    BY <2>4 DEF TypeOK
  <2>6. QED
    BY <1>27, <2>1, <2>2, <2>3, <2>4, <2>5 DEF Crash, TypeOK
<1>28. CASE Restart
  BY <1>28 DEF Restart, TypeOK
<1>29. QED
  BY <1>1, <1>2, <1>3, <1>4, <1>5, <1>6, <1>7, <1>8, <1>9, <1>10, <1>11, <1>12, <1>13,
     <1>14, <1>15, <1>16, <1>17, <1>18, <1>19, <1>20, <1>21, <1>22, <1>23, <1>24,
     <1>25, <1>26, <1>27, <1>28 DEF Next, RequestStep, KillStep, CleanupStep

(* Every variable keeps its type. *)
THEOREM TypeCorrect == Spec => []TypeOK
<1>1. Init => TypeOK
  BY ConstantTypes DEF Init, TypeOK, Place, NodePlace, ContainerState
<1>2. QED
  BY <1>1, TypeStep, PTL DEF Spec

-----------------------------------------------------------------------------
(* Threads. *)

LEMMA ThreadKinds ==
  /\ Req \subseteq Thread /\ Cluster \subseteq Thread
  /\ \A t \in Thread : t \in Req \/ t \in Cluster
  /\ \A t \in Req : t \notin Cluster
  BY LifecycleAssumption DEF Thread

LEMMA GotoStep ==
  ASSUME TypeOK, NEW t \in Thread, NEW l, Goto(t, l)
  PROVE  pc'[t] = l /\ \A u \in Thread : u # t => pc'[u] = pc[u]
  BY DEF Goto, TypeOK

(* No step changes what a request asks for. *)
LEMMA RequestsFixed ==
  ASSUME [Next]_vars PROVE req' = req
<1>1. ASSUME NEW r \in Req, RequestStep(r) PROVE req' = req
  BY <1>1 DEF RequestStep, Reject, AllocateCluster, CreateMeta, EnsureImage, CreateNode,
              StartNode, InspectNode, CollectNodes, KillCluster, RefreshCluster,
              RefreshLookup, RefreshInsert, RefreshExtend, RefreshFails
<1>2. ASSUME NEW t \in Thread, KillStep(t) PROVE req' = req
  BY <1>2 DEF KillStep, ListNodes, ListFails, CheckOwner, StopNode, KillReturns
<1>3. CASE CleanupStep
  BY <1>3 DEF CleanupStep, CleanupList, CleanupRead, CleanupSpawn, CleanupDone, thread
<1>4. CASE Tick \/ Crash \/ Restart \/ UNCHANGED vars
           \/ \E c \in Cluster, s \in Slot : AutoRemove(c, s)
  BY <1>4 DEF Tick, Crash, Restart, AutoRemove, vars, thread
<1>5. QED
  BY <1>1, <1>2, <1>3, <1>4 DEF Next

LEMMA AwaitedStep ==
  ASSUME TypeOK, GoroutinesAwaited, [Next]_vars
  PROVE  GoroutinesAwaited'
<1> USE ThreadKinds DEF GoroutinesAwaited, At
<1>1. ASSUME NEW r \in Req, EnsureImage(r) \/ CollectNodes(r) PROVE GoroutinesAwaited'
  <2>1. /\ \A q \in Req : q # r => pc'[q] = pc[q] /\ gor'[q] = gor[q]
        /\ \/ pc'[r] = "nodes"
           \/ pc[r] = "image" /\ gor' = gor
           \/ \A s \in Slot : gor'[r][s] = "none"
    BY <1>1, GotoStep DEF EnsureImage, CollectNodes, TypeOK
  <2>2. QED
    BY <2>1
<1>2. ASSUME NEW r \in Req, NEW s \in Slot,
             CreateNode(r, s) \/ StartNode(r, s) \/ InspectNode(r, s)
      PROVE  GoroutinesAwaited'
  <2>1. pc' = pc /\ gor[r][s] # "none"
    BY <1>2 DEF CreateNode, StartNode, InspectNode
  <2>2. \A q \in Req, z \in Slot : q # r \/ z # s => gor'[q][z] = gor[q][z]
    BY <1>2 DEF CreateNode, StartNode, InspectNode, TypeOK
  <2>3. QED
    BY <2>1, <2>2
<1>3. ASSUME NEW r \in Req,
             Reject(r) \/ AllocateCluster(r) \/ CreateMeta(r) \/ KillCluster(r)
               \/ RefreshCluster(r) \/ RefreshLookup(r) \/ RefreshInsert(r)
               \/ RefreshExtend(r) \/ RefreshFails(r)
      PROVE  GoroutinesAwaited'
  BY <1>3, GotoStep DEF Reject, AllocateCluster, CreateMeta, KillCluster, RefreshCluster,
                        RefreshLookup, RefreshInsert, RefreshExtend, RefreshFails
<1>4. ASSUME NEW t \in Thread, KillStep(t) PROVE GoroutinesAwaited'
  <2>1. gor' = gor /\ (pc' = pc \/ (pc[t] # "nodes" /\ \A u \in Thread : u # t => pc'[u] = pc[u]))
    BY <1>4, GotoStep DEF KillStep, ListNodes, ListFails, CheckOwner, StopNode,
                          KillReturns, Returned
  <2>2. QED
    BY <2>1
<1>5. CASE CleanupStep
  BY <1>5 DEF CleanupStep, CleanupList, CleanupRead, CleanupSpawn, CleanupDone, thread
<1>6. CASE Crash
  BY <1>6 DEF Crash
<1>7. CASE Tick \/ Restart \/ UNCHANGED vars
           \/ \E c \in Cluster, s \in Slot : AutoRemove(c, s)
  BY <1>7 DEF Tick, Restart, vars, AutoRemove, thread
<1>8. QED
  BY <1>1, <1>2, <1>3, <1>4, <1>5, <1>6, <1>7 DEF Next, RequestStep

(* Only an allocation at these places can still add nodes. *)
LEMMA AllocatingPlaces ==
  ASSUME GoroutinesAwaited, NEW c \in Cluster
  PROVE  Allocating(c) <=> \E r \in Req : /\ req[r].op = "alloc" /\ req[r].cid = c
                                        /\ pc[r] \in {"image", "nodes"}
  BY DEF Allocating, GoroutinesAwaited

LEMMA PhaseStep ==
  ASSUME TypeOK, PhaseOK, [Next]_vars
  PROVE  PhaseOK'
<1>0. GoroutinesAwaited'
  BY AwaitedStep DEF PhaseOK
<1> USE ThreadKinds, RequestsFixed, <1>0 DEF PhaseOK, At, cleanup
<1>1. CASE UNCHANGED vars
  BY <1>1 DEF vars, thread
<1>2. ASSUME NEW r \in Req, Reject(r) PROVE PhaseOK'
  BY <1>2, GotoStep DEF Reject
<1>3. ASSUME NEW r \in Req, AllocateCluster(r) PROVE PhaseOK'
  BY <1>3, GotoStep DEF AllocateCluster
<1>4. ASSUME NEW r \in Req, CreateMeta(r) PROVE PhaseOK'
  BY <1>4, GotoStep DEF CreateMeta
<1>5. ASSUME NEW r \in Req, EnsureImage(r) PROVE PhaseOK'
  BY <1>5, GotoStep DEF EnsureImage
<1>6. ASSUME NEW r \in Req, NEW s \in Slot,
             CreateNode(r, s) \/ StartNode(r, s) \/ InspectNode(r, s)
      PROVE  PhaseOK'
  BY <1>6 DEF CreateNode, StartNode, InspectNode
<1>7. ASSUME NEW r \in Req, CollectNodes(r) PROVE PhaseOK'
  BY <1>7, GotoStep DEF CollectNodes
<1>8. ASSUME NEW r \in Req, KillCluster(r) PROVE PhaseOK'
  BY <1>8, GotoStep DEF KillCluster
<1>9. ASSUME NEW t \in Thread, ListNodes(t) PROVE PhaseOK'
  BY <1>9, GotoStep DEF ListNodes
<1>10. ASSUME NEW t \in Thread, ListFails(t) PROVE PhaseOK'
  BY <1>10, GotoStep DEF ListFails, Returned
<1>11. ASSUME NEW t \in Thread, CheckOwner(t) PROVE PhaseOK'
  BY <1>11, GotoStep DEF CheckOwner, Returned
<1>12. ASSUME NEW t \in Thread, NEW s \in Slot, StopNode(t, s) PROVE PhaseOK'
  BY <1>12 DEF StopNode, TypeOK
<1>13. ASSUME NEW t \in Thread, KillReturns(t) PROVE PhaseOK'
  <2>1. failed'[t] = FALSE /\ \A u \in Thread : u # t => failed'[u] = failed[u]
    BY <1>13 DEF KillReturns, TypeOK
  <2>2. /\ \A u \in Thread : u # t => pc'[u] = pc[u]
        /\ pc[t] = "stop" /\ cleaner' = cleaner
        /\ t \in Cluster => pc'[t] = "idle"
        /\ t \in Req => pc'[t] = "err" \/ pc'[t] = "ok"
                         \/ (pc'[t] = "undone" /\ req[t].op = "alloc")
    BY <1>13, GotoStep DEF KillReturns, Returned, cleanup
  <2>3. QED
    BY <2>1, <2>2
<1>14. ASSUME NEW r \in Req,
              RefreshCluster(r) \/ RefreshLookup(r) \/ RefreshInsert(r)
                \/ RefreshExtend(r) \/ RefreshFails(r)
       PROVE  PhaseOK'
  BY <1>14, GotoStep DEF RefreshCluster, RefreshLookup, RefreshInsert, RefreshExtend,
                         RefreshFails
<1>15. CASE CleanupSpawn
  BY <1>15 DEF CleanupSpawn
<1>16. CASE CleanupList \/ (\E c \in Cluster : CleanupRead(c)) \/ CleanupDone
  BY <1>16 DEF CleanupList, CleanupRead, CleanupDone, thread
<1>17. CASE (\E c \in Cluster, s \in Slot : AutoRemove(c, s)) \/ Tick \/ Restart
  BY <1>17 DEF AutoRemove, Tick, Restart, thread
<1>18. CASE Crash
  BY <1>18 DEF Crash
<1>19. QED
  BY <1>1, <1>2, <1>3, <1>4, <1>5, <1>6, <1>7, <1>8, <1>9, <1>10, <1>11, <1>12, <1>13,
     <1>14, <1>15, <1>16, <1>17, <1>18 DEF Next, RequestStep, KillStep, CleanupStep

-----------------------------------------------------------------------------
(* What a step can do to the store and to the containers. *)

(* Three actions write to the store: they store a record, with the         *)
(* requesting user as the owner, for their own cluster.                    *)
MetaWritten(r) ==
  /\ meta'[cid(r)] # NoMeta /\ meta'[cid(r)].owner = req[r].user
  /\ \A c \in Cluster : c # cid(r) => meta'[c] = meta[c]

LEMMA CreateWrites ==
  ASSUME TypeOK, NEW r \in Req, CreateMeta(r)
  PROVE  meta' = meta \/ (MetaWritten(r) /\ meta[cid(r)] = NoMeta)
<1> DEFINE m == [owner |-> req[r].user, timeout |-> lease[r]]
<1>1. m \in ClusterMetaRecord /\ m.owner = req[r].user
  BY RequestFields DEF ClusterMetaRecord, TypeOK
<1>2. serializeMeta(m) # NoMeta /\ serializeMeta(m).owner = req[r].user
  BY <1>1, StoredRecord
<1>3. \/ meta' = meta
      \/ meta[cid(r)] = NoMeta /\ meta' = [meta EXCEPT ![cid(r)] = serializeMeta(m)]
  BY DEF CreateMeta
<1>4. QED
  BY <1>2, <1>3, RequestFields DEF MetaWritten, TypeOK

LEMMA RefreshWrites ==
  ASSUME TypeOK, NEW r \in Req, RefreshInsert(r) \/ RefreshExtend(r)
  PROVE  MetaWritten(r) /\ raced' = [raced EXCEPT ![cid(r)] = (cleaner # "sleep")]
<1>1. newMeta(r) \in ClusterMetaRecord /\ newMeta(r).owner = req[r].user
  BY NewMetaType
<1>2. CASE RefreshInsert(r)
  <2>1. serializeMeta(newMeta(r)) # NoMeta /\ serializeMeta(newMeta(r)).owner = req[r].user
    BY <1>1, StoredRecord
  <2>2. QED
    BY <1>2, <2>1, RequestFields DEF RefreshInsert, MetaWritten, TypeOK
<1>3. CASE RefreshExtend(r)
  <2> DEFINE m == refreshMeta(meta[cid(r)], newMeta(r))
  <2>1. meta[cid(r)] \in ClusterMetaRecord
    <3>1. cid(r) \in Cluster /\ meta[cid(r)] # NoMeta
      BY <1>3, RequestFields DEF RefreshExtend
    <3>2. QED
      BY <3>1 DEF TypeOK
  <2>2. m \in ClusterMetaRecord /\ m.owner = req[r].user
    BY <1>1, <2>1, RefreshedRecord
  <2>3. serializeMeta(m) # NoMeta /\ serializeMeta(m).owner = req[r].user
    BY <2>2, StoredRecord
  <2>4. meta' = [meta EXCEPT ![cid(r)] = serializeMeta(m)]
    BY <1>3 DEF RefreshExtend
  <2>5. QED
    BY <1>3, <2>3, <2>4, RequestFields DEF RefreshExtend, MetaWritten, TypeOK
<1>4. QED
  BY <1>2, <1>3

LEMMA MetaSteps ==
  ASSUME TypeOK, [Next]_vars
  PROVE  \/ meta' = meta
         \/ \E r \in Req : CreateMeta(r) /\ MetaWritten(r) /\ meta[cid(r)] = NoMeta
         \/ \E r \in Req : (RefreshInsert(r) \/ RefreshExtend(r)) /\ MetaWritten(r)
<1>1. \/ meta' = meta
      \/ \E r \in Req : CreateMeta(r) \/ RefreshInsert(r) \/ RefreshExtend(r)
  <2>1. ASSUME NEW r \in Req, RequestStep(r),
               ~CreateMeta(r), ~RefreshInsert(r), ~RefreshExtend(r)
        PROVE  meta' = meta
    BY <2>1 DEF RequestStep, Reject, AllocateCluster, EnsureImage, CreateNode, StartNode,
                InspectNode, CollectNodes, KillCluster, RefreshCluster, RefreshLookup,
                RefreshFails
  <2>2. ASSUME NEW t \in Thread, KillStep(t) PROVE meta' = meta
    BY <2>2 DEF KillStep, ListNodes, ListFails, CheckOwner, StopNode, KillReturns
  <2>3. CASE CleanupStep
    BY <2>3 DEF CleanupStep, CleanupList, CleanupRead, CleanupSpawn, CleanupDone
  <2>4. CASE Tick \/ Crash \/ Restart \/ UNCHANGED vars
             \/ \E c \in Cluster, s \in Slot : AutoRemove(c, s)
    BY <2>4 DEF Tick, Crash, Restart, AutoRemove, vars
  <2>5. QED
    BY <2>1, <2>2, <2>3, <2>4 DEF Next
<1>2. QED
  BY <1>1, CreateWrites, RefreshWrites

(* A record is never removed. *)
LEMMA MetaKept ==
  ASSUME TypeOK, [Next]_vars, NEW c \in Cluster, meta[c] # NoMeta
  PROVE  meta'[c] # NoMeta
  BY MetaSteps, RequestFields DEF MetaWritten

(* Containers come to exist and to run while their cluster is being        *)
(* allocated, and only a stop ends a running one.                          *)
LEMMA ContainerSteps ==
  ASSUME TypeOK, PhaseOK, [Next]_vars, NEW c \in Cluster, NEW z \in Slot
  PROVE  /\ cont'[c][z] # "none" => cont[c][z] # "none" \/ Allocating(c)
         /\ cont'[c][z] = "running" => cont[c][z] = "running" \/ Allocating(c)
         /\ cont[c][z] = "running" /\ cont'[c][z] # "running" =>
              \E t \in Thread : cid(t) = c /\ pc[t] = "stop"
<1>1. \/ cont' = cont
      \/ \E r \in Req, s \in Slot : CreateNode(r, s) \/ StartNode(r, s)
      \/ \E t \in Thread, s \in Slot : StopNode(t, s)
      \/ \E d \in Cluster, s \in Slot : AutoRemove(d, s)
  BY DEF Next, vars, docker, RequestStep, KillStep, CleanupStep, Reject, AllocateCluster,
         CreateMeta, EnsureImage, InspectNode, CollectNodes,
         KillCluster, ListNodes, ListFails, CheckOwner, KillReturns,
         RefreshCluster, RefreshLookup, RefreshInsert, RefreshExtend, RefreshFails,
         CleanupList, CleanupRead, CleanupSpawn, CleanupDone, Tick, Crash, Restart
<1>2. CASE cont' = cont
  BY <1>2
<1>3. ASSUME NEW r \in Req, NEW s \in Slot, CreateNode(r, s) \/ StartNode(r, s)
      PROVE  /\ cont'[c][z] # "none" => cont[c][z] # "none" \/ Allocating(c)
             /\ cont'[c][z] = "running" => cont[c][z] = "running" \/ Allocating(c)
             /\ cont[c][z] = "running" => cont'[c][z] = "running"
  <2>1. Allocating(cid(r))
    BY <1>3, RequestFields DEF CreateNode, StartNode, Allocating, PhaseOK, GoroutinesAwaited
  <2>2. \/ cont' = cont
        \/ \E v \in ContainerState : cont' = [cont EXCEPT ![cid(r)][s] = v]
                                     /\ cont[cid(r)][s] # "running"
    BY <1>3 DEF CreateNode, StartNode, docker, ContainerState
  <2>3. QED
    BY <1>2, <2>1, <2>2, ContainerUpdate, RequestFields
<1>4. ASSUME NEW t \in Thread, NEW s \in Slot, StopNode(t, s)
      PROVE  /\ cont'[c][z] # "none" => cont[c][z] # "none"
             /\ cont'[c][z] = "running" => cont[c][z] = "running"
             /\ cont[c][z] = "running" /\ cont'[c][z] # "running" =>
                  cid(t) = c /\ pc[t] = "stop"
  <2>1. pc[t] = "stop" /\ cid(t) \in Cluster
    BY <1>4, ThreadCluster DEF StopNode, At
  <2> DEFINE v == IF cont[cid(t)][s] = "running" THEN "exited" ELSE cont[cid(t)][s]
  <2>2. v \in ContainerState
    BY <2>1 DEF TypeOK, ContainerState
  <2>3. cont' = cont \/ cont' = [cont EXCEPT ![cid(t)][s] = v]
    BY <1>4 DEF StopNode
  <2>4. CASE cont' = [cont EXCEPT ![cid(t)][s] = v]
    <3>1. cont'[c][z] = IF c = cid(t) /\ z = s THEN v ELSE cont[c][z]
      BY <2>1, <2>2, <2>4, ContainerUpdate
    <3>2. QED
      BY <2>1, <3>1
  <2>5. QED
    BY <1>2, <2>3, <2>4
<1>5. ASSUME NEW d \in Cluster, NEW s \in Slot, AutoRemove(d, s)
      PROVE  /\ cont'[c][z] # "none" => cont[c][z] # "none"
             /\ cont'[c][z] = "running" => cont[c][z] = "running"
             /\ cont[c][z] = "running" => cont'[c][z] = "running"
  <2>1. cont' = [cont EXCEPT ![d][s] = "none"] /\ cont[d][s] = "exited"
    BY <1>5 DEF AutoRemove
  <2>2. QED
    BY <2>1, ContainerUpdate DEF ContainerState
<1>6. QED
  BY <1>1, <1>2, <1>3, <1>4, <1>5

-----------------------------------------------------------------------------
(* Allocations hold their cluster id alone. *)

(* Only CreateMeta makes an allocation hold its id. *)
LEMMA InFlightStep ==
  ASSUME TypeOK, PhaseOK, [Next]_vars, NEW r \in Req, AllocInFlight(r)',
         ~AllocInFlight(r)
  PROVE  CreateMeta(r) /\ MetaWritten(r) /\ meta[cid(r)] = NoMeta
<1> USE ThreadKinds, RequestsFixed DEF AllocInFlight, At
<1>0. /\ req[r].op = "alloc" /\ pc'[r] # pc[r]
      /\ pc'[r] \in {"image", "nodes", "list", "check", "stop"}
      /\ pc[r] \notin {"image", "nodes", "list", "check", "stop"}
  OBVIOUS
<1>1. \A t \in Thread : ~ListNodes(t) /\ ~ListFails(t) /\ ~CheckOwner(t) /\ ~KillReturns(t)
  BY <1>0, GotoStep DEF ListNodes, ListFails, CheckOwner, KillReturns, Returned
<1>2. \A q \in Req : ~Reject(q) /\ ~AllocateCluster(q) /\ ~EnsureImage(q)
                     /\ ~CollectNodes(q) /\ ~KillCluster(q)
  BY <1>0, GotoStep DEF Reject, AllocateCluster, EnsureImage, CollectNodes, KillCluster
<1>3. \A q \in Req : ~RefreshCluster(q) /\ ~RefreshLookup(q) /\ ~RefreshInsert(q)
                     /\ ~RefreshExtend(q) /\ ~RefreshFails(q)
  BY <1>0, GotoStep DEF RefreshCluster, RefreshLookup, RefreshInsert, RefreshExtend,
                        RefreshFails
<1>4. ~CleanupSpawn /\ ~Crash
  BY <1>0 DEF CleanupSpawn, Crash
<1>5. \E q \in Req : CreateMeta(q)
  BY <1>0, <1>1, <1>2, <1>3, <1>4
     DEF Next, vars, thread, RequestStep, KillStep, CleanupStep, CreateNode, StartNode,
         InspectNode, StopNode, CleanupList, CleanupRead, CleanupDone, AutoRemove, Tick,
         Restart
<1>6. CreateMeta(r) /\ pc'[r] = "image"
  BY <1>0, <1>5, GotoStep DEF CreateMeta
<1>7. meta[cid(r)] = NoMeta /\ meta' # meta
  <2>1. pc'[r] # "err" /\ ~Goto(r, "err")
    BY <1>6, GotoStep
  <2>2. meta[cid(r)] = NoMeta /\ meta' = [meta EXCEPT ![cid(r)] =
                      serializeMeta([owner |-> req[r].user, timeout |-> lease[r]])]
    BY <1>6, <2>1 DEF CreateMeta
  <2>3. serializeMeta([owner |-> req[r].user, timeout |-> lease[r]]) # NoMeta
    BY RequestFields, StoredRecord DEF ClusterMetaRecord, TypeOK
  <2>4. QED
    BY <2>2, <2>3, RequestFields DEF TypeOK
<1>8. QED
  BY <1>6, <1>7, CreateWrites

LEMMA AllocStep ==
  ASSUME TypeOK, PhaseOK, AllocRegistered, AllocAlone, Registered, [Next]_vars
  PROVE  AllocRegistered' /\ AllocAlone' /\ Registered'
<1> USE RequestsFixed, RequestFields
<1>1. \A r \in Req : cid(r)' = cid(r) /\ cid(r) \in Cluster
  BY DEF cid
<1>2. AllocRegistered'
  <2> SUFFICES ASSUME NEW r \in Req, AllocInFlight(r)' PROVE meta'[cid(r)] # NoMeta
    BY <1>1 DEF AllocRegistered
  <2>1. CASE AllocInFlight(r)
    BY <2>1, <1>1, MetaKept DEF AllocRegistered
  <2>2. CASE ~AllocInFlight(r)
    BY <2>2, InFlightStep DEF MetaWritten
  <2>3. QED
    BY <2>1, <2>2
<1>3. AllocAlone'
  <2> SUFFICES ASSUME NEW r \in Req, NEW q \in Req, AllocInFlight(r)', AllocInFlight(q)',
                      cid(r) = cid(q)
               PROVE  r = q
    BY <1>1 DEF AllocAlone
  <2>1. CASE AllocInFlight(r) /\ AllocInFlight(q)
    BY <2>1 DEF AllocAlone
  <2>2. CASE ~AllocInFlight(r) /\ ~AllocInFlight(q)
    <3>1. CreateMeta(r) /\ CreateMeta(q) /\ pc'[r] # pc[r] /\ pc'[q] # pc[q]
      BY <2>2, InFlightStep DEF AllocInFlight
    <3>2. QED
      BY <3>1, GotoStep, ThreadKinds DEF CreateMeta
  <2>3. CASE AllocInFlight(r) /\ ~AllocInFlight(q)
    BY <2>3, InFlightStep DEF AllocRegistered
  <2>4. CASE ~AllocInFlight(r) /\ AllocInFlight(q)
    BY <2>4, InFlightStep DEF AllocRegistered
  <2>5. QED
    BY <2>1, <2>2, <2>3, <2>4
<1>4. Registered'
  <2> SUFFICES ASSUME NEW c \in Cluster \ Legacy, NEW s \in Slot, cont'[c][s] # "none"
               PROVE  meta'[c] # NoMeta
    BY DEF Registered, Nodes
  <2>1. cont[c][s] # "none" \/ Allocating(c)
    BY ContainerSteps
  <2>2. meta[c] # NoMeta
    BY <2>1, AllocatingPlaces, RequestFields
       DEF Registered, Nodes, AllocRegistered, AllocInFlight, PhaseOK
  <2>3. QED
    BY <2>2, MetaKept
<1>5. QED
  BY <1>2, <1>3, <1>4

-----------------------------------------------------------------------------
(* Cleanup. *)

(* What cleanup reads of a cluster that does not make badger panic. *)
LEMMA ReadTimeout ==
  ASSUME TypeOK, NEW c \in Cluster \ Panicky, NEW g \in GetClusterMeta(c)
  PROVE  \/ g.rec.timeout = FarFuture
         \/ meta[c] # NoMeta /\ g.rec = meta[c]
<1> DEFINE stored == [err |-> meta[c] = NoMeta,
                      rec |-> IF meta[c] = NoMeta THEN DEFAULT_CLUSTER_META ELSE meta[c]]
<1>1. g = stored \/ g = [err |-> TRUE, rec |-> DEFAULT_CLUSTER_META]
  BY Zenon DEF GetClusterMeta
<1>2. CASE g = stored
  BY <1>2 DEF DEFAULT_CLUSTER_META
<1>3. CASE g = [err |-> TRUE, rec |-> DEFAULT_CLUSTER_META]
  BY <1>3 DEF DEFAULT_CLUSTER_META
<1>4. QED
  BY <1>1, <1>2, <1>3

LEMMA JustifiedStep ==
  ASSUME TypeOK, PhaseOK, CleanupJustified, now <= MaxTime, [Next]_vars
  PROVE  CleanupJustified' /\ now' <= MaxTime
<1> USE ThreadKinds, ConstantTypes DEF CleanupJustified, Expired
<1> DEFINE Goal == CleanupJustified' /\ now' <= MaxTime
<1>1. now \in Int /\ now < FarFuture
  BY DEF TypeOK
<1>2. \A c \in Cluster : expiry[c] \in Int /\ (meta[c] # NoMeta => meta[c].timeout \in Int)
  BY DEF TypeOK, ClusterMetaRecord
<1>3. CASE Tick
  <2>1. now' = now + 1 /\ now < MaxTime
        /\ UNCHANGED <<meta, pc, cleaner, expiry, raced>>
    BY <1>3 DEF Tick, thread, cleanup
  <2>2. QED
    BY <1>1, <1>2, <2>1
<1>4. CASE Crash
  BY <1>4 DEF Crash
<1>5. CASE CleanupList
  BY <1>5 DEF CleanupList, thread, PhaseOK
<1>6. ASSUME NEW d \in Cluster, CleanupRead(d) PROVE Goal
  <2>1. PICK g \in GetClusterMeta(d) : expiry' = [expiry EXCEPT ![d] = g.rec.timeout]
    BY <1>6 DEF CleanupRead
  <2>2. cleaner = "read" /\ UNCHANGED <<now, meta, pc, cleaner>>
        /\ raced' = [raced EXCEPT ![d] = FALSE]
    BY <1>6 DEF CleanupRead, thread
  <2>3. /\ expiry'[d] = g.rec.timeout /\ raced'[d] = FALSE
        /\ \A c \in Cluster : c # d => expiry'[c] = expiry[c] /\ raced'[c] = raced[c]
    BY <2>1, <2>2 DEF TypeOK
  <2>4. d \notin Panicky => \/ expiry'[d] = FarFuture
                            \/ meta[d] # NoMeta /\ expiry'[d] = meta[d].timeout
    BY <2>3, ReadTimeout
  <2>5. QED
    BY <2>2, <2>3, <2>4 DEF PhaseOK
<1>7. CASE CleanupSpawn
  <2>1. /\ cleaner = "read" /\ UNCHANGED <<now, meta, raced>>
        /\ \A c \in Cluster : expiry'[c] = FarFuture
        /\ \A c \in Cluster : pc'[c] # "idle" => expiry[c] < now
    BY <1>7 DEF CleanupSpawn, PhaseOK
  <2>2. ASSUME NEW c \in Cluster \ Panicky, expiry[c] < now PROVE Expired(c) \/ raced[c]
    BY <1>1, <1>2, <2>2
  <2>3. QED
    BY <2>1, <2>2
<1>8. CASE CleanupDone
  BY <1>8 DEF CleanupDone, thread
<1>9. ASSUME NEW r \in Req, CreateMeta(r) PROVE Goal
  <2>1. UNCHANGED <<now, cleaner, expiry, raced>> /\ \A c \in Cluster : pc'[c] = pc[c]
    BY <1>9, GotoStep DEF CreateMeta, cleanup
  <2>2. \A c \in Cluster : meta[c] # NoMeta => meta'[c] = meta[c]
    BY <1>9, CreateWrites, RequestFields DEF MetaWritten
  <2>3. QED
    BY <2>1, <2>2
<1>10. ASSUME NEW r \in Req, RefreshInsert(r) \/ RefreshExtend(r) PROVE Goal
  <2>1. UNCHANGED <<now, cleaner, expiry>> /\ \A c \in Cluster : pc'[c] = pc[c]
    BY <1>10, GotoStep DEF RefreshInsert, RefreshExtend
  <2>2. MetaWritten(r) /\ raced' = [raced EXCEPT ![cid(r)] = (cleaner # "sleep")]
    BY <1>10, RefreshWrites
  <2>r. cid(r) \in Cluster
    BY RequestFields
  <2>3. cid(r) \in Cluster /\ raced \in [Cluster -> BOOLEAN]
    BY <2>r DEF TypeOK
  <2>4. \A c \in Cluster : c # cid(r) => meta'[c] = meta[c] /\ raced'[c] = raced[c]
    BY <2>2, <2>3 DEF MetaWritten
  <2>5. cleaner # "sleep" => raced'[cid(r)]
    BY <2>2, <2>3
  <2>6. QED
    BY <2>1, <2>3, <2>4, <2>5 DEF PhaseOK
<1>11. ASSUME UNCHANGED <<now, meta, cleaner, expiry, raced>>,
              \A c \in Cluster : pc'[c] # "idle" => pc[c] # "idle"
       PROVE  Goal
  BY <1>11
<1>12. ASSUME NEW r \in Req,
              \/ Reject(r) \/ AllocateCluster(r) \/ EnsureImage(r) \/ CollectNodes(r)
              \/ KillCluster(r) \/ RefreshCluster(r) \/ RefreshLookup(r) \/ RefreshFails(r)
       PROVE  Goal
  BY <1>11, <1>12, GotoStep
     DEF Reject, AllocateCluster, EnsureImage, CollectNodes, KillCluster, RefreshCluster,
         RefreshLookup, RefreshFails, cleanup
<1>13. ASSUME NEW r \in Req, NEW s \in Slot,
              CreateNode(r, s) \/ StartNode(r, s) \/ InspectNode(r, s)
       PROVE  Goal
  BY <1>11, <1>13 DEF CreateNode, StartNode, InspectNode, cleanup
<1>14. ASSUME NEW t \in Thread, KillStep(t) PROVE Goal
  BY <1>11, <1>14, GotoStep
     DEF KillStep, ListNodes, ListFails, CheckOwner, StopNode, KillReturns, Returned,
         cleanup, At
<1>15. CASE UNCHANGED vars \/ Restart \/ \E c \in Cluster, s \in Slot : AutoRemove(c, s)
  BY <1>11, <1>15 DEF vars, Restart, AutoRemove, thread, cleanup
<1>16. QED
  BY <1>3, <1>4, <1>5, <1>6, <1>7, <1>8, <1>9, <1>10, <1>12, <1>13, <1>14, <1>15
     DEF Next, RequestStep, CleanupStep

-----------------------------------------------------------------------------
(* Owners. *)

(* The creator label is set by the allocation. *)
LEMMA CreatorSteps ==
  ASSUME TypeOK, PhaseOK, [Next]_vars, NEW c \in Cluster, creator'[c] # creator[c]
  PROVE  \E r \in Req : cid(r) = c /\ AllocInFlight(r) /\ creator'[c] = req[r].user
<1>1. \E r \in Req, s \in Slot : CreateNode(r, s)
  <2>1. ASSUME NEW r \in Req, RequestStep(r), \A s \in Slot : ~CreateNode(r, s)
        PROVE  creator' = creator
    BY <2>1 DEF RequestStep, Reject, AllocateCluster, CreateMeta, EnsureImage, StartNode,
                InspectNode, CollectNodes, KillCluster, RefreshCluster, RefreshLookup,
                RefreshInsert, RefreshExtend, RefreshFails, docker
  <2>2. ASSUME NEW t \in Thread, KillStep(t) PROVE creator' = creator
    BY <2>2 DEF KillStep, ListNodes, ListFails, CheckOwner, StopNode, KillReturns, docker
  <2>3. CASE CleanupStep
    BY <2>3 DEF CleanupStep, CleanupList, CleanupRead, CleanupSpawn, CleanupDone, docker
  <2>4. CASE Tick \/ Crash \/ Restart \/ UNCHANGED vars
             \/ \E d \in Cluster, s \in Slot : AutoRemove(d, s)
    BY <2>4 DEF Tick, Crash, Restart, AutoRemove, vars, docker
  <2>5. QED
    BY <2>1, <2>2, <2>3, <2>4 DEF Next
<1>2. PICK r \in Req, s \in Slot : CreateNode(r, s)
  BY <1>1
<1>3. pc[r] = "nodes" /\ req[r].op = "alloc"
  BY <1>2 DEF CreateNode, PhaseOK, GoroutinesAwaited
<1>4. creator' = [creator EXCEPT ![cid(r)] = req[r].user]
  BY <1>2 DEF CreateNode, docker
<1>5. QED
  BY <1>3, <1>4, RequestFields DEF AllocInFlight, TypeOK

(* A caller that is let through was found to be the creator, and a killer  *)
(* the owner of a registered cluster.                                      *)
LEMMA VisibleSteps ==
  ASSUME TypeOK, PhaseOK, [Next]_vars, NEW r \in Req, ~req[r].admin,
         pc'[r] \in {"lookup", "insert", "extend", "stop"},
         pc[r] \notin {"lookup", "insert", "extend", "stop"}
  PROVE  /\ creator[cid(r)] = req[r].user /\ creator' = creator /\ meta' = meta
         /\ pc'[r] = "stop" => meta[cid(r)] # NoMeta
<1> USE ThreadKinds DEF At
<1>1. RefreshCluster(r) \/ (CheckOwner(r) /\ pc'[r] = "stop")
  <2>1. \A t \in Thread : ~ListNodes(t) /\ ~ListFails(t) /\ ~KillReturns(t)
    BY GotoStep DEF ListNodes, ListFails, KillReturns, Returned
  <2>2. \A q \in Req : /\ ~Reject(q) /\ ~AllocateCluster(q) /\ ~CreateMeta(q)
                       /\ ~EnsureImage(q) /\ ~CollectNodes(q) /\ ~KillCluster(q)
    BY GotoStep DEF Reject, AllocateCluster, CreateMeta, EnsureImage, CollectNodes,
                    KillCluster
  <2>3. \A q \in Req : ~RefreshLookup(q) /\ ~RefreshInsert(q)
                       /\ ~RefreshExtend(q) /\ ~RefreshFails(q)
    BY GotoStep DEF RefreshLookup, RefreshInsert, RefreshExtend, RefreshFails
  <2>4. ~CleanupSpawn /\ ~Crash
    BY DEF CleanupSpawn, Crash
  <2>5. (\E q \in Req : RefreshCluster(q)) \/ (\E t \in Thread : CheckOwner(t))
    BY <2>1, <2>2, <2>3, <2>4
       DEF Next, vars, thread, RequestStep, KillStep, CleanupStep, CreateNode, StartNode,
           InspectNode, StopNode, CleanupList, CleanupRead, CleanupDone, AutoRemove, Tick,
           Restart
  <2>6. ASSUME NEW q \in Req, RefreshCluster(q) PROVE q = r
    BY <2>6, GotoStep DEF RefreshCluster
  <2>7. ASSUME NEW t \in Thread, CheckOwner(t) PROVE t = r /\ pc[r] = "check"
    BY <2>7, GotoStep DEF CheckOwner, Returned
  <2>8. ASSUME CheckOwner(r) PROVE pc'[r] = "stop"
    BY <2>8, GotoStep DEF CheckOwner, Returned
  <2>9. QED
    BY <2>5, <2>6, <2>7, <2>8
<1>2. CASE RefreshCluster(r)
  BY <1>2, GotoStep DEF RefreshCluster, Visible, IgnoreOwnership, docker
<1>3. CASE CheckOwner(r) /\ pc'[r] = "stop"
  <2>1. PICK g \in GetClusterMeta(cid(r)) : MayKill(r, g)
    BY <1>3, GotoStep DEF CheckOwner, Returned
  <2>2. creator[cid(r)] = req[r].user /\ g.rec.owner = req[r].user
    BY <2>1 DEF MayKill, Visible, IgnoreOwnership
  <2>3. req[r].user # NoOwner
    BY <1>3 DEF CheckOwner, PhaseOK, Valid, HasUser
  <2>4. meta[cid(r)] # NoMeta
    <3> SUFFICES ASSUME meta[cid(r)] = NoMeta PROVE g.rec.owner = NoOwner
      BY <2>2, <2>3
    <3>1. g.rec = DEFAULT_CLUSTER_META \/ g.rec = ZERO_CLUSTER_META
      BY DEF GetClusterMeta
    <3>2. QED
      BY <3>1 DEF DEFAULT_CLUSTER_META, ZERO_CLUSTER_META
  <2>5. QED
    BY <1>3, <2>2, <2>4 DEF CheckOwner, docker
<1>4. QED
  BY <1>1, <1>2, <1>3

LEMMA OwnerStep ==
  ASSUME TypeOK, PhaseOK, AllocRegistered, AllocAlone, OwnersAgree, OwnerIsCreator, [Next]_vars
  PROVE  OwnersAgree' /\ OwnerIsCreator'
<1> USE RequestsFixed, RequestFields
<1>1. /\ \A r \in Req : cid(r)' = cid(r) /\ cid(r) \in Cluster
      /\ \A c \in Cluster : AdminRefresh(c)' = AdminRefresh(c)
  BY DEF cid, AdminRefresh
<1>2. ASSUME NEW c \in Cluster, ~AdminRefresh(c), meta'[c] # meta[c]
      PROVE  /\ creator' = creator
             /\ \E r \in Req :
               /\ cid(r) = c /\ MetaWritten(r) /\ req[r].user # NoOwner
               /\ \/ CreateMeta(r) /\ meta[c] = NoMeta
                  \/ creator[c] = req[r].user
  <2>1. PICK r \in Req :
          /\ MetaWritten(r)
          /\ \/ CreateMeta(r) /\ meta[cid(r)] = NoMeta
             \/ RefreshInsert(r) \/ RefreshExtend(r)
    BY <1>2, MetaSteps
  <2>2. cid(r) = c /\ creator' = creator
    BY <1>2, <2>1 DEF MetaWritten, CreateMeta, RefreshInsert, RefreshExtend, docker
  <2>3. req[r].user # NoOwner
    BY <2>1 DEF PhaseOK, Valid, HasUser, CreateMeta, RefreshInsert, RefreshExtend, At
  <2>4. ASSUME RefreshInsert(r) \/ RefreshExtend(r) PROVE creator[c] = req[r].user
    <3>1. pc[r] \in {"insert", "extend"} /\ req[r].op = "refresh"
      BY <2>4 DEF RefreshInsert, RefreshExtend, At, PhaseOK
    <3>2. ~req[r].admin
      BY <3>1, <2>2, <1>2 DEF AdminRefresh
    <3>3. QED
      BY <3>1, <3>2, <2>2, <1>2 DEF OwnersAgree
  <2>5. QED
    BY <2>1, <2>2, <2>3, <2>4
<1>3. OwnerIsCreator'
  <2> SUFFICES ASSUME NEW c \in Cluster, ~AdminRefresh(c), meta'[c] # NoMeta,
                      creator'[c] # NoOwner
               PROVE  meta'[c].owner = creator'[c]
    BY <1>1 DEF OwnerIsCreator
  <2>1. CASE creator'[c] # creator[c]
    <3>1. PICK r \in Req : cid(r) = c /\ AllocInFlight(r) /\ creator'[c] = req[r].user
      BY <2>1, CreatorSteps
    <3>2. meta'[c] = meta[c]
      BY <1>2, <2>1
    <3>3. QED
      BY <3>1, <3>2 DEF OwnersAgree
  <2>2. CASE creator'[c] = creator[c] /\ meta'[c] = meta[c]
    BY <2>2 DEF OwnerIsCreator
  <2>3. CASE creator'[c] = creator[c] /\ meta'[c] # meta[c]
    <3>1. PICK r \in Req :
            /\ cid(r) = c /\ MetaWritten(r)
            /\ \/ CreateMeta(r) /\ meta[c] = NoMeta
               \/ creator[c] = req[r].user
      BY <1>2, <2>3
    <3>2. ~(CreateMeta(r) /\ meta[c] = NoMeta)
      BY <2>3, <3>1 DEF CreateMeta, At, PhaseOK, OwnersAgree
    <3>3. QED
      BY <2>3, <3>1, <3>2 DEF MetaWritten
  <2>4. QED
    BY <2>1, <2>2, <2>3
<1>4. \A c \in Cluster \ Legacy : creator'[c] # NoOwner => meta'[c] # NoMeta
  <2> SUFFICES ASSUME NEW c \in Cluster \ Legacy, creator'[c] # NoOwner
               PROVE  meta[c] # NoMeta
    BY MetaKept
  <2>1. CASE creator'[c] = creator[c]
    BY <2>1 DEF OwnersAgree
  <2>2. CASE creator'[c] # creator[c]
    BY <2>2, CreatorSteps DEF AllocRegistered
  <2>3. QED
    BY <2>1, <2>2
<1>5. ASSUME NEW r \in Req, ~AdminRefresh(cid(r)), AllocInFlight(r)'
      PROVE  meta'[cid(r)].owner = req[r].user
  <2>1. CASE ~AllocInFlight(r)
    BY <1>5, <2>1, InFlightStep DEF MetaWritten
  <2>2. CASE AllocInFlight(r) /\ meta'[cid(r)] = meta[cid(r)]
    BY <1>5, <2>2 DEF OwnersAgree
  <2>3. CASE AllocInFlight(r) /\ meta'[cid(r)] # meta[cid(r)]
    <3>1. meta[cid(r)] # NoMeta /\ meta[cid(r)].owner = req[r].user
      BY <1>5, <2>3 DEF AllocRegistered, OwnersAgree
    <3>2. PICK q \in Req : /\ cid(q) = cid(r) /\ MetaWritten(q) /\ req[q].user # NoOwner
                           /\ creator[cid(r)] = req[q].user
      BY <1>2, <1>5, <2>3, <3>1
    <3>3. meta[cid(r)].owner = creator[cid(r)]
      BY <1>5, <3>1, <3>2 DEF OwnerIsCreator
    <3>4. QED
      BY <3>1, <3>2, <3>3 DEF MetaWritten
  <2>4. QED
    BY <2>1, <2>2, <2>3
<1>6. ASSUME NEW r \in Req, ~AdminRefresh(cid(r)), ~req[r].admin,
             pc'[r] \in {"lookup", "insert", "extend", "stop"}
      PROVE  creator'[cid(r)] = req[r].user
  <2>1. CASE pc[r] \notin {"lookup", "insert", "extend", "stop"}
    BY <1>6, <2>1, VisibleSteps
  <2>2. CASE pc[r] \in {"lookup", "insert", "extend", "stop"}
    <3>1. creator[cid(r)] = req[r].user /\ req[r].user # NoOwner
      BY <1>6, <2>2 DEF OwnersAgree, PhaseOK, Valid, HasUser
    <3>2. ASSUME creator'[cid(r)] # creator[cid(r)] PROVE FALSE
      <4>1. PICK q \in Req : cid(q) = cid(r) /\ AllocInFlight(q)
                             /\ creator'[cid(r)] = req[q].user
        BY <3>2, CreatorSteps
      <4>2. meta[cid(r)] # NoMeta /\ meta[cid(r)].owner = req[q].user
        BY <1>6, <4>1 DEF AllocRegistered, OwnersAgree
      <4>3. meta[cid(r)].owner = creator[cid(r)]
        BY <1>6, <3>1, <4>2 DEF OwnerIsCreator
      <4>4. QED
        BY <3>2, <4>1, <4>2, <4>3
    <3>3. QED
      BY <3>1, <3>2
  <2>3. QED
    BY <2>1, <2>2
<1>7. ASSUME NEW r \in Req, ~AdminRefresh(cid(r)), ~req[r].admin, pc'[r] = "stop"
      PROVE  meta'[cid(r)] # NoMeta
  <2>1. req[r].op # "refresh"
    BY <1>7, PhaseStep DEF PhaseOK
  <2>2. pc[r] \notin {"lookup", "insert", "extend"}
    BY <2>1 DEF PhaseOK
  <2>3. CASE pc[r] = "stop"
    BY <1>7, <2>3, MetaKept DEF OwnersAgree
  <2>4. CASE pc[r] # "stop"
    BY <1>7, <2>2, <2>4, VisibleSteps
  <2>5. QED
    BY <2>3, <2>4
<1>8. OwnersAgree'
  BY <1>1, <1>4, <1>5, <1>6, <1>7 DEF OwnersAgree
<1>9. QED
  BY <1>3, <1>8

-----------------------------------------------------------------------------
(* Kills. *)

(* The places from which a cluster grows are entered by registering it. *)
LEMMA GrowthSteps ==
  ASSUME TypeOK, PhaseOK, [Next]_vars, NEW r \in Req, pc'[r] \in {"image", "nodes"},
         pc[r] \notin {"image", "nodes"}
  PROVE  req[r].op = "alloc" /\ meta[cid(r)] = NoMeta
<1> USE ThreadKinds, RequestsFixed DEF At
<1>1. req[r].op = "alloc"
  BY PhaseStep DEF PhaseOK
<1>2. pc[r] \notin {"list", "check", "stop"}
  <2>1. \A t \in Thread : KillStep(t) => pc'[r] = pc[r] \/ pc'[r] \notin {"image", "nodes"}
    BY GotoStep DEF KillStep, ListNodes, ListFails, CheckOwner, StopNode, KillReturns,
                    Returned
  <2>2. \A q \in Req : RequestStep(q) => pc'[r] = pc[r] \/ pc[r] \notin {"list", "check", "stop"}
    BY GotoStep DEF RequestStep, Reject, AllocateCluster, CreateMeta, EnsureImage,
         CreateNode, StartNode, InspectNode, CollectNodes, KillCluster, RefreshCluster,
         RefreshLookup, RefreshInsert, RefreshExtend, RefreshFails
  <2>3. CASE CleanupStep
    BY <2>3 DEF CleanupStep, CleanupList, CleanupRead, CleanupSpawn, CleanupDone, thread
  <2>4. CASE Crash \/ Tick \/ Restart \/ UNCHANGED vars
             \/ \E c \in Cluster, s \in Slot : AutoRemove(c, s)
    BY <2>4 DEF Crash, Tick, Restart, vars, AutoRemove, thread
  <2>5. QED
    BY <2>1, <2>2, <2>3, <2>4 DEF Next
<1>3. AllocInFlight(r)' /\ ~AllocInFlight(r)
  BY <1>1, <1>2 DEF AllocInFlight
<1>4. QED
  BY <1>1, <1>3, InFlightStep

LEMMA SettledStep ==
  ASSUME TypeOK, PhaseOK, [Next]_vars, NEW c \in Cluster, Settled(c)
  PROVE  Settled(c)'
<1>1. ~Allocating(c)'
  <2> SUFFICES ASSUME NEW r \in Req, req[r].op = "alloc", req[r].cid = c,
                      pc'[r] \in {"image", "nodes"}
               PROVE  FALSE
    <3>1. GoroutinesAwaited'
      BY PhaseStep DEF PhaseOK
    <3>2. Allocating(c)' => \E r \in Req : /\ req'[r].op = "alloc" /\ req'[r].cid = c
                                          /\ pc'[r] \in {"image", "nodes"}
      BY <3>1 DEF Allocating, GoroutinesAwaited
    <3>3. QED
      BY <3>2, RequestsFixed
  <2>1. pc[r] \notin {"image", "nodes"}
    BY DEF Settled, Allocating
  <2>2. meta[c] = NoMeta /\ c \notin Legacy
    BY <2>1, GrowthSteps, RequestFields
  <2>3. QED
    BY <2>2 DEF Settled
<1>2. QED
  BY <1>1, MetaKept DEF Settled

(* A request's place in killCluster is changed by its own steps only. *)
LEMMA KillFrame ==
  ASSUME TypeOK, PhaseOK, [Next]_vars, NEW r \in Req,
         pc'[r] \in {"check", "stop"} \/ Killed(r)',
         ~ListNodes(r), ~CheckOwner(r), \A s \in Slot : ~StopNode(r, s), ~KillReturns(r)
  PROVE  /\ pc'[r] = pc[r] /\ quiet'[r] = quiet[r]
         /\ pc[r] \in {"check", "stop"} => todo'[r] = todo[r] /\ failed'[r] = failed[r]
<1> USE ThreadKinds, RequestsFixed DEF At, Killed
<1> DEFINE Goal == /\ pc'[r] = pc[r] /\ quiet'[r] = quiet[r]
                   /\ pc[r] \in {"check", "stop"} =>
                        todo'[r] = todo[r] /\ failed'[r] = failed[r]
<1>1. ASSUME NEW t \in Thread, ListNodes(t) PROVE Goal
  BY <1>1, GotoStep DEF ListNodes, TypeOK
<1>2. ASSUME NEW t \in Thread, ListFails(t) PROVE Goal
  BY <1>2, GotoStep DEF ListFails, Returned
<1>3. ASSUME NEW t \in Thread, CheckOwner(t) PROVE Goal
  BY <1>3, GotoStep DEF CheckOwner, TypeOK, Returned
<1>4. ASSUME NEW t \in Thread, NEW s \in Slot, StopNode(t, s) PROVE Goal
  BY <1>4 DEF StopNode, TypeOK
<1>5. ASSUME NEW t \in Thread, KillReturns(t) PROVE Goal
  <2>1. t # r
    BY <1>5
  <2>2. pc'[r] = pc[r]
    BY <1>5, <2>1, GotoStep DEF KillReturns, Returned
  <2>3. todo' = todo /\ quiet' = quiet /\ failed' = [failed EXCEPT ![t] = FALSE]
    BY <1>5 DEF KillReturns
  <2>4. failed'[r] = failed[r]
    BY <2>1, <2>3 DEF TypeOK
  <2>5. QED
    BY <2>2, <2>3, <2>4
<1>6. ASSUME NEW q \in Req,
             \/ Reject(q) \/ AllocateCluster(q) \/ CreateMeta(q) \/ EnsureImage(q)
             \/ CollectNodes(q) \/ KillCluster(q)
      PROVE  Goal
  BY <1>6, GotoStep DEF Reject, AllocateCluster, CreateMeta, EnsureImage, CollectNodes,
                        KillCluster, PhaseOK
<1>7. ASSUME NEW q \in Req,
             \/ RefreshCluster(q) \/ RefreshLookup(q) \/ RefreshInsert(q)
             \/ RefreshExtend(q) \/ RefreshFails(q)
      PROVE  Goal
  BY <1>7, GotoStep DEF RefreshCluster, RefreshLookup, RefreshInsert, RefreshExtend,
                        RefreshFails, PhaseOK
<1>8. ASSUME NEW q \in Req, NEW s \in Slot,
             CreateNode(q, s) \/ StartNode(q, s) \/ InspectNode(q, s)
      PROVE  Goal
  BY <1>8 DEF CreateNode, StartNode, InspectNode
<1>9. CASE CleanupStep
  BY <1>9 DEF CleanupStep, CleanupList, CleanupRead, CleanupSpawn, CleanupDone, thread
<1>10. CASE Crash
  BY <1>10 DEF Crash
<1>11. CASE Tick \/ Restart \/ UNCHANGED vars
            \/ \E c \in Cluster, s \in Slot : AutoRemove(c, s)
  BY <1>11 DEF Tick, Restart, vars, AutoRemove, thread
<1>12. QED
  BY <1>1, <1>2, <1>3, <1>4, <1>5, <1>6, <1>7, <1>8, <1>9, <1>10, <1>11
     DEF Next, RequestStep, KillStep

LEMMA KillStepOK ==
  ASSUME TypeOK, PhaseOK, AllocRegistered, AllocAlone, Registered, KillComplete, [Next]_vars
  PROVE  KillComplete'
<1> USE RequestsFixed, RequestFields, ThreadKinds
<1> SUFFICES ASSUME NEW r \in Req, NEW c \in Cluster, c = cid(r)
             PROVE
    /\ req[r].op = "alloc" /\ pc'[r] \in {"check", "stop", "undone"} => quiet'[r]
    /\ quiet'[r] /\ pc'[r] \in {"check", "stop"} =>
         /\ Settled(c)'
         /\ \A s \in Slot : cont'[c][s] = "running" => s \in todo'[r] \/ failed'[r]
    /\ quiet'[r] /\ Killed(r)' =>
         /\ Settled(c)'
         /\ \A s \in Slot : cont'[c][s] # "running"
  <2>1. \A r \in Req : cid(r)' = cid(r) /\ cid(r) \in Cluster
    BY DEF cid
  <2>2. QED
    BY <2>1 DEF KillComplete
<1>0. /\ req[r].op = "alloc" /\ pc[r] \in {"check", "stop", "undone"} => quiet[r]
      /\ quiet[r] /\ pc[r] \in {"check", "stop"} =>
           /\ Settled(c)
           /\ \A s \in Slot : cont[c][s] = "running" => s \in todo[r] \/ failed[r]
      /\ quiet[r] /\ Killed(r) =>
           /\ Settled(c)
           /\ \A s \in Slot : cont[c][s] # "running"
  BY DEF KillComplete
<1>1. ASSUME Settled(c) PROVE \A s \in Slot : cont'[c][s] = "running" => cont[c][s] = "running"
  BY <1>1, ContainerSteps DEF Settled
<1>2. CASE ListNodes(r)
  <2>1. /\ pc[r] = "list" /\ pc'[r] = "check" /\ UNCHANGED <<cont, meta>>
        /\ todo'[r] = Nodes(c) /\ quiet'[r] = ~Allocating(c) /\ Nodes(c) # {}
    BY <1>2, GotoStep DEF ListNodes, At, TypeOK, docker
  <2>2. quiet'[r] => Settled(c)
    BY <2>1 DEF Settled, Registered
  <2>3. req[r].op = "alloc" => ~Allocating(c)
    BY <2>1, AllocatingPlaces, RequestFields DEF AllocAlone, AllocInFlight, PhaseOK
  <2>4. QED
    BY <2>1, <2>2, <2>3, SettledStep DEF Nodes, Killed
<1>3. CASE CheckOwner(r)
  <2>1. pc[r] = "check" /\ UNCHANGED <<cont, quiet, failed>>
    BY <1>3 DEF CheckOwner, At, docker
  <2>2. (pc'[r] = "stop" /\ todo'[r] = todo[r]) \/ pc'[r] = "err"
    BY <1>3, GotoStep DEF CheckOwner, Returned
  <2>3. QED
    BY <2>1, <2>2, <1>1, <1>0, SettledStep DEF Killed
<1>4. ASSUME NEW z \in Slot, StopNode(r, z)
      PROVE  /\ pc[r] = "stop" /\ UNCHANGED <<pc, quiet>>
             /\ quiet[r] => \A s \in Slot : cont'[c][s] = "running" => s \in todo'[r] \/ failed'[r]
  <2>1. /\ pc[r] = "stop" /\ UNCHANGED <<pc, quiet>>
        /\ todo'[r] = todo[r] \ {z}
        /\ failed[r] => failed'[r]
    BY <1>4 DEF StopNode, At, TypeOK
  <2>2. failed'[r] \/ cont'[c][z] # "running"
    <3> DEFINE v == IF cont[c][z] = "running" THEN "exited" ELSE cont[c][z]
    <3>1. failed'[r] \/ cont' = [cont EXCEPT ![c][z] = v]
      BY <1>4 DEF StopNode, TypeOK
    <3>2. v \in ContainerState /\ v # "running" /\ c \in Cluster
      BY DEF TypeOK, ContainerState
    <3>3. QED
      BY <3>1, <3>2, ContainerUpdate
  <2>3. QED
    BY <2>1, <2>2, <1>0, <1>1
<1>5. CASE KillReturns(r)
  <2>1. /\ pc[r] = "stop" /\ todo[r] = {} /\ UNCHANGED <<cont, quiet>>
        /\ failed[r] => pc'[r] = "err"
        /\ pc'[r] \notin {"check", "stop"}
    BY <1>5, GotoStep DEF KillReturns, At, docker, Returned
  <2>2. QED
    BY <2>1, <1>0, SettledStep DEF Killed
<1>6. CASE /\ ~ListNodes(r) /\ ~CheckOwner(r) /\ ~KillReturns(r)
           /\ \A s \in Slot : ~StopNode(r, s)
           /\ pc'[r] \in {"check", "stop"} \/ Killed(r)'
  <2>1. /\ pc'[r] = pc[r] /\ quiet'[r] = quiet[r]
        /\ pc[r] \in {"check", "stop"} => todo'[r] = todo[r] /\ failed'[r] = failed[r]
    BY <1>6, KillFrame
  <2>2. Killed(r)' => Killed(r)
    BY <2>1 DEF Killed
  <2>3. QED
    BY <2>1, <2>2, <1>1, <1>6, <1>0, SettledStep
<1>7. QED
  <2>1. ASSUME NEW z \in Slot, StopNode(r, z)
        PROVE  ~Killed(r)' /\ (quiet[r] => Settled(c)')
    BY <2>1, <1>4, <1>0, SettledStep DEF Killed
  <2>2. CASE \E z \in Slot : StopNode(r, z)
    BY <2>1, <2>2, <1>0, <1>4
  <2>3. CASE pc'[r] \notin {"check", "stop"} /\ ~Killed(r)'
    BY <2>3 DEF Killed
  <2>4. QED
    BY <1>2, <1>3, <1>5, <1>6, <2>2, <2>3

-----------------------------------------------------------------------------
(* Stored leases. *)

LEMMA StoredTimeout ==
  ASSUME NEW m \in ClusterMetaRecord
  PROVE  /\ serializeMeta(m).timeout \in Int /\ serializeMeta(m).timeout % Second = 0
         /\ m.timeout % Second = 0 => serializeMeta(m).timeout = m.timeout
         /\ \A k \in ClusterMetaRecord : m.timeout >= k.timeout =>
              serializeMeta(m).timeout >= serializeMeta(k).timeout
  BY DEF serializeMeta, ClusterMetaRecord, Second

(* A refresh stores at least what it asked for and cuts nothing back.      *)
LEMMA RefreshStores ==
  ASSUME TypeOK, WholeSeconds, NEW r \in Req, RefreshInsert(r) \/ RefreshExtend(r)
  PROVE  LET c == cid(r) IN
         /\ meta'[c].timeout \in Int /\ meta'[c].timeout % Second = 0
         /\ meta'[c].timeout >= serializeMeta(newMeta(r)).timeout
         /\ c \notin Unreadable /\ meta[c] # NoMeta => meta'[c].timeout >= meta[c].timeout
<1> DEFINE c == cid(r)
<1>0. c \in Cluster /\ meta \in [Cluster -> ClusterMetaRecord \cup {NoMeta}]
  BY RequestFields DEF TypeOK
<1>1. newMeta(r) \in ClusterMetaRecord
  BY NewMetaType
<1>2. CASE RefreshInsert(r)
  <2>1. meta'[c] = serializeMeta(newMeta(r)) /\ (c \in Unreadable \/ meta[c] = NoMeta)
    BY <1>0, <1>2 DEF RefreshInsert
  <2>2. QED
    BY <1>1, <2>1, StoredTimeout
<1>3. CASE RefreshExtend(r)
  <2> DEFINE m == refreshMeta(meta[c], newMeta(r))
  <2>1. meta[c] \in ClusterMetaRecord /\ meta[c] # NoMeta
    BY <1>0, <1>3 DEF RefreshExtend
  <2>2. m \in ClusterMetaRecord
    BY <1>1, <2>1, RefreshedRecord
  <2>3. m.timeout >= newMeta(r).timeout /\ m.timeout >= meta[c].timeout
    BY <1>1, <2>1 DEF refreshMeta, ClusterMetaRecord
  <2>4. meta'[c] = serializeMeta(m)
    BY <1>0, <1>3 DEF RefreshExtend
  <2>5. serializeMeta(meta[c]).timeout = meta[c].timeout
    BY <1>0, <2>1, StoredTimeout DEF WholeSeconds
  <2>6. QED
    BY <1>1, <2>1, <2>2, <2>3, <2>4, <2>5, StoredTimeout
<1>4. QED
  BY <1>2, <1>3

LEMMA CreateStores ==
  ASSUME TypeOK, NEW r \in Req, CreateMeta(r), meta[cid(r)] = NoMeta, meta'[cid(r)] # NoMeta
  PROVE  meta'[cid(r)].timeout % Second = 0
<1> DEFINE m == [owner |-> req[r].user, timeout |-> lease[r]]
<1>1. m \in ClusterMetaRecord
  BY RequestFields DEF ClusterMetaRecord, TypeOK
<1>2. meta'[cid(r)] = serializeMeta(m)
  BY RequestFields DEF CreateMeta, TypeOK
<1>3. QED
  BY <1>1, <1>2, StoredTimeout

(* What newMeta asks for is fixed by the time a refresh stores it, and     *)
(* only storing it makes a refresh "ok".                                   *)
LEMMA RefreshOkSteps ==
  ASSUME TypeOK, PhaseOK, [Next]_vars, NEW r \in Req, req[r].op = "refresh", pc'[r] = "ok"
  PROVE  /\ newMeta(r)' = newMeta(r)
         /\ pc[r] = "ok" \/ RefreshInsert(r) \/ RefreshExtend(r)
<1> USE RequestsFixed, ThreadKinds, GotoStep
<1>1. req' = req
  OBVIOUS
<1>2. ASSUME NEW q \in Req, RequestStep(q)
      PROVE  /\ lease'[r] = lease[r]
             /\ pc[r] = "ok" \/ RefreshInsert(r) \/ RefreshExtend(r)
  <2>1. CASE q = r
    BY <1>2, <2>1 DEF RequestStep, Reject, AllocateCluster, CreateMeta, EnsureImage, CreateNode,
         StartNode, InspectNode, CollectNodes, KillCluster, RefreshCluster, RefreshLookup,
         RefreshInsert, RefreshExtend, RefreshFails, At, PhaseOK, TypeOK
  <2>2. CASE q # r
    BY <1>2, <2>2 DEF RequestStep, Reject, AllocateCluster, CreateMeta, EnsureImage, CreateNode,
         StartNode, InspectNode, CollectNodes, KillCluster, RefreshCluster, RefreshLookup,
         RefreshInsert, RefreshExtend, RefreshFails, TypeOK
  <2>3. QED
    BY <2>1, <2>2
<1>3. ASSUME NEW t \in Thread, KillStep(t)
      PROVE  lease' = lease /\ pc[r] = "ok"
  <2>1. t # r
    BY <1>3 DEF KillStep, ListNodes, ListFails, CheckOwner, StopNode, KillReturns, At, PhaseOK
  <2>2. lease' = lease /\ pc'[r] = pc[r]
    BY <1>3, <2>1 DEF KillStep, ListNodes, ListFails, CheckOwner, StopNode, KillReturns,
         Returned
  <2>3. QED
    BY <2>2
<1>4. ASSUME CleanupStep \/ (\E c \in Cluster, s \in Slot : AutoRemove(c, s)) \/ Tick
             \/ Crash \/ Restart \/ UNCHANGED vars
      PROVE  lease' = lease /\ pc[r] = "ok"
  BY <1>4 DEF CleanupStep, CleanupList, CleanupRead, CleanupSpawn, CleanupDone, AutoRemove, Tick,
       Crash, Restart, vars, thread, Thread
<1>5. lease'[r] = lease[r] /\ (pc[r] = "ok" \/ RefreshInsert(r) \/ RefreshExtend(r))
  BY <1>2, <1>3, <1>4 DEF Next
<1>6. QED
  BY <1>1, <1>5 DEF newMeta

LEMMA LeaseStep ==
  ASSUME TypeOK, PhaseOK, WholeSeconds, RefreshKept, [Next]_vars
  PROVE  WholeSeconds' /\ RefreshKept'
<1>1. WholeSeconds'
  BY MetaSteps, RefreshStores, CreateStores, RequestFields DEF WholeSeconds, MetaWritten
<1>2. ASSUME NEW c \in Cluster \ Unreadable, meta[c] # NoMeta
      PROVE  meta'[c] # NoMeta /\ meta'[c].timeout >= meta[c].timeout
  <2>1. meta'[c] # NoMeta
    BY <1>2, MetaKept
  <2>2. meta[c].timeout \in Int
    BY <1>2 DEF TypeOK, ClusterMetaRecord
  <2>3. CASE meta'[c] = meta[c]
    BY <2>1, <2>2, <2>3
  <2>4. CASE meta'[c] # meta[c]
    <3>1. PICK r \in Req : (RefreshInsert(r) \/ RefreshExtend(r)) /\ c = cid(r)
      BY <1>2, <2>4, MetaSteps, RequestFields DEF MetaWritten
    <3>2. QED
      BY <1>2, <2>1, <3>1, RefreshStores
  <2>5. QED
    BY <2>3, <2>4
<1>3. ASSUME NEW r \in Req, req'[r].op = "refresh", pc'[r] = "ok", cid(r)' \notin Unreadable
      PROVE  /\ meta'[cid(r)'] # NoMeta
             /\ meta'[cid(r)'].timeout >= serializeMeta(newMeta(r)').timeout
  <2>1. req' = req /\ cid(r)' = cid(r) /\ cid(r) \in Cluster
    BY RequestsFixed, RequestFields DEF cid
  <2>2. newMeta(r)' = newMeta(r) /\ (pc[r] = "ok" \/ RefreshInsert(r) \/ RefreshExtend(r))
    BY <1>3, <2>1, RefreshOkSteps
  <2>3. serializeMeta(newMeta(r)).timeout \in Int
    BY NewMetaType, StoredTimeout
  <2>4. CASE RefreshInsert(r) \/ RefreshExtend(r)
    BY <2>1, <2>2, <2>4, RefreshStores, RefreshWrites DEF MetaWritten
  <2>5. CASE pc[r] = "ok"
    <3>1. meta[cid(r)] # NoMeta /\ meta[cid(r)].timeout >= serializeMeta(newMeta(r)).timeout
      BY <1>3, <2>1, <2>5 DEF RefreshKept
    <3>2. meta'[cid(r)] # NoMeta /\ meta'[cid(r)].timeout >= meta[cid(r)].timeout
      BY <1>2, <1>3, <2>1, <3>1
    <3>3. meta[cid(r)].timeout \in Int /\ meta'[cid(r)].timeout \in Int
      BY <2>1, <3>1, <3>2, TypeStep DEF TypeOK, ClusterMetaRecord
    <3>4. QED
      BY <2>1, <2>2, <2>3, <3>1, <3>2, <3>3
  <2>6. QED
    BY <2>2, <2>4, <2>5
<1>4. RefreshKept'
  BY <1>3 DEF RefreshKept, serializeMeta
<1>5. QED
  BY <1>1, <1>4

-----------------------------------------------------------------------------
(* The theorems. *)

LEMMA InvInit == Init => IInv
<1> SUFFICES ASSUME Init PROVE IInv
  OBVIOUS
<1> USE ThreadKinds
<1>1. TypeOK
  BY ConstantTypes DEF Init, TypeOK, Place, NodePlace, ContainerState
<1>2. \A r \in Req : pc[r] = "new"
  BY DEF Init
<1>3. \A c \in Cluster : pc[c] = "idle"
  BY DEF Init
<1>4. PhaseOK
  BY <1>2, <1>3 DEF Init, PhaseOK, GoroutinesAwaited
<1>5. AllocRegistered /\ AllocAlone /\ OwnersAgree /\ KillComplete
  BY <1>2 DEF Init, AllocRegistered, AllocAlone, OwnersAgree, KillComplete, AllocInFlight,
              Killed
<1>6. Registered /\ OwnerIsCreator
  BY DEF Init, Registered, Nodes, OwnerIsCreator
<1>7. CleanupJustified /\ now <= MaxTime
  BY <1>3, LifecycleAssumption, ConstantTypes DEF Init, CleanupJustified
<1>8. WholeSeconds /\ RefreshKept
  BY <1>2 DEF Init, WholeSeconds, RefreshKept
<1>9. QED
  BY <1>1, <1>4, <1>5, <1>6, <1>7, <1>8 DEF IInv

LEMMA InvStep == IInv /\ [Next]_vars => IInv'
<1> SUFFICES ASSUME IInv, [Next]_vars PROVE IInv'
  OBVIOUS
<1> USE DEF IInv
<1>1. TypeOK'
  BY TypeStep
<1>2. PhaseOK'
  BY PhaseStep
<1>3. AllocRegistered' /\ AllocAlone' /\ Registered'
  BY AllocStep
<1>4. OwnersAgree' /\ OwnerIsCreator'
  BY OwnerStep
<1>5. CleanupJustified' /\ now' <= MaxTime
  BY JustifiedStep
<1>6. KillComplete'
  BY KillStepOK
<1>7. WholeSeconds' /\ RefreshKept'
  BY LeaseStep
<1>8. QED
  BY <1>1, <1>2, <1>3, <1>4, <1>5, <1>6, <1>7

(* The conjunction that carries the theorems below holds in every state.   *)
THEOREM InvAlways == Spec => []IInv
  BY InvInit, InvStep, PTL DEF Spec

(* No container is ever without a lease in the store, whatever fails and   *)
(* whenever the daemon dies.                                               *)
THEOREM RegisteredAlways == Spec => []Registered
  BY InvAlways, PTL DEF IInv

(* As long as no admin refreshes a cluster, its recorded owner is the user *)
(* its containers are labelled with.                                       *)
THEOREM OwnerIsCreatorAlways == Spec => []OwnerIsCreator
  BY InvAlways, PTL DEF IInv

(* A kill without an error leaves no node running, if the cluster was      *)
(* complete when its nodes were listed.                                    *)
THEOREM KillEffectiveAlways == Spec => []KillEffective
<1>1. IInv => KillEffective
  BY DEF IInv, KillComplete, KillEffective
<1>2. QED
  BY <1>1, InvAlways, PTL

(* A lease that a refresh has stored is never cut back, whatever is        *)
(* refreshed, allocated or killed after it and whenever the daemon dies.   *)
THEOREM RefreshKeptAlways == Spec => []RefreshKept
  BY InvAlways, PTL DEF IInv

(* For the rollback of an allocation it always was. *)
THEOREM RollbackCompleteAlways == Spec => []RollbackComplete
<1>1. IInv => RollbackComplete
  BY DEF IInv, KillComplete, RollbackComplete, PhaseOK
<1>2. QED
  BY <1>1, InvAlways, PTL

(* Whoever is stopping nodes is entitled to. *)
LEMMA StopEntitled ==
  ASSUME IInv, NEW t \in Thread, pc[t] = "stop"
  PROVE  Entitled(t)
<1> USE ThreadKinds DEF IInv
<1>1. CASE t \in Cluster
  BY <1>1 DEF Entitled, CleanupJustified
<1>2. CASE t \in Req
  <2>1. req[t].op \in {"alloc", "kill"} /\ req[t].user # NoOwner
    BY <1>2 DEF PhaseOK, Valid, HasUser
  <2>2. ASSUME ~req[t].admin, ~AdminRefresh(cid(t))
        PROVE  meta[cid(t)] # NoMeta /\ meta[cid(t)].owner = req[t].user
    BY <1>2, <2>1, <2>2, RequestFields DEF OwnersAgree, OwnerIsCreator
  <2>3. QED
    BY <1>2, <2>1, <2>2 DEF Entitled
<1>3. QED
  BY <1>1, <1>2

(* The promise of the service: a running node is stopped only because its  *)
(* lease is over (or was refreshed too late for the cleanup under way), by *)
(* the rollback of its own allocation, or for its recorded owner or an     *)
(* admin.                                                                  *)
THEOREM LeaseHonouredAlways == Spec => LeaseHonoured
<1>1. ASSUME IInv, [Next]_vars
      PROVE  \A c \in Cluster, s \in Slot :
               cont[c][s] = "running" /\ cont'[c][s] # "running" =>
                 \E t \in Thread : cid(t) = c /\ pc[t] = "stop" /\ Entitled(t)
  BY <1>1, ContainerSteps, StopEntitled DEF IInv
<1>2. IInv /\ [Next]_vars =>
        [\A c \in Cluster, s \in Slot :
               cont[c][s] = "running" /\ cont'[c][s] # "running" =>
                 \E t \in Thread : cid(t) = c /\ pc[t] = "stop" /\ Entitled(t)]_vars
  BY <1>1
<1>3. QED
  BY <1>2, InvAlways, PTL DEF Spec, LeaseHonoured

-----------------------------------------------------------------------------
(* The use of the store. *)

(* A request writes a record that it was asked for.                        *)
LeaseAsked ==
  \A r \in Req : pc[r] \in {"register", "insert", "extend"} => newMeta(r) \in AskedRecord

LEMMA LeaseFrame ==
  ASSUME TypeOK, [Next]_vars, NEW r \in Req, pc'[r] \in {"register", "insert", "extend"}
  PROVE  \/ lease'[r] = lease[r] /\ pc[r] = pc'[r]
         \/ AllocateCluster(r) /\ lease'[r] = now + Lease
         \/ RefreshLookup(r) /\ lease'[r] = now + req[r].dur
<1> USE ThreadKinds, GotoStep
<1>1. ASSUME NEW q \in Req, RequestStep(q)
      PROVE  \/ lease'[r] = lease[r] /\ pc[r] = pc'[r]
             \/ AllocateCluster(r) /\ lease'[r] = now + Lease
             \/ RefreshLookup(r) /\ lease'[r] = now + req[r].dur
  <2>1. CASE q = r
    BY <1>1, <2>1 DEF RequestStep, Reject, AllocateCluster, CreateMeta, EnsureImage, CreateNode,
         StartNode, InspectNode, CollectNodes, KillCluster, RefreshCluster, RefreshLookup,
         RefreshInsert, RefreshExtend, RefreshFails, TypeOK
  <2>2. CASE q # r
    BY <1>1, <2>2 DEF RequestStep, Reject, AllocateCluster, CreateMeta, EnsureImage, CreateNode,
         StartNode, InspectNode, CollectNodes, KillCluster, RefreshCluster, RefreshLookup,
         RefreshInsert, RefreshExtend, RefreshFails, TypeOK
  <2>3. QED
    BY <2>1, <2>2
<1>2. ASSUME NEW t \in Thread, KillStep(t)
      PROVE  lease' = lease /\ pc[r] = pc'[r]
  BY <1>2 DEF KillStep, ListNodes, ListFails, CheckOwner, StopNode, KillReturns, Returned
<1>3. ASSUME CleanupStep \/ (\E c \in Cluster, s \in Slot : AutoRemove(c, s)) \/ Tick
             \/ Crash \/ Restart \/ UNCHANGED vars
      PROVE  lease' = lease /\ pc[r] = pc'[r]
  BY <1>3 DEF CleanupStep, CleanupList, CleanupRead, CleanupSpawn, CleanupDone, AutoRemove, Tick,
       Crash, Restart, vars, thread, Thread
<1>4. QED
  BY <1>1, <1>2, <1>3 DEF Next

LEMMA LeaseAskedStep ==
  ASSUME TypeOK, PhaseOK, now <= MaxTime, LeaseAsked, [Next]_vars
  PROVE  LeaseAsked'
<1> SUFFICES ASSUME NEW r \in Req, pc'[r] \in {"register", "insert", "extend"}
             PROVE  [owner |-> req[r].user, timeout |-> lease'[r]] \in AskedRecord
  BY RequestsFixed DEF LeaseAsked, newMeta
<1>1. now \in 0..MaxTime /\ req[r] \in Request
  BY LifecycleAssumption DEF TypeOK
<1>2. ASSUME lease'[r] = now + (IF req[r].op = "alloc" THEN Lease ELSE req[r].dur)
      PROVE  [owner |-> req[r].user, timeout |-> lease'[r]] \in AskedRecord
  BY <1>1, <1>2 DEF AskedRecord
<1>3. CASE lease'[r] = lease[r] /\ pc[r] = pc'[r]
  BY <1>3 DEF LeaseAsked, newMeta
<1>4. CASE AllocateCluster(r) /\ lease'[r] = now + Lease
  BY <1>2, <1>4 DEF AllocateCluster
<1>5. CASE RefreshLookup(r) /\ lease'[r] = now + req[r].dur
  BY <1>2, <1>5 DEF RefreshLookup, At, PhaseOK
<1>6. QED
  BY <1>3, <1>4, <1>5, LeaseFrame

LEMMA RegistryStep ==
  ASSUME TypeOK, LeaseAsked, [Next]_vars
  PROVE  [Registry!Next]_meta
<1>1. ASSUME NEW r \in Req, CreateMeta(r) \/ RefreshInsert(r), meta' # meta
      PROVE  Registry!Next
  <2>1. newMeta(r) \in AskedRecord /\ cid(r) \in Cluster
    BY <1>1, RequestFields DEF CreateMeta, RefreshInsert, At, LeaseAsked
  <2>2. /\ meta[cid(r)] = NoMeta \/ cid(r) \in Unreadable
        /\ meta' = [meta EXCEPT ![cid(r)] = serializeMeta(newMeta(r))]
    BY <1>1 DEF CreateMeta, RefreshInsert, newMeta
  <2>3. Registry!Register(cid(r), newMeta(r))
    BY <2>2 DEF Registry!Register, Registry!serializeMeta, serializeMeta, Registry!Second, Second
  <2>4. QED
    BY <2>1, <2>3 DEF Registry!Next
<1>2. ASSUME NEW r \in Req, RefreshExtend(r)
      PROVE  Registry!Next
  <2>1. newMeta(r) \in AskedRecord /\ cid(r) \in Cluster
    BY <1>2, RequestFields DEF RefreshExtend, At, LeaseAsked
  <2>2. /\ meta[cid(r)] # NoMeta
        /\ meta' = [meta EXCEPT ![cid(r)] = serializeMeta(refreshMeta(meta[cid(r)], newMeta(r)))]
    BY <1>2 DEF RefreshExtend
  <2>3. Registry!Refresh(cid(r), newMeta(r))
    BY <2>2 DEF Registry!Refresh, Registry!serializeMeta, serializeMeta, Registry!refreshMeta,
         refreshMeta, Registry!Second, Second
  <2>4. QED
    BY <2>1, <2>3 DEF Registry!Next
<1>3. QED
  BY <1>1, <1>2, MetaSteps

(* The daemon uses the store as a registry, so what MetaStore shows of its *)
(* transactions is all that the lifecycle relies on.                       *)
THEOREM RegistryUse == Spec => UsesRegistry
<1>1. Init => Registry!Init /\ LeaseAsked
  BY ThreadKinds DEF Init, Registry!Init, LeaseAsked
<1>2. IInv /\ LeaseAsked /\ [Next]_vars => LeaseAsked' /\ [Registry!Next]_meta
  BY LeaseAskedStep, RegistryStep DEF IInv
<1>3. QED
  BY <1>1, <1>2, InvAlways, PTL DEF Spec, UsesRegistry, Registry!Spec

=============================================================================
