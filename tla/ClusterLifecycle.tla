-------------------------- MODULE ClusterLifecycle --------------------------
(***************************************************************************)
(* The life of clusters in cbdynclusterd: what happens between a request   *)
(* reaching the REST server and its reply (daemon/restserver.go,           *)
(* daemon/clusters.go, daemon/nodes.go), and the cleanup routine that      *)
(* stops expired clusters (daemon/daemon.go).                              *)
(*                                                                         *)
(* A request handler is a thread r of Req.  The goroutine in which the     *)
(* cleanup routine runs killCluster for cluster c is the thread named c.   *)
(* A step is what happens between two calls that leave the daemon: to      *)
(* badger (atomic here, as MetaStore justifies) or to docker.  The docker  *)
(* host (external) outlives the daemon; any call to it may fail, with or   *)
(* without having had its effect.                                          *)
(***************************************************************************)
EXTENDS ClusterMeta

CONSTANTS
  Req,        \* requests
  Request,    \* what a request may ask for
  Legacy,     \* clusters with containers but no metadata when the daemon starts
  Panicky,    \* clusters whose record makes badger panic when it is read
  MaxNodes,   \* largest cluster that may be allocated (10)
  MaxLease,   \* longest lease that may be asked for (two weeks)
  Lease,      \* lease given to a new cluster (one hour)
  MaxTime,    \* bound: the clock stops here, before FarFuture
  MaxCrashes  \* bound: number of times the daemon dies

Slot == 1..MaxNodes     \* position of a node in opts.Nodes
Thread == Req \cup Cluster

(* size is len(opts.Nodes); dur the duration asked for; cid the cluster    *)
(* named in the URL or, for "alloc", the id that newRandomClusterID draws. *)
(* The user NoOwner stands for a missing or foreign cbdn-user header.      *)
ASSUME LifecycleAssumption ==
  /\ Request \subseteq [op : {"alloc", "refresh", "kill"}, user : Owner,
                        admin : BOOLEAN, cid : Cluster, size : Nat, dur : Int]
  /\ \A q \in Request : q.op = "alloc" => q.cid \notin Legacy
  /\ Req \cap Cluster = {}
  /\ Legacy \subseteq Cluster /\ Panicky \subseteq Cluster
  /\ MaxNodes \in Nat /\ MaxLease \in Nat /\ Lease \in Nat
  /\ MaxTime \in Nat /\ MaxTime < FarFuture /\ MaxCrashes \in Nat

VARIABLES
  now,      \* time.Now()
  meta,     \* the metadata store: a record or NoMeta for each cluster
  cont,     \* docker: state of the container of each node
  creator,  \* docker: the creator label of a cluster's containers
  up,       \* the daemon is running
  crashes,
  req,      \* what each request asks for
  pc,       \* where each thread is
  lease,    \* timeoutTime or newMeta.Timeout of a request
  gor,      \* the allocateNode goroutines of a request
  todo,     \* nodes that killCluster has still to stop
  failed,   \* killError # nil
  cleaner,  \* where the cleanup routine is
  unread,   \* clusters it has listed and not looked up yet
  expiry,   \* the timeout it read for each cluster (FarFuture before)
  quiet,    \* history: nothing was being allocated when the request listed the nodes
  raced     \* history: a refresh was stored after cleanup, now at work, read the timeout

Place == {"new", "ok", "err", "undone", "dropped", "lost", "idle",  \* waiting or returned
          "register", "image", "nodes",                   \* allocateCluster
          "list", "check", "stop",                        \* killCluster
          "lookup", "insert", "extend"}                   \* refreshCluster
NodePlace == {"none", "create", "start", "inspect", "ok", "fail"}
ContainerState == {"none", "created", "running", "exited"}

docker    == <<cont, creator>>
thread    == <<req, pc, lease, gor, todo, failed, quiet>>
cleanup   == <<cleaner, unread, expiry, raced>>
process   == <<up, crashes>>
vars      == <<now, meta, docker, thread, cleanup, process>>

cid(t)             == IF t \in Req THEN req[t].cid ELSE t
IgnoreOwnership(t) == t \in Req => req[t].admin
Nodes(c)           == {s \in Slot : cont[c][s] # "none"}

Init ==
  /\ now = 0
  /\ meta = [c \in Cluster |-> NoMeta]
  /\ cont = [c \in Cluster |-> [s \in Slot |->
               IF c \in Legacy THEN "running" ELSE "none"]]
  /\ creator \in [Cluster -> Owner]
  /\ \A c \in Cluster \ Legacy : creator[c] = NoOwner
  /\ up = TRUE
  /\ crashes = 0
  /\ req \in [Req -> Request]
  /\ pc = [t \in Thread |-> IF t \in Req THEN "new" ELSE "idle"]
  /\ lease = [r \in Req |-> 0]
  /\ gor = [r \in Req |-> [s \in Slot |-> "none"]]
  /\ todo = [t \in Thread |-> {}]
  /\ failed = [t \in Thread |-> FALSE]
  /\ quiet = [r \in Req |-> FALSE]
  /\ cleaner = "sleep"
  /\ unread = {}
  /\ expiry = [c \in Cluster |-> FarFuture]
  /\ raced = [c \in Cluster |-> FALSE]

-----------------------------------------------------------------------------
(* Shared helpers. *)

At(t, l)   == up /\ pc[t] = l
Goto(t, l) == pc' = [pc EXCEPT ![t] = l]

(* The possible results of GetClusterMeta: the record; an error and the    *)
(* default record; or, when badger panics, the zero record and no error.   *)
GetClusterMeta(c) ==
     {[err |-> meta[c] = NoMeta,
       rec |-> IF meta[c] = NoMeta THEN DEFAULT_CLUSTER_META ELSE meta[c]]}
  \cup {[err |-> TRUE, rec |-> DEFAULT_CLUSTER_META] : d \in {c} \cap Unreadable}
  \cup {[err |-> FALSE, rec |-> ZERO_CLUSTER_META] : d \in {c} \cap Panicky}

(* getAllClusters leaves out a cluster whose creator is not the caller.    *)
Visible(t, c) == ~IgnoreOwnership(t) => creator[c] = req[t].user

(* getHttpContext: the request names its user.                             *)
HasUser(q) == q.user # NoOwner

(* The checks that allocateCluster begins with.                            *)
Valid(q) ==
  /\ HasUser(q)
  /\ q.op = "alloc" => /\ q.dur >= 0 /\ q.dur <= MaxLease
                       /\ q.size > 0 /\ q.size <= MaxNodes

(* The bad request is answered at once.                                    *)
Reject(r) ==
  /\ At(r, "new") /\ ~Valid(req[r])
  /\ Goto(r, "err")
  /\ UNCHANGED <<now, meta, docker, req, lease, gor, todo, failed, quiet, cleanup, process>>

-----------------------------------------------------------------------------
(* allocateCluster.                                                        *)

(* The lease is fixed before the image is built; opts.Timeout is not used. *)
AllocateCluster(r) ==
  /\ At(r, "new") /\ req[r].op = "alloc" /\ Valid(req[r])
  /\ lease' = [lease EXCEPT ![r] = now + Lease]
  /\ Goto(r, "register")
  /\ UNCHANGED <<now, meta, docker, req, gor, todo, failed, quiet, cleanup, process>>

(* Mutants: the error is not looked at; a taken id is not refused.         *)
CreateMetaUnchecked(r) ==
  /\ At(r, "register")
  /\ meta' \in {meta, [meta EXCEPT ![cid(r)] =
                serializeMeta([owner |-> req[r].user, timeout |-> lease[r]])]}
  /\ meta[cid(r)] # NoMeta => meta' = meta
  /\ Goto(r, "image")
  /\ UNCHANGED <<now, docker, req, lease, gor, todo, failed, quiet, cleanup, process>>

CreateMetaOverwrites(r) ==
  /\ At(r, "register")
  /\ meta' = [meta EXCEPT ![cid(r)] =
                serializeMeta([owner |-> req[r].user, timeout |-> lease[r]])]
  /\ Goto(r, "image")
  /\ UNCHANGED <<now, docker, req, lease, gor, todo, failed, quiet, cleanup, process>>

(* CreateClusterMeta refuses an id that is taken.  An error may also be    *)
(* reported once the record is stored.  (newRandomClusterID may draw an id *)
(* again, but not that of a record that badger fails to read as well.)     *)
CreateMeta(r) ==
  /\ At(r, "register")
  /\ \/ /\ meta[cid(r)] = NoMeta
        /\ meta' = [meta EXCEPT ![cid(r)] =
                      serializeMeta([owner |-> req[r].user, timeout |-> lease[r]])]
        /\ Goto(r, "image") \/ Goto(r, "err")
     \/ Goto(r, "err") /\ meta' = meta
  /\ UNCHANGED <<now, docker, req, lease, gor, todo, failed, quiet, cleanup, process>>

(* ensureImageExists (external); then the goroutines are started.          *)
EnsureImage(r) ==
  /\ At(r, "image")
  /\ \/ /\ gor' = [gor EXCEPT ![r] = [s \in Slot |->
                     IF s <= req[r].size THEN "create" ELSE "none"]]
        /\ Goto(r, "nodes")
     \/ Goto(r, "err") /\ gor' = gor
  /\ UNCHANGED <<now, meta, docker, req, lease, todo, failed, quiet, cleanup, process>>

(* allocateNode: ContainerCreate, with the labels.                         *)
CreateNode(r, s) ==
  /\ up /\ gor[r][s] = "create"
  /\ \/ /\ cont[cid(r)][s] = "none"
        /\ cont' = [cont EXCEPT ![cid(r)][s] = "created"]
        /\ creator' = [creator EXCEPT ![cid(r)] = req[r].user]
        /\ \E g \in {"start", "fail"} : gor' = [gor EXCEPT ![r][s] = g]
     \/ gor' = [gor EXCEPT ![r][s] = "fail"] /\ UNCHANGED docker
  /\ UNCHANGED <<now, meta, req, pc, lease, todo, failed, quiet, cleanup, process>>

(* ContainerStart.  A container that docker fails to start is removed (the *)
(* AutoRemove option); one whose start request is lost stays as it is.     *)
StartNode(r, s) ==
  /\ up /\ gor[r][s] = "start"
  /\ \/ /\ cont[cid(r)][s] = "created"
        /\ \/ /\ cont' = [cont EXCEPT ![cid(r)][s] = "running"]
              /\ \E g \in {"inspect", "fail"} : gor' = [gor EXCEPT ![r][s] = g]
           \/ /\ cont' = [cont EXCEPT ![cid(r)][s] = "none"]
              /\ gor' = [gor EXCEPT ![r][s] = "fail"]
     \/ gor' = [gor EXCEPT ![r][s] = "fail"] /\ cont' = cont
  /\ UNCHANGED <<now, meta, creator, req, pc, lease, todo, failed, quiet, cleanup, process>>

(* ContainerInspect.  The DNS registration after it cannot fail the node.  *)
InspectNode(r, s) ==
  /\ up /\ gor[r][s] = "inspect"
  /\ \E g \in {"ok", "fail"} :
       /\ g = "ok" => cont[cid(r)][s] # "none"
       /\ gor' = [gor EXCEPT ![r][s] = g]
  /\ UNCHANGED <<now, meta, docker, req, pc, lease, todo, failed, quiet, cleanup, process>>

(* Mutant: the first error ends the wait, the other goroutines run on.     *)
CollectNodesEarly(r) ==
  /\ At(r, "nodes")
  /\ \/ /\ \E s \in Slot : gor[r][s] = "fail"
        /\ Goto(r, "list") /\ gor' = gor
     \/ /\ \A s \in Slot : gor[r][s] \in {"none", "ok"}
        /\ Goto(r, "ok")
        /\ gor' = [gor EXCEPT ![r] = [s \in Slot |-> "none"]]
  /\ UNCHANGED <<now, meta, docker, req, lease, todo, failed, quiet, cleanup, process>>

(* All goroutines have signalled.  After an error the handler goes on into *)
(* killCluster.                                                            *)
CollectNodes(r) ==
  /\ At(r, "nodes")
  /\ \A s \in Slot : gor[r][s] \in {"none", "ok", "fail"}
  /\ Goto(r, IF \E s \in Slot : gor[r][s] = "fail" THEN "list" ELSE "ok")
  /\ gor' = [gor EXCEPT ![r] = [s \in Slot |-> "none"]]
  /\ UNCHANGED <<now, meta, docker, req, lease, todo, failed, quiet, cleanup, process>>

-----------------------------------------------------------------------------
(* killCluster: called by the DELETE handler, by allocateCluster after an  *)
(* error, and by cleanup.                                                  *)

KillCluster(r) ==
  /\ At(r, "new") /\ req[r].op = "kill" /\ Valid(req[r])
  /\ Goto(r, "list")
  /\ UNCHANGED <<now, meta, docker, req, lease, gor, todo, failed, quiet, cleanup, process>>

(* An allocation of c is past its registration and may still add nodes.    *)
Allocating(c) ==
  \E r \in Req : /\ req[r].op = "alloc" /\ req[r].cid = c
                 /\ \/ pc[r] \in {"image", "nodes"}
                    \/ \E s \in Slot : gor[r][s] # "none"

(* getCluster: ContainerList.                                              *)
ListNodes(t) ==
  /\ At(t, "list") /\ Nodes(cid(t)) # {}
  /\ todo' = [todo EXCEPT ![t] = Nodes(cid(t))]
  /\ quiet' = [r \in Req |-> IF r = t THEN ~Allocating(cid(t)) ELSE quiet[r]]
  /\ Goto(t, "check")
  /\ UNCHANGED <<now, meta, docker, req, lease, gor, failed, cleanup, process>>

(* What killCluster's caller does with its result.  allocateCluster drops  *)
(* it and returns createError: "undone" is the error reply of an           *)
(* allocation whose rollback met no error.                                 *)
Returned(t, l) ==
  Goto(t, IF t \in Cluster THEN "idle"
          ELSE IF l = "ok" /\ req[t].op = "alloc" THEN "undone"
          ELSE l)

(* ContainerList failed (docker, or the client went away and ctx is        *)
(* cancelled) or listed no container: "cluster not found".                 *)
ListFails(t) ==
  /\ At(t, "list")
  /\ Returned(t, "err")
  /\ UNCHANGED <<now, meta, docker, req, lease, gor, todo, failed, quiet, cleanup, process>>

(* Mutant: anyone may.                                                     *)
MayKillAnyone(t, g) == TRUE

(* getCluster reads the metadata; only a cluster that the caller created   *)
(* is found, and only one that the caller owns may be killed.              *)
MayKill(t, g) ==
  /\ Visible(t, cid(t))
  /\ ~IgnoreOwnership(t) => g.rec.owner = req[t].user

CheckOwner(t) ==
  /\ At(t, "check")
  /\ \E g \in GetClusterMeta(cid(t)) :
       \/ MayKill(t, g) /\ Goto(t, "stop") /\ todo' = todo
       \/ ~MayKill(t, g) /\ Returned(t, "err") /\ todo' = [todo EXCEPT ![t] = {}]
  /\ UNCHANGED <<now, meta, docker, req, lease, gor, failed, quiet, cleanup, process>>

(* killNode: ContainerStop.  Stopping a container that is not running is   *)
(* no error and changes nothing; a removed container is an error.          *)
StopNode(t, s) ==
  LET c == cid(t)
      stopped == [cont EXCEPT ![c][s] = IF @ = "running" THEN "exited" ELSE @]
  IN  /\ At(t, "stop") /\ s \in todo[t]
      /\ todo' = [todo EXCEPT ![t] = @ \ {s}]
      /\ \/ cont[c][s] # "none" /\ cont' = stopped /\ failed' = failed
         \/ cont' \in {cont, stopped} /\ failed' = [failed EXCEPT ![t] = TRUE]
      /\ UNCHANGED <<now, meta, creator, req, pc, lease, gor, quiet, cleanup, process>>

(* Mutants: killError is dropped; a failed goroutine does not signal.      *)
KillReturnsOk(t) ==
  /\ At(t, "stop") /\ todo[t] = {}
  /\ Returned(t, "ok")
  /\ failed' = [failed EXCEPT ![t] = FALSE]
  /\ UNCHANGED <<now, meta, docker, req, lease, gor, todo, quiet, cleanup, process>>

KillReturnsUnsignalled(t) ==
  /\ At(t, "stop") /\ todo[t] = {} /\ ~failed[t]
  /\ Returned(t, "ok")
  /\ UNCHANGED <<now, meta, docker, req, lease, gor, todo, failed, quiet, cleanup, process>>

(* All killNode goroutines have signalled.                                 *)
KillReturns(t) ==
  /\ At(t, "stop") /\ todo[t] = {}
  /\ Returned(t, IF failed[t] THEN "err" ELSE "ok")
  /\ failed' = [failed EXCEPT ![t] = FALSE]
  /\ UNCHANGED <<now, meta, docker, req, lease, gor, todo, quiet, cleanup, process>>

-----------------------------------------------------------------------------
(* refreshCluster, from HttpUpdateCluster, which answers 200 in any case.  *)

(* getCluster: "Check the cluster actuall exists".                         *)
RefreshCluster(r) ==
  /\ At(r, "new") /\ req[r].op = "refresh" /\ Valid(req[r])
  /\ Nodes(cid(r)) # {} /\ Visible(r, cid(r))
  /\ Goto(r, "lookup")
  /\ UNCHANGED <<now, meta, docker, req, lease, gor, todo, failed, quiet, cleanup, process>>

RefreshLookup(r) ==
  /\ At(r, "lookup")
  /\ lease' = [lease EXCEPT ![r] = now + req[r].dur]
  /\ \E g \in GetClusterMeta(cid(r)) : Goto(r, IF g.err THEN "insert" ELSE "extend")
  /\ UNCHANGED <<now, meta, docker, req, gor, todo, failed, quiet, cleanup, process>>

newMeta(r) == [owner |-> req[r].user, timeout |-> lease[r]]

(* "If we failed to fetch the cluster metadata, just insert some instead". *)
RefreshInsert(r) ==
  /\ At(r, "insert")
  /\ meta[cid(r)] = NoMeta \/ cid(r) \in Unreadable
  /\ meta' = [meta EXCEPT ![cid(r)] = serializeMeta(newMeta(r))]
  /\ raced' = [raced EXCEPT ![cid(r)] = (cleaner # "sleep")]
  /\ Goto(r, "ok")
  /\ UNCHANGED <<now, docker, req, lease, gor, todo, failed, quiet,
                 cleaner, unread, expiry, process>>

(* Mutant: the shorter lease wins if it comes later.                       *)
RefreshExtendForced(r) ==
  /\ At(r, "extend") /\ meta[cid(r)] # NoMeta
  /\ meta' = [meta EXCEPT ![cid(r)] = serializeMeta(newMeta(r))]
  /\ raced' = [raced EXCEPT ![cid(r)] = (cleaner # "sleep")]
  /\ Goto(r, "ok")
  /\ UNCHANGED <<now, docker, req, lease, gor, todo, failed, quiet,
                 cleaner, unread, expiry, process>>

RefreshExtend(r) ==
  /\ At(r, "extend") /\ meta[cid(r)] # NoMeta
  /\ meta' = [meta EXCEPT ![cid(r)] = serializeMeta(refreshMeta(@, newMeta(r)))]
  /\ raced' = [raced EXCEPT ![cid(r)] = (cleaner # "sleep")]
  /\ Goto(r, "ok")
  /\ UNCHANGED <<now, docker, req, lease, gor, todo, failed, quiet,
                 cleaner, unread, expiry, process>>

(* refreshCluster returned an error: the cluster was not found, docker or  *)
(* badger failed, or the record to insert was there after all.  The        *)
(* handler answers 200 here too.                                           *)
RefreshFails(r) ==
  /\ At(r, "insert") \/ At(r, "extend")
       \/ (At(r, "new") /\ req[r].op = "refresh" /\ Valid(req[r]))
  /\ Goto(r, "dropped")
  /\ UNCHANGED <<now, meta, docker, req, lease, gor, todo, failed, quiet, cleanup, process>>

-----------------------------------------------------------------------------
(* cleanupClusters, every five minutes.                                    *)

(* getAllClusters(systemCtx): ContainerList.  When it fails the routine    *)
(* just goes back to sleep.                                                *)
CleanupList ==
  /\ up /\ cleaner = "sleep"
  /\ cleaner' = "read"
  /\ unread' = {c \in Cluster : Nodes(c) # {}}
  /\ UNCHANGED <<now, meta, docker, thread, expiry, raced, process>>

CleanupRead(c) ==
  /\ up /\ cleaner = "read" /\ c \in unread
  /\ unread' = unread \ {c}
  /\ \E g \in GetClusterMeta(c) : expiry' = [expiry EXCEPT ![c] = g.rec.timeout]
  /\ raced' = [raced EXCEPT ![c] = FALSE]
  /\ UNCHANGED <<now, meta, docker, thread, cleaner, process>>

(* Mutant: After for Before.                                               *)
CleanupSpawnAfter ==
  /\ up /\ cleaner = "read" /\ unread = {}
  /\ cleaner' = "wait"
  /\ pc' = [t \in Thread |->
              IF t \in Cluster /\ expiry[t] # FarFuture /\ expiry[t] > now
              THEN "list" ELSE pc[t]]
  /\ expiry' = [c \in Cluster |-> FarFuture]
  /\ UNCHANGED <<now, meta, docker, req, lease, gor, todo, failed, quiet,
                 unread, raced, process>>

(* cluster.Timeout.Before(time.Now()) *)
CleanupSpawn ==
  /\ up /\ cleaner = "read" /\ unread = {}
  /\ cleaner' = "wait"
  /\ pc' = [t \in Thread |-> IF t \in Cluster /\ expiry[t] < now THEN "list" ELSE pc[t]]
  /\ expiry' = [c \in Cluster |-> FarFuture]
  /\ UNCHANGED <<now, meta, docker, req, lease, gor, todo, failed, quiet,
                 unread, raced, process>>

(* Mutant: the goroutines are not waited for.                              *)
CleanupDoneUnwaited ==
  /\ up /\ cleaner = "wait"
  /\ cleaner' = "sleep"
  /\ raced' = [c \in Cluster |-> FALSE]
  /\ UNCHANGED <<now, meta, docker, thread, unread, expiry, process>>

CleanupDone ==
  /\ up /\ cleaner = "wait"
  /\ \A c \in Cluster : pc[c] = "idle"
  /\ cleaner' = "sleep"
  /\ raced' = [c \in Cluster |-> FALSE]
  /\ UNCHANGED <<now, meta, docker, thread, unread, expiry, process>>

-----------------------------------------------------------------------------
(* The environment.                                                        *)

(* docker removes a stopped container (AutoRemove; external).              *)
AutoRemove(c, s) ==
  /\ cont[c][s] = "exited"
  /\ cont' = [cont EXCEPT ![c][s] = "none"]
  /\ UNCHANGED <<now, meta, creator, thread, cleanup, process>>

Tick ==
  /\ now < MaxTime
  /\ now' = now + 1
  /\ UNCHANGED <<meta, docker, thread, cleanup, process>>

(* The process ends: killed, a panic in a goroutine, or startDaemon        *)
(* returning after a shutdown signal with requests in flight.  Every       *)
(* thread goes; clients see the connection close.                          *)
Crash ==
  /\ up /\ crashes < MaxCrashes
  /\ up' = FALSE
  /\ crashes' = crashes + 1
  /\ pc' = [t \in Thread |->
              IF t \in Cluster THEN "idle"
              ELSE IF pc[t] \in {"new", "ok", "err", "undone", "dropped"} THEN pc[t]
              ELSE "lost"]
  /\ todo' = [t \in Thread |-> {}]
  /\ gor' = [r \in Req |-> [s \in Slot |-> "none"]]
  /\ failed' = [t \in Thread |-> FALSE]
  /\ cleaner' = "sleep"
  /\ unread' = {}
  /\ expiry' = [c \in Cluster |-> FarFuture]
  /\ raced' = [c \in Cluster |-> FALSE]
  /\ UNCHANGED <<now, meta, docker, req, lease, quiet>>

(* startDaemon: badger is reopened, docker is asked for nothing but a list *)
(* to print.                                                               *)
Restart ==
  /\ ~up
  /\ up' = TRUE
  /\ UNCHANGED <<now, meta, docker, thread, cleanup, crashes>>

-----------------------------------------------------------------------------

RequestStep(r) ==
  \/ Reject(r) \/ AllocateCluster(r) \/ CreateMeta(r) \/ EnsureImage(r)
  \/ \E s \in Slot : CreateNode(r, s) \/ StartNode(r, s) \/ InspectNode(r, s)
  \/ CollectNodes(r)
  \/ KillCluster(r)
  \/ RefreshCluster(r) \/ RefreshLookup(r) \/ RefreshInsert(r)
  \/ RefreshExtend(r) \/ RefreshFails(r)

KillStep(t) ==
  \/ ListNodes(t) \/ ListFails(t) \/ CheckOwner(t)
  \/ \E s \in Slot : StopNode(t, s)
  \/ KillReturns(t)

CleanupStep ==
  CleanupList \/ (\E c \in Cluster : CleanupRead(c)) \/ CleanupSpawn \/ CleanupDone

Next ==
  \/ \E r \in Req : RequestStep(r)
  \/ \E t \in Thread : KillStep(t)
  \/ CleanupStep
  \/ \E c \in Cluster, s \in Slot : AutoRemove(c, s)
  \/ Tick \/ Crash \/ Restart

Spec == Init /\ [][Next]_vars

-----------------------------------------------------------------------------

TypeOK ==
  /\ now \in Nat
  /\ meta \in [Cluster -> ClusterMetaRecord \cup {NoMeta}]
  /\ cont \in [Cluster -> [Slot -> ContainerState]]
  /\ creator \in [Cluster -> Owner]
  /\ up \in BOOLEAN /\ crashes \in Nat
  /\ req \in [Req -> Request]
  /\ pc \in [Thread -> Place]
  /\ lease \in [Req -> Int]
  /\ gor \in [Req -> [Slot -> NodePlace]]
  /\ todo \in [Thread -> SUBSET Slot]
  /\ failed \in [Thread -> BOOLEAN]
  /\ quiet \in [Req -> BOOLEAN]
  /\ cleaner \in {"sleep", "read", "wait"}
  /\ unread \in SUBSET Cluster
  /\ expiry \in [Cluster -> Int]
  /\ raced \in [Cluster -> BOOLEAN]

Expired(c) == meta[c] # NoMeta /\ meta[c].timeout < now

(* No container is without a lease: a crash or an error between the calls  *)
(* of allocateCluster can leave a record without containers, never a       *)
(* container that cleanup would spare until the year 2222.                 *)
Registered ==
  \A c \in Cluster \ Legacy : Nodes(c) # {} => meta[c] # NoMeta

(* An admin may refresh the cluster, and thereby take it over.             *)
AdminRefresh(c) ==
  \E r \in Req : req[r].op = "refresh" /\ req[r].cid = c /\ req[r].admin

(* Ownership is checked against two different things, the creator label    *)
(* and the owner in the store.  Unless an admin refreshes the cluster they *)
(* agree, through any interleaving of allocations and refreshes.           *)
OwnerIsCreator ==
  \A c \in Cluster : ~AdminRefresh(c) /\ meta[c] # NoMeta /\ creator[c] # NoOwner
    => meta[c].owner = creator[c]

(* Why thread t may be stopping nodes of its cluster: cleanup stops an     *)
(* expired one (or one refreshed since cleanup looked); allocateCluster    *)
(* undoes its own allocation; a request kills a cluster whose recorded     *)
(* owner it is at this moment, whatever happened since its check.          *)
Entitled(t) ==
  IF t \in Cluster THEN Expired(t) \/ raced[t] \/ t \in Panicky
  ELSE \/ req[t].op = "alloc"
       \/ req[t].op = "kill"
            /\ \/ req[t].admin
               \/ AdminRefresh(cid(t))
               \/ meta[cid(t)] # NoMeta /\ meta[cid(t)].owner = req[t].user

(* The promise of the service: a running node is taken from its user only  *)
(* by a thread that is entitled to.                                        *)
LeaseHonoured ==
  [][\A c \in Cluster, s \in Slot :
       cont[c][s] = "running" /\ cont'[c][s] # "running" =>
         \E t \in Thread : cid(t) = c /\ pc[t] = "stop" /\ Entitled(t)]_vars

(* killCluster returned nil to its caller.                                 *)
Killed(r) == \/ req[r].op = "kill" /\ pc[r] = "ok"
             \/ pc[r] = "undone"

(* A kill or a rollback that met no error has stopped the whole cluster,   *)
(* however the kills of other threads interleave with it, provided that no *)
(* node was still being allocated when it listed them.                     *)
KillEffective ==
  \A r \in Req : Killed(r) /\ quiet[r] =>
    \A s \in Slot : cont[cid(r)][s] # "running"

(* The lease that a refresh has stored is not cut back by anything later:  *)
(* a shorter refresh, another allocation that draws the same id, a crash,  *)
(* or the loss of the fraction of a second when the record is stored       *)
(* again.  (A refresh that ends as "dropped" gave no lease, though its     *)
(* reply is the same.)                                                     *)
RefreshKept ==
  \A r \in Req :
    req[r].op = "refresh" /\ pc[r] = "ok" /\ cid(r) \notin Unreadable =>
      /\ meta[cid(r)] # NoMeta
      /\ meta[cid(r)].timeout >= serializeMeta(newMeta(r)).timeout

(* allocateCluster waits for all of its goroutines before it kills, so its *)
(* rollback always lists a cluster that no longer grows.                   *)
RollbackComplete == \A r \in Req : pc[r] = "undone" => quiet[r]

(* The records that requests lead to: a new cluster's lease, or the one a  *)
(* refresh asks for, counted from when the request was handled.            *)
AskedRecord ==
  {[owner |-> q.user, timeout |-> t + (IF q.op = "alloc" THEN Lease ELSE q.dur)] :
     q \in Request, t \in 0..MaxTime}

Registry == INSTANCE MetaRegistry WITH db <- meta, Record <- AskedRecord

(* The daemon uses the store only as a registry: every change to a record, *)
(* whatever thread makes it and whenever the daemon dies, enters a cluster *)
(* that has none that can be read, or refreshes the record stored at that  *)
(* moment.  MetaStore implements the same registry with transactions.      *)
UsesRegistry == Registry!Spec

-----------------------------------------------------------------------------
(* Liveness.  The daemon's goroutines run and the calls they wait for      *)
(* return; docker and badger fail sometimes but not each time; the clock   *)
(* advances and docker removes what it stopped.  Nothing is assumed of     *)
(* crashes and restarts.                                                   *)

Fairness ==
  /\ WF_vars(Tick)
  /\ \A c \in Cluster, s \in Slot : WF_vars(AutoRemove(c, s))
  /\ \A r \in Req : WF_vars(pc[r] # "new" /\ RequestStep(r))
  /\ \A t \in Thread : WF_vars(KillStep(t)) /\ SF_vars(ListNodes(t))
  /\ \A c \in Cluster, s \in Slot : SF_vars(StopNode(c, s) /\ failed'[c] = failed[c])
  /\ WF_vars(CleanupStep)

FairSpec == Spec /\ Fairness

Done(t) == pc[t] \in {"ok", "err", "undone", "dropped", "lost", "idle"}

(* Every request that the daemon has taken up is answered, unless the      *)
(* daemon dies: no handler waits for ever for its goroutines.              *)
Answered ==
  \A r \in Req : (pc[r] # "new") ~> Done(r)

(* If the daemon eventually stays up, no node outlives its lease: cleanup  *)
(* comes round until the node is gone, through crashes at any point of an  *)
(* allocation and any number of failed calls.  (A lease that ends after    *)
(* the model's clock is left out.)                                         *)
Reclaimed ==
  <>[]up => \A c \in Cluster, s \in Slot :
    (meta[c] # NoMeta /\ cont[c][s] = "running")
      ~> (cont[c][s] = "none" \/ meta[c].timeout >= MaxTime)

-----------------------------------------------------------------------------
(* What a message of the code says and the code does not do.               *)

(* "Cleaning up dead clusters": a cluster that cleanup is stopping is past *)
(* its timeout.                                                            *)
OnlyDeadCleaned == \A c \in Cluster : pc[c] = "stop" => Expired(c)

-----------------------------------------------------------------------------
(* The inductive invariant. *)

(* allocateCluster is waiting for its goroutines whenever there are any.   *)
GoroutinesAwaited ==
  \A r \in Req, s \in Slot : gor[r][s] # "none" => pc[r] = "nodes"

(* The places each kind of thread passes through; cleanup waits for all of *)
(* its killers.                                                            *)
PhaseOK ==
  /\ GoroutinesAwaited
  /\ cleaner # "wait" => \A c \in Cluster : pc[c] = "idle"
  /\ \A c \in Cluster : pc[c] \in {"idle", "list", "check", "stop"}
  /\ \A r \in Req :
       /\ pc[r] # "idle"
       /\ pc[r] \in {"register", "image", "nodes", "undone"} => req[r].op = "alloc"
       /\ pc[r] \in {"lookup", "insert", "extend"} => req[r].op = "refresh"
       /\ pc[r] \in {"list", "check", "stop"} => req[r].op \in {"alloc", "kill"}
       /\ pc[r] \notin {"new", "err"} => Valid(req[r])
  /\ \A t \in Thread : failed[t] => pc[t] = "stop"

(* An allocation that holds its cluster id: registered and not answered.   *)
AllocInFlight(r) ==
  req[r].op = "alloc" /\ pc[r] \in {"image", "nodes", "list", "check", "stop"}

AllocRegistered ==
  \A r \in Req : AllocInFlight(r) => meta[cid(r)] # NoMeta

AllocAlone ==
  \A r, q \in Req : AllocInFlight(r) /\ AllocInFlight(q) /\ cid(r) = cid(q) => r = q

(* The owner is the user that allocates the cluster, and a caller once     *)
(* found to be the creator still is.                                       *)
OwnersAgree ==
  /\ \A c \in Cluster \ Legacy : creator[c] # NoOwner => meta[c] # NoMeta
  /\ \A r \in Req : ~AdminRefresh(cid(r)) =>
       /\ AllocInFlight(r) => meta[cid(r)].owner = req[r].user
       /\ ~req[r].admin /\ pc[r] \in {"lookup", "insert", "extend", "stop"} =>
            creator[cid(r)] = req[r].user
       /\ ~req[r].admin /\ pc[r] = "stop" => meta[cid(r)] # NoMeta

(* What cleanup has read is still so, or a refresh has come in between.    *)
CleanupJustified ==
  \A c \in Cluster \ Panicky :
    /\ \/ expiry[c] >= FarFuture
       \/ cleaner = "read" /\ (raced[c] \/ (meta[c] # NoMeta
                                             /\ meta[c].timeout = expiry[c]))
    /\ pc[c] # "idle" => Expired(c) \/ raced[c]

(* Cluster c does not grow any more.                                       *)
Settled(c) == ~Allocating(c) /\ (c \in Legacy \/ meta[c] # NoMeta)

(* What is left to stop of a cluster that was complete when it was listed. *)
KillComplete ==
  \A r \in Req :
    /\ req[r].op = "alloc" /\ pc[r] \in {"check", "stop", "undone"} => quiet[r]
    /\ quiet[r] /\ pc[r] \in {"check", "stop"} =>
         /\ Settled(cid(r))
         /\ \A s \in Slot : cont[cid(r)][s] = "running" => s \in todo[r] \/ failed[r]
    /\ quiet[r] /\ Killed(r) =>
         /\ Settled(cid(r))
         /\ \A s \in Slot : cont[cid(r)][s] # "running"

(* Every stored time is a whole second, so storing it again changes nothing. *)
WholeSeconds ==
  \A c \in Cluster : meta[c] # NoMeta => meta[c].timeout % Second = 0

IInv ==
  /\ TypeOK /\ now <= MaxTime
  /\ PhaseOK /\ AllocRegistered /\ AllocAlone /\ Registered
  /\ OwnersAgree /\ OwnerIsCreator
  /\ CleanupJustified
  /\ KillComplete
  /\ WholeSeconds /\ RefreshKept

=============================================================================
