---------------------------- MODULE ClusterSetup ----------------------------
(***************************************************************************)
(* Turning the allocated nodes into a Couchbase cluster: HttpSetupCluster  *)
(* (daemon/restserver.go), SetupCluster (daemon/setup.go), StartCluster    *)
(* and setupNewCluster (cluster/manager.go), and the calls they make on    *)
(* nodes (cluster/node.go).                                                *)
(*                                                                         *)
(* A handler h sets the same cluster up again and again, free to fail      *)
(* where it can; nothing keeps the handlers apart.  A call goes through    *)
(* helper.RestRetryer: up to RestRetry attempts, none after a refusal.     *)
(* What that leaves to tell apart (see RestRetry) is: the call took effect *)
(* and succeeded; it failed; it took effect and failed.                    *)
(* The couchbase servers are external; their state is the entry point's    *)
(* view of the cluster.                                                    *)
(***************************************************************************)
EXTENDS Naturals, Sequences

CONSTANTS
  N,          \* number of allocated nodes; node 1 is m.epNode
  Handler,    \* handlers that may set up the cluster at the same time
  Config,     \* what a setup may ask for
  MaxSetups   \* bound: number of setups

Aux == 2..N
Run == 1..MaxSetups

(* services is len(reqData.Services); modern is version.Major >= 5; user   *)
(* and bucket are pointers, and their names may be empty.  rename is       *)
(* UseHostname; UseIpv6 only changes the name that getEpNode looks for, to *)
(* one that the servers may not know, which it may panic on anyway.        *)
Ask == [services : Nat, rename : BOOLEAN, storage : BOOLEAN, modern : BOOLEAN,
        user : {"nil", "empty", "named"}, bucket : {"nil", "empty", "named"},
        preview : BOOLEAN]

ASSUME SetupAssumption ==
  N \in Nat \ {0} /\ MaxSetups \in Nat /\ Config \subseteq Ask /\ Config # {}

VARIABLES
  \* the handlers
  pc,        \* where each handler is
  mgr,       \* its manager: see New
  setups,    \* number of setups begun
  poll,      \* the PollJoinReady goroutines of every setup
  kick,      \* the failOverAndEject goroutines of every setup
  \* the servers
  applied,   \* what is configured on the entry point
  member,    \* clusterMembership of the other nodes
  ready,     \* clusterCompatibility > 0
  rebal, rebalErr,  \* rebalanceProgress: status and errorMessage
  bucket,
  leaving,   \* the entry point has been told to leave and has not yet
  clean      \* history: nothing that others began has spoilt the handler's setup

manager == <<mgr, setups>>
gor     == <<poll, kick>>
server  == <<applied, member, ready, rebal, rebalErr, bucket, leaving>>
vars    == <<pc, manager, gor, server, clean>>

Replied == {"idle", "ok", "err", "panic", "dead"}
Clearing == {"info", "stop", "clear", "drop", "eject", "leave"}     \* StartCluster
Building ==
  {"version", "configure", "poll", "add", "rebalance",             \* setupNewCluster
   "pollRebalance", "bucket", "waitBucket", "preview"}
Place   == Replied \cup Clearing \cup Building
Setting == {"quota", "rename", "services", "storage", "provision", "user", "preview"}

(* A manager: the number of its setup; m.Config; len(existingCluster) > 0; *)
(* what the poolsNodes of the entry point make of each other node; the     *)
(* calls still to make before it polls; the node that is being added, and  *)
(* whether AddNode is being tried again; failed rebalances.                *)
New(s, q) == [run |-> s, conf |-> q, existing |-> FALSE,
              poolsNodes |-> [n \in Aux |-> "none"], plan |-> <<>>,
              next |-> 2, again |-> FALSE, round |-> 0]

Init ==
  /\ pc = [h \in Handler |-> "idle"]
  /\ \E q \in Config : mgr = [h \in Handler |-> New(0, q)]
  /\ setups = 0
  /\ poll = [s \in Run |-> [n \in Aux |-> "none"]]
  /\ kick = [s \in Run |-> [n \in Aux |-> "none"]]
  /\ applied = {}
  /\ member = [n \in Aux |-> "single"]
  /\ ready = [n \in Aux |-> FALSE]
  /\ rebal = "idle" /\ rebalErr = FALSE
  /\ bucket = "none"
  /\ leaving = FALSE /\ clean = [h \in Handler |-> TRUE]

At(h, l)    == pc[h] = l
Goto(h, l)  == pc' = [pc EXCEPT ![h] = l]
Fails(h, l) == At(h, l) /\ Goto(h, "err")
run(h)      == mgr[h].run
conf(h)     == mgr[h].conf

(* A goroutine that has not put its result into the channel.               *)
Kicking(s, n) == kick[s][n] \in {"failover", "eject"}

(* A step of setup s undoes something that the setups under construction   *)
(* or finished may have done.                                              *)
Spoil(s) ==
  clean' = [h \in Handler |->
              clean[h] /\ (run(h) = s \/ pc[h] \in Clearing \cup {"version"})]

-----------------------------------------------------------------------------
(* StartCluster. *)

(* HttpSetupCluster counts the services before it calls SetupCluster.      *)
SetupCluster(h, q) ==
  /\ pc[h] \in Replied /\ setups < MaxSetups
  /\ setups' = setups + 1
  /\ mgr' = [mgr EXCEPT ![h] = New(setups + 1, q)]
  /\ Goto(h, IF q.services = N THEN "info" ELSE "err")
  /\ clean' = [clean EXCEPT ![h] = TRUE]
  /\ UNCHANGED <<gor, server>>

(* GetInfo of every node.  A node has a pool once the cluster it belongs   *)
(* to is provisioned.                                                      *)
StartCluster(h) ==
  /\ \/ /\ At(h, "info") /\ Goto(h, "stop")
        /\ mgr' = [mgr EXCEPT ![h].existing = ("provision" \in applied)]
     \/ Fails(h, "info") /\ mgr' = mgr
  /\ UNCHANGED <<setups, gor, server, clean>>

(* Mutant: running rebalances are not stopped.                             *)
StopRebalanceSkipped(h) ==
  /\ At(h, "stop")
  /\ Goto(h, IF mgr[h].existing THEN "clear" ELSE "version")
  /\ UNCHANGED <<manager, gor, server, clean>>

StopRebalance(h) ==
  /\ At(h, "stop")
  /\ \/ /\ rebal' = "idle"
        /\ IF rebal = "running" THEN Spoil(run(h)) ELSE clean' = clean
        /\ Goto(h, IF mgr[h].existing THEN "clear" ELSE "version") \/ Goto(h, "err")
     \/ Fails(h, "stop") /\ UNCHANGED <<rebal, clean>>
  /\ UNCHANGED <<manager, gor, applied, member, ready, rebalErr, bucket, leaving>>

(* Membership looks the entry point up under the name it has in this setup. *)
getEpNode(h) == "provision" \in applied /\ (("rename" \in applied) <=> conf(h).rename)

(* The first call that failOverAndEject makes for a member: it fails over  *)
(* a node unless that is only "inactiveAdded".                             *)
failOverAndEject(n) == IF member[n] = "single" THEN "none"
                       ELSE IF member[n] = "added" THEN "eject" ELSE "failover"

(* clearSingleCluster.  Update, on behalf of getEpNode, fetches the node   *)
(* list.  The error of getEpNode is lost: when the list cannot be fetched  *)
(* or the entry point is not in it, the nil epnode is dereferenced.        *)
ClearSingleCluster(h) ==
  /\ At(h, "clear")
  /\ \/ Goto(h, "panic") /\ mgr' = mgr
     \/ /\ getEpNode(h) /\ Goto(h, "drop")
        /\ mgr' = [mgr EXCEPT ![h].poolsNodes = [n \in Aux |-> failOverAndEject(n)]]
  /\ UNCHANGED <<setups, gor, server, clean>>

DeleteBuckets(h) == bucket' = "none" /\ (IF bucket # "none" THEN Spoil(run(h)) ELSE clean' = clean)

(* The buckets are deleted; FailOverAndEjectAll then starts a goroutine    *)
(* for each other member that Update has found, whatever it is by now.     *)
FailOverAndEjectAll(h) ==
  /\ At(h, "drop")
  /\ \/ /\ DeleteBuckets(h)
        /\ kick' = [kick EXCEPT ![run(h)] = mgr[h].poolsNodes]
        /\ Goto(h, IF \A n \in Aux : mgr[h].poolsNodes[n] = "none" THEN "leave" ELSE "eject")
     \/ /\ Fails(h, "drop") /\ kick' = kick
        /\ DeleteBuckets(h) \/ UNCHANGED <<bucket, clean>>
  /\ UNCHANGED <<manager, poll, applied, member, ready, rebal, rebalErr, leaving>>

Kick(s, n, k) == kick' = [kick EXCEPT ![s][n] = k]

(* failOverAndEject: two calls, the first only for a node that was active. *)
FailOver(s, n) ==
  /\ kick[s][n] = "failover"
  /\ \/ /\ member[n] \in {"active", "failed"}
        /\ member' = [member EXCEPT ![n] = "failed"]
        /\ Spoil(s)
        /\ Kick(s, n, "eject") \/ Kick(s, n, "bad")
     \/ Kick(s, n, "bad") /\ UNCHANGED <<member, clean>>
  /\ UNCHANGED <<pc, manager, poll, applied, ready, rebal, rebalErr, bucket, leaving>>

Eject(s, n) ==
  /\ kick[s][n] = "eject"
  /\ \/ /\ member[n] \in {"added", "failed"}
        /\ member' = [member EXCEPT ![n] = "single"]
        /\ ready' = [ready EXCEPT ![n] = FALSE]
        /\ Spoil(s)
        /\ Kick(s, n, "good") \/ Kick(s, n, "bad")
     \/ Kick(s, n, "bad") /\ UNCHANGED <<member, ready, clean>>
  /\ UNCHANGED <<pc, manager, poll, applied, rebal, rebalErr, bucket, leaving>>

(* Mutant: the wait ends with the first report.                            *)
RestCallToAuxFirst(h, n) ==
  /\ At(h, "eject") /\ kick[run(h)][n] \in {"good", "bad"}
  /\ Kick(run(h), n, "done")
  /\ Goto(h, IF kick[run(h)][n] = "bad" THEN "err" ELSE "leave")
  /\ UNCHANGED <<manager, poll, server, clean>>

(* restCallToAux returns at the first error, when all have reported, or a  *)
(* minute after the last report.                                           *)
RestCallToAux(h, n) ==
  /\ At(h, "eject") /\ kick[run(h)][n] \in {"good", "bad"}
  /\ Kick(run(h), n, "done")
  /\ Goto(h, IF kick[run(h)][n] = "bad" THEN "err"
             ELSE IF \A m \in Aux \ {n} : kick[run(h)][m] \in {"none", "done"}
             THEN "leave" ELSE "eject")
  /\ UNCHANGED <<manager, poll, server, clean>>

RestCallToAuxTimeout(h) ==
  Fails(h, "eject") /\ UNCHANGED <<manager, gor, server, clean>>

(* "Reset the master node": an asynchronous cast, sent over ssh.           *)
ResetMaster(h) ==
  /\ At(h, "leave")
  /\ \/ leaving' = TRUE /\ (Goto(h, "version") \/ Goto(h, "err"))
     \/ Fails(h, "leave") /\ leaving' = leaving
  /\ UNCHANGED <<manager, gor, applied, member, ready, rebal, rebalErr, bucket, clean>>

(* When ssh cannot connect, newSession ends the whole process.             *)
NewSessionFails(h) ==
  /\ At(h, "leave")
  /\ pc' = [g \in Handler |-> IF pc[g] \in Replied THEN pc[g] ELSE "dead"]
  /\ poll' = [s \in Run |-> [n \in Aux |-> "none"]]
  /\ kick' = [s \in Run |-> [n \in Aux |-> "none"]]
  /\ UNCHANGED <<manager, server, clean>>

-----------------------------------------------------------------------------
(* setupNewCluster. *)

(* The calls up to pollJoinReadyAll, in order.                             *)
Plan(q) ==
  <<"quota">> \o (IF q.rename THEN <<"rename">> ELSE <<>>) \o <<"services", "quota">>
    \o (IF q.storage THEN <<"storage">> ELSE <<>>) \o <<"provision">>
    \o (IF q.modern /\ q.user # "empty" THEN <<"user">> ELSE <<>>)

GetVersion(h) ==
  /\ \/ /\ At(h, "version") /\ Goto(h, "configure")
        /\ mgr' = [mgr EXCEPT ![h].plan = Plan(conf(h))]
     \/ Fails(h, "version") /\ mgr' = mgr
  /\ UNCHANGED <<setups, gor, server, clean>>

(* After the last call pollJoinReadyAll starts a goroutine for each other  *)
(* node.                                                                   *)
Configure(h) ==
  LET plan == mgr[h].plan
      crashes == Head(plan) = "user" /\ conf(h).user = "nil"
  IN  /\ At(h, "configure")
      /\ \/ crashes /\ Goto(h, "panic") /\ UNCHANGED <<mgr, poll, applied>>
         \/ /\ ~crashes
            /\ applied' = applied \cup {Head(plan)}
            /\ mgr' = [mgr EXCEPT ![h].plan = Tail(plan)]
            /\ IF Len(plan) > 1 THEN Goto(h, "configure") /\ poll' = poll
               ELSE /\ Goto(h, IF Aux = {} THEN "rebalance" ELSE "poll")
                    /\ poll' = [poll EXCEPT ![run(h)] = [n \in Aux |-> "ask"]]
         \/ /\ ~crashes /\ Fails(h, "configure")
            /\ applied' \in {applied, applied \cup {Head(plan)}}
            /\ UNCHANGED <<mgr, poll>>
      /\ UNCHANGED <<setups, kick, member, ready, rebal, rebalErr, bucket, leaving, clean>>

(* PollJoinReady asks again until the node is ready or the call fails; it  *)
(* then blocks until its result is received.                               *)
PollJoinReady(s, n) ==
  /\ poll[s][n] = "ask"
  /\ \E r \in {"good", "bad"} :
       /\ r = "good" => ready[n]
       /\ poll' = [poll EXCEPT ![s][n] = r]
  /\ UNCHANGED <<pc, manager, kick, server, clean>>

(* Mutant: the wait ends with the first report.                            *)
PollJoinReadyAllFirst(h, n) ==
  /\ At(h, "poll") /\ poll[run(h)][n] \in {"good", "bad"}
  /\ poll' = [poll EXCEPT ![run(h)][n] = "done"]
  /\ Goto(h, IF poll[run(h)][n] = "bad" THEN "err" ELSE "add")
  /\ UNCHANGED <<manager, kick, server, clean>>

PollJoinReadyAll(h, n) ==
  /\ At(h, "poll") /\ poll[run(h)][n] \in {"good", "bad"}
  /\ poll' = [poll EXCEPT ![run(h)][n] = "done"]
  /\ Goto(h, IF poll[run(h)][n] = "bad" THEN "err"
             ELSE IF \A m \in Aux \ {n} : poll[run(h)][m] = "done"
             THEN "add" ELSE "poll")
  /\ UNCHANGED <<manager, kick, server, clean>>

PollJoinReadyAllTimeout(h) ==
  Fails(h, "poll") /\ UNCHANGED <<manager, gor, server, clean>>

(* AddNode succeeds when the server says so, or says "user is missing",    *)
(* which the code takes to mean that the node was added; it may fail with  *)
(* the node added.                                                         *)
AddNode(n, ok) ==
  \/ member[n] \in {"single", "added"} /\ member' = [member EXCEPT ![n] = "added"]
  \/ ~ok /\ member' = member

Added(h) ==
  /\ mgr' = [mgr EXCEPT ![h].next = @ + 1, ![h].again = FALSE]
  /\ Goto(h, IF mgr[h].next = N THEN "rebalance" ELSE "add")

(* Mutant: the error of the second attempt is shadowed and lost.           *)
AddNodesShadowed(h) ==
  /\ At(h, "add")
  /\ \/ AddNode(mgr[h].next, ~mgr[h].again) /\ Added(h)
     \/ /\ AddNode(mgr[h].next, FALSE) /\ ~mgr[h].again
        /\ mgr' = [mgr EXCEPT ![h].again = TRUE] /\ pc' = pc
  /\ UNCHANGED <<setups, gor, applied, ready, rebal, rebalErr, bucket, leaving, clean>>

(* The loop over the nodes: one more attempt if the error is "Prepare join *)
(* failed".                                                                *)
AddNodes(h) ==
  /\ At(h, "add")
  /\ \/ AddNode(mgr[h].next, TRUE) /\ Added(h)
     \/ /\ AddNode(mgr[h].next, FALSE)
        /\ \/ ~mgr[h].again /\ mgr' = [mgr EXCEPT ![h].again = TRUE] /\ pc' = pc
           \/ Goto(h, "err") /\ mgr' = mgr
  /\ UNCHANGED <<setups, gor, applied, ready, rebal, rebalErr, bucket, leaving, clean>>

(* Rebalance: Update(true), then the POST.  It spoils what others are      *)
(* ejecting.                                                               *)
Rebalance(h) ==
  /\ At(h, "rebalance")
  /\ \/ /\ rebal = "idle" /\ rebal' = "running" /\ rebalErr' = FALSE
        /\ clean' = [g \in Handler |-> clean[g] /\ pc[g] \notin {"clear", "drop", "eject"}]
        /\ Goto(h, "pollRebalance") \/ Goto(h, "err")
     \/ Fails(h, "rebalance") /\ UNCHANGED <<rebal, rebalErr, clean>>
  /\ UNCHANGED <<manager, gor, applied, member, ready, bucket, leaving>>

(* The rebalance loop: i < numRetry always holds where it is tested.       *)
numRetry == 2

(* Mutant: one round too many.                                             *)
RebalanceLoopLonger(h, failed) ==
  IF failed THEN /\ mgr' = [mgr EXCEPT ![h].round = @ + 1]
                 /\ Goto(h, IF mgr[h].round < numRetry THEN "rebalance" ELSE "bucket")
            ELSE mgr' = mgr /\ Goto(h, "bucket")

RebalanceLoop(h, failed) ==
  IF failed THEN /\ mgr' = [mgr EXCEPT ![h].round = @ + 1]
                 /\ Goto(h, IF mgr[h].round + 1 < numRetry THEN "rebalance" ELSE "bucket")
            ELSE mgr' = mgr /\ Goto(h, "bucket")

(* Mutant: an errorMessage does not end the polling.                       *)
PollRebalanceBlind(h) ==
  /\ At(h, "pollRebalance") /\ rebal = "idle" /\ ~rebalErr
  /\ RebalanceLoop(h, FALSE)
  /\ UNCHANGED <<setups, gor, server, clean>>

PollRebalance(h) ==
  /\ At(h, "pollRebalance") /\ rebal = "idle"
  /\ RebalanceLoop(h, rebalErr)
  /\ UNCHANGED <<setups, gor, server, clean>>

PollRebalanceFails(h) ==
  /\ At(h, "pollRebalance")
  /\ RebalanceLoop(h, TRUE)
  /\ UNCHANGED <<setups, gor, server, clean>>

(* parseRebalanceProgress divides by the number of nodes in the answer,    *)
(* and takes each of them to have a number as its progress.                *)
ParseRebalanceProgressPanics(h) ==
  /\ At(h, "pollRebalance") /\ rebal = "running"
  /\ Goto(h, "panic")
  /\ UNCHANGED <<manager, gor, server, clean>>

AfterBucket(h) == Goto(h, IF conf(h).preview THEN "preview" ELSE "ok")

(* SetupBucket: the server answers 202 and creates the bucket later.       *)
SetupBucket(h) ==
  /\ At(h, "bucket")
  /\ \/ conf(h).bucket = "nil" /\ Goto(h, "panic") /\ bucket' = bucket
     \/ conf(h).bucket = "empty" /\ AfterBucket(h) /\ bucket' = bucket
     \/ conf(h).bucket = "named" /\ bucket = "none" /\ bucket' = "pending"
          /\ (Goto(h, "waitBucket") \/ Goto(h, "err"))
     \/ conf(h).bucket = "named" /\ Fails(h, "bucket") /\ bucket' = bucket
  /\ UNCHANGED <<manager, gor, applied, member, ready, rebal, rebalErr, leaving, clean>>

(* All nodes are healthy, which they are before the bucket warms up too.   *)
WaitForBucketReady(h) ==
  /\ At(h, "waitBucket") /\ bucket # "warming"
  /\ AfterBucket(h)
  /\ UNCHANGED <<manager, gor, server, clean>>

WaitForBucketReadyFails(h) ==
  Fails(h, "waitBucket") /\ UNCHANGED <<manager, gor, server, clean>>

EnableDeveloperPreview(h) ==
  /\ At(h, "preview")
  /\ \/ applied' = applied \cup {"preview"} /\ (Goto(h, "ok") \/ Goto(h, "err"))
     \/ Fails(h, "preview") /\ applied' = applied
  /\ UNCHANGED <<manager, gor, member, ready, rebal, rebalErr, bucket, leaving, clean>>

-----------------------------------------------------------------------------
(* The servers (external). *)

BecomeReady(n) ==
  /\ ~ready[n] /\ ready' = [ready EXCEPT ![n] = TRUE]
  /\ UNCHANGED <<pc, manager, gor, applied, member, rebal, rebalErr, bucket, leaving, clean>>

RebalanceEnds ==
  /\ rebal = "running" /\ rebal' = "idle"
  /\ \/ rebalErr' = TRUE /\ member' = member
     \/ /\ rebalErr' = FALSE
        /\ member' = [n \in Aux |-> IF member[n] = "added" THEN "active" ELSE member[n]]
  /\ UNCHANGED <<pc, manager, gor, applied, ready, bucket, leaving, clean>>

BucketProceeds ==
  /\ \/ bucket = "pending" /\ bucket' = "warming"
     \/ bucket = "warming" /\ bucket' = "ready"
  /\ UNCHANGED <<pc, manager, gor, applied, member, ready, rebal, rebalErr, leaving, clean>>

(* The entry point has left: it is a fresh node again, whoever asked for   *)
(* that and whatever has been configured since.                            *)
Left ==
  /\ leaving /\ leaving' = FALSE
  /\ applied' = {} /\ member' = [n \in Aux |-> "single"]
  /\ rebal' = "idle" /\ rebalErr' = FALSE /\ bucket' = "none"
  /\ Spoil(0)
  /\ UNCHANGED <<pc, manager, gor, ready>>

-----------------------------------------------------------------------------

Goroutine ==
  \E s \in Run, n \in Aux : FailOver(s, n) \/ Eject(s, n) \/ PollJoinReady(s, n)

(* What the setup does by itself; a polling loop need not meet an error.   *)
Progress(h) ==
  \/ StartCluster(h) \/ StopRebalance(h) \/ ClearSingleCluster(h) \/ FailOverAndEjectAll(h)
  \/ (\E n \in Aux : RestCallToAux(h, n)) \/ RestCallToAuxTimeout(h)
  \/ ResetMaster(h) \/ NewSessionFails(h) \/ GetVersion(h) \/ Configure(h)
  \/ (\E n \in Aux : PollJoinReadyAll(h, n)) \/ PollJoinReadyAllTimeout(h)
  \/ AddNodes(h) \/ Rebalance(h) \/ PollRebalance(h) \/ SetupBucket(h)
  \/ WaitForBucketReady(h) \/ EnableDeveloperPreview(h)

Server == (\E n \in Aux : BecomeReady(n)) \/ RebalanceEnds \/ BucketProceeds \/ Left

Next ==
  \/ \E h \in Handler, q \in Config : SetupCluster(h, q)
  \/ \E h \in Handler : \/ Progress(h) \/ PollRebalanceFails(h)
                         \/ ParseRebalanceProgressPanics(h) \/ WaitForBucketReadyFails(h)
  \/ Goroutine
  \/ Server

Spec == Init /\ [][Next]_vars

-----------------------------------------------------------------------------

Manager ==
  [run : 0..MaxSetups, conf : Config, existing : BOOLEAN,
   poolsNodes : [Aux -> {"none", "failover", "eject"}], plan : Seq(Setting),
   next : 2..(N + 1), again : BOOLEAN, round : 0..numRetry]

HandlerType ==
  pc \in [Handler -> Place] /\ clean \in [Handler -> BOOLEAN] /\ setups \in 0..MaxSetups
GoroutineType ==
  /\ poll \in [Run -> [Aux -> {"none", "ask", "good", "bad", "done"}]]
  /\ kick \in [Run -> [Aux -> {"none", "failover", "eject", "good", "bad", "done"}]]
ServerType ==
  /\ applied \in SUBSET Setting
  /\ member \in [Aux -> {"single", "added", "active", "failed"}]
  /\ ready \in [Aux -> BOOLEAN]
  /\ rebal \in {"idle", "running"} /\ rebalErr \in BOOLEAN
  /\ bucket \in {"none", "pending", "warming", "ready"} /\ leaving \in BOOLEAN

TypeOK == HandlerType /\ mgr \in [Handler -> Manager] /\ GoroutineType /\ ServerType

Elems(s) == {s[i] : i \in 1..Len(s)}
Asked(q) == Elems(Plan(q)) \cup (IF q.preview THEN {"preview"} ELSE {})

(* What a setup that answers 200 has achieved, whatever failed before it   *)
(* in earlier setups and whatever it retried: every setting asked for is   *)
(* in place, every node has joined, every node is active unless both       *)
(* rebalances failed, and the bucket exists or is being created.  A second *)
(* setup at the same time does no harm until it stops a rebalance, deletes *)
(* the bucket, ejects a node or resets the entry point.                    *)
SetupComplete ==
  \A h \in Handler : At(h, "ok") /\ clean[h] =>
    /\ Asked(conf(h)) \subseteq applied
    /\ \A n \in Aux : member[n] \in {"added", "active"}
    /\ mgr[h].round < numRetry => \A n \in Aux : member[n] = "active"
    /\ conf(h).bucket = "named" => bucket # "none"

(* Nodes are added only once all of them have said that they are ready,    *)
(* and by then no polling goroutine is left blocked on the channel, though *)
(* the channel has no buffer.                                              *)
JoinersReady ==
  \A h \in Handler : pc[h] \in (Building \cup {"ok"}) \ {"version", "configure", "poll"} =>
    \A n \in Aux : poll[run(h)][n] \notin {"ask", "good", "bad"} /\ (clean[h] => ready[n])

(* A setup ejects the nodes of the previous cluster, and waits for every   *)
(* one of them, before it configures the new cluster: nothing it started   *)
(* can still eject a node that it adds, or that it has added.              *)
EjectedFirst ==
  \A h \in Handler : pc[h] \in (Clearing \cup Building \cup {"ok"}) \ {"eject"} =>
    \A n \in Aux : ~Kicking(run(h), n)

(* No node is failed over or ejected while a rebalance runs, for as long   *)
(* as the setup that ejects has not given up: StartCluster has stopped the *)
(* rebalance that an earlier setup left behind.  (Another setup may start  *)
(* one in the middle of it.)                                               *)
EjectedAtRest ==
  [][\A h \in Handler, n \in Aux :
       At(h, "eject") /\ clean[h] /\ kick'[run(h)][n] # kick[run(h)][n]
         /\ member'[n] # member[n] => rebal = "idle"]_vars

-----------------------------------------------------------------------------
(* The inductive invariant: how far a setup has come at each place.        *)

(* A setup belongs to one handler, and has no goroutine before it begins.  *)
OneHandler ==
  /\ \A h \in Handler : run(h) \in 0..setups /\ (pc[h] # "idle" => run(h) # 0)
  /\ \A h, g \in Handler : run(h) = run(g) /\ run(h) # 0 => h = g
  /\ \A s \in Run, n \in Aux : s > setups => kick[s][n] = "none"

Joining == {"rebalance", "pollRebalance"}
Final   == {"bucket", "waitBucket", "preview", "ok"}

Counted ==
  \A h \in Handler :
    /\ At(h, "configure") => mgr[h].plan # <<>>
    /\ pc[h] \in Clearing \cup {"version", "configure", "poll"} => mgr[h].next = 2
    /\ At(h, "add") => mgr[h].next \in Aux
    /\ pc[h] \in Clearing \cup {"version", "configure", "poll", "add"} => mgr[h].round = 0
    /\ pc[h] \in Joining => mgr[h].round < numRetry

(* What is not applied yet is still in the plan.                           *)
Configured(h) ==
  /\ At(h, "configure") => Elems(Plan(conf(h))) \subseteq applied \cup Elems(mgr[h].plan)
  /\ pc[h] \in {"poll", "add"} \cup Joining \cup Final => Elems(Plan(conf(h))) \subseteq applied
  /\ At(h, "ok") /\ conf(h).preview => "preview" \in applied

(* A report of a goroutine is true when it is received, and stays true.    *)
Reported(h) ==
  \A n \in Aux :
    \/ At(h, "poll") /\ poll[run(h)][n] \in {"good", "done"}
    \/ pc[h] \in {"add"} \cup Joining \cup Final
    => ready[n]

Joined(n) == member[n] \in {"added", "active"}

(* The loop has added the nodes before the next one; a rebalance that has  *)
(* ended without an error has activated them all.                          *)
Grown(h) ==
  /\ At(h, "add") => \A n \in Aux : n < mgr[h].next => Joined(n)
  /\ pc[h] \in Joining \cup Final => \A n \in Aux : Joined(n)
  /\ \/ At(h, "pollRebalance") /\ rebal = "idle" /\ ~rebalErr
     \/ pc[h] \in Final /\ mgr[h].round < numRetry
     => \A n \in Aux : member[n] = "active"

Created(h) ==
  pc[h] \in {"waitBucket", "preview", "ok"} /\ conf(h).bucket = "named" => bucket # "none"

AtRest(h) == pc[h] \in {"clear", "drop", "eject"} => rebal = "idle"

(* What a setup has achieved so far is in place, and no rebalance runs     *)
(* while it ejects, as long as no other setup has spoilt it; the rest      *)
(* holds whatever the others do.                                           *)
Inv ==
  /\ TypeOK /\ OneHandler /\ Counted /\ EjectedFirst /\ JoinersReady
  /\ \A h \in Handler : clean[h] =>
       Configured(h) /\ Reported(h) /\ Grown(h) /\ Created(h) /\ AtRest(h)

-----------------------------------------------------------------------------
(* Liveness.  A call returns (its attempts are bounded and time out), the  *)
(* two minute-long timers fire, goroutines run, and the server finishes    *)
(* rebalances and bucket creation, which nothing in the code bounds.       *)

Fairness ==
  /\ \A h \in Handler : WF_vars(Progress(h))
  /\ WF_vars(Goroutine)
  /\ WF_vars(RebalanceEnds) /\ WF_vars(BucketProceeds)

FairSpec == Spec /\ Fairness

(* Every setup comes to an end, even when nodes never become ready or      *)
(* another setup takes the cluster apart, and its goroutines do not keep   *)
(* it waiting.                                                             *)
SetupEnds == \A h \in Handler : (pc[h] \notin Replied) ~> (pc[h] \in Replied)

-----------------------------------------------------------------------------
(* What comments and messages of the code say and the code does not do.    *)

(* "in case rebalance fails, just try one more time", then "Rebalance      *)
(* failed, exiting": a setup that succeeds has rebalanced the cluster.     *)
RebalancedWhenOk ==
  \A h \in Handler : At(h, "ok") /\ clean[h] => \A n \in Aux : member[n] = "active"

=============================================================================
