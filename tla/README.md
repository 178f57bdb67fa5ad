# A TLA+ verification of cbdynclusterd

cbdynclusterd is a daemon that hands out short-lived Couchbase clusters. A client
asks over HTTP for nodes; the daemon starts a docker container per node, records
who owns the cluster and when it expires in a badger store, sets the nodes up as
one Couchbase cluster on request, and stops clusters that have expired.

This directory holds TLA+ modules that model the daemon, TLC configurations
that check them on small instances, and TLAPS proofs for instances of any size.
`PROJECT.json` lists the runs, the mutants, the theorems, the hazards and, under
`map`, the source lines behind every definition. Paths below are relative to
`src/`.

## Inventory

| Component | State | Operations | What is hard | What makes it correct |
|---|---|---|---|---|
| Metadata store (`daemon/metadata.go`) | badger: an owner and an expiry time per cluster | `CreateClusterMeta`, `UpdateClusterMeta`, `GetClusterMeta` | handlers overlap; a snapshot read before another commit; read errors; a panic turned into a zero record; times stored to the second | an acknowledged lease is not lost, an id is registered once, a lease never shrinks |
| Cluster lifecycle (`daemon/clusters.go`, `nodes.go`, `daemon.go`, `restserver.go`) | containers and their labels in docker, metadata records | allocate, refresh, kill, periodic cleanup | a goroutine per node; kills, rollbacks and cleanup racing; one node of several failing; a crash between any two calls; stale timeouts and owners | nothing runs without a lease, only an entitled thread stops a node, a kill that says it succeeded did, every lease ends |
| Cluster setup (`daemon/setup.go`, `cluster/manager.go`, `cluster/node.go`) | membership, settings, rebalance and bucket state on the servers | clear the old cluster, configure, poll, add, rebalance, create the bucket | goroutines that outlive their caller, lost responses and retries, asynchronous server operations, setups after failed setups | a setup that succeeds is complete, nothing ejects a node it has just added, every setup ends |
| REST client (`helper/helper.go`) | none | `RestRetryer`, `GetResponse` | a POST repeated although it took effect, or arriving after the client gave up | what a caller may conclude from a success and from an error |
| Start and shutdown (`daemon/daemon.go`) | goroutines and the open store | open, serve, interrupt, close | two unbuffered rendezvous; a signal before the server listens | no use of a closed store, shutdown ends |
| HTTP front end (`daemon/restserver.go`, `context.go`) | none | routes, user and ownership context | errors that are dropped | what a 200 means |
| Image provisioning (`daemon/clusters.go`, `images.go`) | images, a tar file in `/tmp` | pull, check, tar, build, push | concurrent builds of one version; errors that come after the call returned | docker gets a whole context; the image is where the next request looks for it |
| Versions and aliases (`daemon/nodes.go`, `alias.go`) | clone of the alias repository | clone, pull, look up, parse, choose a flavor | a pull while another request resolves its nodes; boundary versions | the nodes of a cluster get one version |
| Buckets, samples, collections (`daemon/buckets.go`, `collections.go`, `cluster/node.go`) | on the servers | a REST call each; waiting and counting for samples | asynchronous loading, polling, a setup that deletes the buckets | a sample that is reported as loaded is there |
| Client certificates (`daemon/certauth.go`, `cluster/node.go`) | inbox, CA and settings of every node | five calls per node | failing half way, two requests at once | the client's certificate works on all nodes |
| Configuration, command line, workload helpers, dockerfiles | - | - | - | - |

How they interact. The REST server runs every handler in a goroutine of its own.
A handler calls the lifecycle functions, which call docker (shared, external,
outlives the daemon) and the metadata store (shared, persistent). The cleanup
goroutine calls the same `getAllClusters` and `killCluster` as the handlers, with a
context that ignores ownership. `allocateCluster` and `killCluster` start one
goroutine per node and collect their results from an unbuffered channel. The setup,
bucket, sample, collection and certificate handlers look the nodes up once and then
talk to the Couchbase servers only, through `RestRetryer` or ssh; nothing keeps two of
them from working on one cluster. Allocations and `POST /images` share the alias clone,
the tar files and the images. The
main goroutine meets the cleanup goroutine in two channel rendezvous at shutdown
and closes the store after them.

The hazards this leads to are listed under `hazards` in `PROJECT.json`, each with
its line and the properties aimed at it.

## Modules

```
ClusterMeta          the record, its encoding, the refresh rule
  MetaRegistry       abstract: what the store promises
  MetaStore          badger transactions        => implements MetaRegistry
    MCMetaStore, MetaStoreProofs
  ClusterLifecycle   handlers, cleanup, docker, crashes
                                                => uses MetaRegistry
    MCLifecycle, ClusterLifecycleProofs
RestCalls            abstract: what a REST call promises
  RestRetry          its attempts                => implements RestCalls
    RestRetryProofs
ClusterSetup         POST /cluster/{id}/setup
    MCClusterSetup, ClusterSetupProofs
ClusterOps           buckets, samples, collections, client certificates
    MCClusterOps, ClusterOpsProofs
Versions             parsing, aliases, flavors, names
  Provision          alias clone, ensureImageExists, POST /images
    MCProvision, ProvisionProofs
Shutdown             startDaemon, from opening the store to exit
    ShutdownProofs
```

**ClusterMeta.** A record is an owner and a time. Time is counted in ticks, two to
the second: `serializeMeta` drops the fraction as RFC3339 does. `DEFAULT_CLUSTER_META`
and `ZERO_CLUSTER_META` are what `GetClusterMeta` returns with an error and after a
recovered panic.

**MetaStore.** A transaction is one call of `CreateClusterMeta` or
`UpdateClusterMeta`: `Get` takes the snapshot and reads the key, the operation named
after the Go method writes and commits, `Fail` is every way not to. `stale` is
badger's conflict detection (external): a commit marks the other open transactions
that read the key. A commit may be durable and still be reported as an error.
`MetaRegistry` is the atomic registry that the other modules may assume;
`ImplementsRegistry` is the refinement. The lifecycle meets it from the other side:
its atomic `meta` changes only by the registry's operations (`UsesRegistry`), so what
the daemon does to its records, the transactions can carry out.

**ClusterLifecycle.** A thread of `Req` is a request handler, a thread named after a
cluster is the goroutine in which cleanup kills it. `pc` says where a thread is in
`allocateCluster`, `killCluster` or `refreshCluster`; a step is what happens between
two calls that leave the daemon. `gor` holds the `allocateNode` goroutines, `todo`
the nodes whose `killNode` has not reported, `expiry` the timeouts that cleanup has
read. `cont` and `creator` are docker's side: a container is created, running,
exited or absent, and AutoRemove removes exited ones. Any docker or badger call may
fail, with or without its effect. `Crash` ends all threads at any point, `Restart`
starts with what docker and badger kept. `Legacy` clusters have containers and no
record, as those made before the store existed; `Unreadable` and `Panicky` ones have
a record that badger sometimes fails to read. A refresh that could not be stored ends in
the place "dropped", although its reply is the same 200 as that of "ok". `quiet` and
`raced` are history variables that only properties look at.

**RestRetry.** A caller makes a row of calls (`InitNewCluster` is one) and stops at the
first that fails. `retry` is the parameter of `RestRetryer`, which counts down; `net`
holds the requests that the server has not taken up, those of attempts that the client
has given up included, so a request may be carried out after the next call. `unsure`
records the calls with an attempt whose fate the client did not learn. `RestCalls`
promises what is left after all that: a call that succeeded was carried out, a
call that failed may have been or may yet be.

**ClusterSetup.** `pc[h]` follows a handler through `StartCluster`, `clearSingleCluster`
and `setupNewCluster`, `mgr[h]` is its `Manager` (configuration, calls still to make,
node being added, rebalances that failed, and `poolsNodes`, the member list that `Update`
fetched). `clearSingleCluster` reads that list in one step and deletes the buckets and
starts the ejecting goroutines from it in a later one (`FailOverAndEjectAll`), so another
setup may change the members in between. Handlers run at the same time. `poll` and
`kick` are the goroutines of every setup, because those of a setup that gave up live on
into the next. The servers' side is the entry point's view: what is configured, which
nodes are members, the rebalance, the bucket, and `leaving`, the asynchronous reset. A
REST call succeeds with its effect, fails without it, or fails with it. `panic` is a nil
dereference, or a progress that `parseRebalanceProgress` cannot read, that net/http recovers; `dead` is the `log.Fatal` of an ssh connection that
cannot be made. `clean[h]` is a history variable: no other setup, no leftover of one and
no late reset has undone something that this one may have done (`Spoil`).

**ClusterOps.** Handlers that add a bucket, a sample or a collection or set up client
certificates, with the servers' loader, which creates and fills a bucket in its own time,
and `Wipe`, the `DeleteBuckets` of a concurrent setup. `LoadSample` asks for
the bucket, then for the health of the nodes, then counts items until a deadline that is
looked at between two counts. For certificates the model keeps, per node, whose chain,
key and CA it has and whose certificate it presents: a key pair is the request that
made it.

**Versions.** `parseServerVersion`, `flavorFromVersion`, `aliasServerVersion`, `toURL`
and the names of images and tar files as operators on a version split at its dots and its
dash. `"panic"` is the index out of range that a version without a dot leads to.

**Provision.** A request resolves its versions node by node against the products file in
the clone, which other requests clone and pull meanwhile, and then makes sure of the image
of the first node: pull, check the build server, write the tar, stream it to docker, push.
A tar file is a set of chunks: `tar.Create` empties it and a writer goes on at its own
offset, so two builds of one version can leave holes for each other. A request whose build
failed on such a file is at "broken", any other failed one at "err". `moved` and `retarred`
are history variables: the products file changed while a request resolved its nodes,
another build re-created the tar file.

**Shutdown.** The main goroutine, the signal watcher, the cleanup routine, the
handlers and the store, each as a place; the two channel operations are rendezvous
actions of both sides.

## Runs

Passing:

| Run | Instance | What it shows |
|---|---|---|
| `MCMetaStore` | 3 transactions, any calls, 2 ids (one unreadable), 3 times | `AckedLeaseKept`, `CreatedOnce`, `LeaseNeverShrinks`, the inductive invariant `Inv`, and the refinement of `MetaRegistry` |
| `MCLifecycleNodes` | 2 requests, 1 cluster of 2 nodes, 1 crash | `Registered`, `KillEffective`, `RollbackComplete`, `OwnerIsCreator`, `LeaseHonoured` |
| `MCLifecycleLegacy` | 2 requests on an unreadable cluster and on a legacy one | `RefreshKept`, the inductive invariant `IInv`, and `UsesRegistry`: records change only as `MetaRegistry` allows |
| `MCLifecycleLive` | 2 requests, 1 cluster, 1 crash, fairness | `Answered`, `Reclaimed` |
| `MCSetup` | 3 nodes, 1 handler, 3 setups, each option present and absent | `SetupComplete`, `JoinersReady`, `EjectedFirst` |
| `MCSetupLive` | 2 nodes, 2 handlers at once, fairness | the inductive invariant `Inv`, which contains `JoinersReady` and `EjectedFirst` and implies `SetupComplete`, for setups that disturb each other; `EjectedAtRest`, `SetupEnds` |
| `MCShutdown` | 3 handlers, fairness | `StoreOpen`, `ShutdownEnds` |
| `MCRestRetry` | 3 calls, the second not repeatable, retry 0, 1 or 3, fairness | `AttemptsBounded`, `AnsweredIsSettled`, `LastCallWins`, the inductive invariant, `CallsReturn`, and the refinement of `RestCalls` |
| `MCProvision` | 2 requests of 8 kinds, 2 products files, with and without a registry | `ContextIntact`, `OneSurvives`, `Published`, `SameVersionAtRest`, `ImagesReady`, the inductive invariant |
| `MCClusterOps` | 2 requests of 5 kinds, 2 buckets, 2 nodes, fairness | `SampleServed`, `PolledWhenReady`, `CertWorks`, the inductive invariant, `OpsEnd` |

Bounds, and why they are enough. Two transactions on one key are needed for a lost
update, a third to overlap both or to read what one of them left; odd times are
fractions of a second, so truncation is exercised in both directions. In the
lifecycle a cluster interacts with itself only, so one cluster with two requests and
cleanup gives every pair of racing operations (kill with allocate, kill with cleanup,
refresh with cleanup, refresh by an admin with kill), and the theorems cover any
number. Two nodes are needed for one to fail while the other goes on. The clock runs
to `MaxTime` = 2, past the lease of 1, so leases expire, and refreshes reach the end of
the clock, where `Reclaimed` lets go of them. One crash is enough because a restart
keeps nothing that a second could find different. A third setup meets what a failed
second one left of the first; three nodes have two goroutines that race to report. Two
setups at once have every pair of steps of two handlers; one other node is enough for
the second to eject what the first adds. Three calls give a call that is undone by an
earlier one and one in between; retry takes the values below, at and above the test for
zero. Two chunks are the fewest that leave a hole in the middle of a tar file; two
products files are one change. The runs have
from 180 distinct states (`MCShutdown`) to nine million (`MCSetup`). The loader stops at `Count` or at twice that, the two
numbers that `PollSampleBucket` accepts, and `Count` = 2 has a value below it.

Deadlock is checked in the lifecycle runs: cleanup always has a next step. It is off
where the system really stops: transactions, calls and requests have all returned, the
bounded number of setups is used up, the process has exited.

Violations. Each of these runs states what a comment or a message of the code says;
TLC finds a behaviour in which the code does otherwise. The quotations are in
`PROJECT.json`, `findings`.

| Run | What the code does |
|---|---|
| `MCCleanupPanic` | a recovered badger panic gives the year 1 as timeout, and cleanup stops a live cluster |
| `MCRebalancedWhenOk` | a setup whose two rebalances failed succeeds; the branch that says otherwise is dead |

Observations. The models have further behaviours that a reader of the code may not
expect; no run is kept for them, and the properties above leave them room.

- `CreateClusterMeta` takes any read error for a free key and overwrites the record
  (`daemon/metadata.go:89`); `MetaRegistry` makes no promise for unreadable clusters.
- Cleanup stops a cluster whose refresh was acknowledged after cleanup read its
  timeout (`daemon/daemon.go:204`): `raced` in `Entitled`.
- `PUT /cluster/{id}` answers 200 when nothing was stored (`daemon/restserver.go:434`):
  `RefreshFails` ends in "dropped".
- The entry point may still be leaving its old cluster when the new one is configured,
  though a comment says "block till reset is done" (`cluster/manager.go:412`): `leaving`
  and `clean`.
- `WaitForBucketReady` looks at the health of the nodes, which is good before the
  accepted bucket exists too (`cluster/node.go:444`).
- Listing goes by the creator label, killing by the recorded owner
  (`daemon/clusters.go:130`); an admin's refresh makes the two disagree.
- A container that was created and not started survives every kill
  (`daemon/nodes.go:241`): stopping it does nothing and AutoRemove never fires.
- "Graceful shutdown completed." (`daemon/daemon.go:368`) is logged with handlers at work
  and the store closed under them.
- "We assume that all nodes are using the same server version." (`daemon/clusters.go:184`)
  is nowhere ensured: a request may name several, and an alias may change between two
  nodes. Such a cluster starts only if docker happens to have the other images.
- Any failed pull is taken for a missing image (`daemon/clusters.go:238`), so a registry
  that is down for a moment causes a rebuild and a push over the image.
- Two builds of one version, even of different editions, share a tar file; the earlier one
  then fails or sends what the later one wrote (`retarred`). The last one to create the
  file has it whole (`OneSurvives`), because no build removes it.
- A setup ejects the members it read before it deleted the buckets
  (`cluster/node.go:742`): a node that another setup has added since stays.
- A request that the client gave up may reach the server after the next call and undo it
  (`helper/helper.go:359`): `unsure` in `LastCallWins`.
- A version 7.x with x >= 5 has no flavor and is refused, and one without a dot makes the
  handler panic (`daemon/nodes.go:75`).
- An item count that passes through `SampleBucketsCount` on the way to twice the number
  ends `PollSampleBucket` early (`cluster/node.go:723`): `SampleServed` speaks of
  completeness only where the server's sample has the nominal size.
- Overlapping certificate requests leave nodes with chains and CAs of both, and one of
  them or both may report success; a request that fails on a later node is not undone
  on the earlier ones.
- A call that is not repeatable and whose answer was lost is refused the second time and
  reported as failed although it was carried out (`helper/helper.go:309`).
- A setup can stop the rebalance of another setup, which then takes it for finished
  (`cluster/node.go:644`): `Spoil` in `StopRebalance`.

The passing properties are stated around these: `LeaseHonoured` allows cleanup a
cluster that was refreshed while cleanup was at work (`raced`) or whose record makes
badger panic, `OwnerIsCreator` leaves out clusters that an admin refreshes,
`KillEffective` speaks of running nodes and of a cluster that was not growing when it
was listed, `SetupComplete` demands active nodes only if one rebalance succeeded, and speaks, like
`CertWorks`, `SameVersionAtRest` and `ContextIntact`, of what no other request has undone.

## Fairness

*ClusterLifecycle.* Weak fairness for every thread: goroutines are scheduled and the
docker and badger calls they wait for return. Strong fairness for `ListNodes` and for
a `StopNode` of cleanup that meets no error: docker fails sometimes, but not each time that
cleanup comes round, which it does every five minutes for as long as the container is
listed. Weak fairness for the clock, for AutoRemove and for cleanup (a timer).
Requests need not arrive; crashes and restarts are not fair, and `Reclaimed` assumes
that the daemon is up for good at some point.

*RestRetry.* Weak fairness for the client alone, whose timeout ends every wait; the
server and the network owe nothing.

*ClusterSetup.* Weak fairness for the steps of each handler: the attempts of a call are
bounded and time out, the two one-minute timers fire. Also for the goroutines, and for
the server to finish a rebalance and a bucket creation: `PollRebalance` and
`WaitForBucketReady` have no deadline, so nothing less would end them. Nodes are not
assumed to become ready.

*ClusterOps.* Weak fairness for each handler once it has begun, which need not meet an
error; for the clock that the deadline of `PollSampleBucket` looks at; for the servers to
finish warming up and loading, because `WaitForBucketReady` has no deadline.

*Shutdown.* Weak fairness for each goroutine and for the end of a cleanup; strong
fairness for `ShutdownSig`, because Go's `select` chooses at random between the timer
and a waiting sender.

## Proofs

The proofs hold for any sets of clusters, users, requests, transactions and handlers
and any values of the bounds; the assumptions on constants are those of
`MetaAssumption`, `CallAssumption`, `LifecycleAssumption`, `RestAssumption`,
`SetupAssumption` (at least one node, some configuration), `ProvisionAssumption` (a
request names at least one node and only versions that are known, a build has a
chunk) and `OpsAssumption` (at least one node, a sample that is not empty), which TLC
evaluates in the runs of their modules.

- **MetaStoreProofs.** `TypeCorrect`, `AckedLeaseKeptAlways`, `CreatedOnceAlways`,
  `LeaseNeverShrinksAlways` and `RegistryRefinement`. Neither `AckedLeaseKept` nor
  `CreatedOnce` is inductive: a commit must be known to write over what it has read,
  and truncating a time must not move it below the stored one. `Inv` adds
  `SnapshotCurrent` (an open transaction that is not marked still sees the store) and
  `WholeSeconds`. The same invariant gives the step simulation of the registry.
- **ClusterLifecycleProofs.** `TypeCorrect`, `RegisteredAlways`,
  `OwnerIsCreatorAlways`, `KillEffectiveAlways`, `RollbackCompleteAlways`,
  `LeaseHonouredAlways`, `RefreshKeptAlways`, all from one inductive invariant, `IInv`
  (`InvAlways`):
  `PhaseOK` (the places a thread can be in for its operation, goroutines are awaited,
  cleanup waits for its killers), `AllocRegistered` and `AllocAlone` (an allocation in
  flight has a record, and is the only one for its id, which `CreateMeta` ensures),
  `OwnersAgree` (record, label and caller agree between check and use),
  `CleanupJustified` (what cleanup read is still so, or a refresh came in between),
  `KillComplete` (a running node of a listed cluster is still on the list or has
  produced an error), `RefreshKept` and `WholeSeconds` (what was stored is a whole second,
  so storing a later time never moves below an earlier one). One step per action shows
  that it preserves the conjuncts it can disturb. `RegistryUse` is the refinement of
  `MetaRegistry`: it needs that what a request is about to store was asked for
  (`LeaseAsked`) and that the id of an allocation has no record.
- **ShutdownProofs.** `StoreOpenAlways`, from `Inv`: where the main goroutine is
  decides which goroutines and which store there are.
- **RestRetryProofs.** `Bounded`, `Settled`, `InOrder` and `RestRefinement`, for any
  number of calls and any retry parameters, zero and negative ones included. `Inv` adds
  to the properties `RetryCounted` (attempts made and attempts left add up to the
  parameter), `NetSound` (a request under way is either awaited or of a call in `unsure`)
  and `CallsTracked` (which calls have had their effect, and which was last).

- **ClusterSetupProofs.** `SetupCompleteAlways`, `JoinersReadyAlways`,
  `EjectedFirstAlways` and `EjectedAtRestAlways`, for any number of nodes, handlers and
  setups. None of them is inductive: what `SetupComplete` says at the end is built up
  over some ten places, while other setups and their leftover goroutines run. `Inv`
  says what has been achieved at each place: `OneHandler` (a goroutine belongs to the
  setup of one handler), `Counted` (the loop counters at each place), and, while
  `clean`, `Configured` (what is not applied is still in the plan), `Reported` (a
  goroutine that has reported good was right and stays right), `Grown` (the nodes
  before the next one have joined; a rebalance that ended well activated all),
  `Created` and `AtRest`. The step of each action shows two things: the handler that
  moves reaches the next place with what that place promises, and every other handler
  either keeps what it has or is marked by `Spoil`.
- **ProvisionProofs.** `ContextIntactAlways`, `OneSurvivesAlways`, `PublishedAlways`,
  `SameVersionAlways` and `ImagesReadyAlways`, for any requests, products files and number
  of chunks.
  `ContextIntact` needs `TarOwned`: until another build re-creates the tar file, the
  chunks up to a writer's position are in it, whatever other writers add. `OneSurvives`
  needs `Survivor`: a build whose file was re-created shares it with one whose file was
  not, namely the last to create it.
  `SameVersionAtRest` needs `ResolvedNow`: each version resolved so far is what the
  products file says now, unless it has moved. `PhaseOK` and `Built` order the steps.
- **ClusterOpsProofs.** `PolledWhenReadyAlways`, `SampleServedAlways` and
  `CertWorksAlways`, for any requests, buckets and nodes. `PolledWhenReady` holds
  although the code asks the nodes and not the bucket; `FoundKept` and `LoaderSound`
  carry it from the existence of the bucket to the counting of its items.
  `CertProgress` is the loop invariant of `setupCertAuth`: while no other certificate
  request has run, all nodes before the present one are set up and that one as far as
  the request has got.

Only model-checked: `Answered`, `Reclaimed`, `SetupEnds`, `ShutdownEnds`, `CallsReturn`
and `OpsEnd`, because liveness under fairness is out of the prover's reach.
Every other property of a passing run is a theorem. The two violated ones,
`OnlyDeadCleaned` and `RebalancedWhenOk`, are false.

## Limits of the model

- Docker, badger and the Couchbase servers are external, modelled from how the code
  uses them. In particular: badger detects conflicts on keys that were read; a
  container that docker fails to start is removed, one whose start request is lost is
  not; a node that was added becomes active with a successful rebalance.
- The answer 400 "user is missing" to an `AddNode`, which the code takes for success
  (`cluster/node.go:132`), comes only with the node really added, as its comment has it.
- `ClusterSetup` has one cluster, that of the entry point. `StartCluster` would also find
  and clear clusters that other nodes form without it (`cluster/manager.go:117`). Of
  `UseHostname` and `UseIpv6` the model keeps whether `Rename` is called and whether
  `getEpNode` finds the entry point, not the addresses.
- In `ClusterOps` the nodes are unhealthy from the moment a bucket is created until it
  has warmed up (`Healthy`). If a server reported the new bucket later,
  `WaitForBucketHealthy` could return too soon and `PolledWhenReady` would not hold.
- In `ClusterSetup` and `ClusterOps` a REST call that fails after it took effect did so
  before it returned. Late delivery, which `RestCalls` allows, is modelled in `RestRetry`
  only; `LastCallWins` says what it costs a row of calls.
- In `ClusterLifecycle` `ensureImageExists` is one step that may fail; `Provision` has it
  in detail. Likewise `Wipe` in `ClusterOps` stands for a whole setup.
- A tar file that was overwritten in the middle of a build is complete or has a hole; the
  model does not tell the chunks of two editions apart, whose contexts differ only in the
  build arguments that are sent with them.
- `Provision` starts from a docker host and a registry without images.
- A cluster id is an element of a small set that two allocations may both draw. Ids of
  legacy clusters, and of clusters whose record badger cannot read, are not drawn again:
  `CreateClusterMeta` would replace such a record.
- Left out: JSON and routing, handlers that only read, DNS registration (its
  error does not fail the node), logging, `killAllClusters` (not called from
  anywhere), workload, statistics and install helpers (the daemon does not call them),
  configuration, dockerfiles.

## Plan

Done: the modules above, a theorem for every safety property that a run checks, and both
sides of the registry. What is left, in this order:

1. `ClusterSetup` over `RestCalls`: its calls may fail with their effect at once, not
   later. Letting a late request arrive in the middle of the next setup would weaken
   `clean` further and show which calls of `InitNewCluster` depend on their order.
2. Lemmas about the operators of `Versions` that hold for every version (which flavor a
   supported version has, that two editions share a tar file but no image name), so far
   exercised through the runs of `Provision`.
3. An abstract specification of a setup (one step from a set of servers to a cluster, or
   failure), refined by `ClusterSetup` where `clean` holds.
