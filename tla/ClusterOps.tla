----------------------------- MODULE ClusterOps -----------------------------
(***************************************************************************)
(* The operations on a cluster that has been set up: add-bucket,           *)
(* add-sample-bucket, add-collection and setup-cert-auth                   *)
(* (daemon/buckets.go, collections.go, certauth.go and the methods of      *)
(* cluster/node.go they call).  Handlers run concurrently and nothing in   *)
(* the daemon keeps them apart; they meet in the state of the servers      *)
(* (external).  A REST or ssh call has its effect and succeeds, or fails   *)
(* with or without its effect (RestCalls).                                 *)
(***************************************************************************)
EXTENDS Integers, FiniteSets

CONSTANTS
  Req,       \* requests
  Request,   \* what they ask for: [op, bucket]
  Bucket,    \* bucket names
  Count,     \* SampleBucketsCount of a sample
  N,         \* number of nodes
  MaxWipes   \* bound: how often a concurrent setup deletes the buckets

Node == 1..N

ASSUME OpsAssumption ==
  /\ Request \subseteq [op : {"bucket", "sample", "collection", "cert"}, bucket : Bucket]
  /\ Count \in Nat \ {0} /\ N \in Nat \ {0} /\ MaxWipes \in Nat

NoReq == "nobody"

VARIABLES
  req, pc,
  node,      \* the node that setupCertAuth is at
  expired,   \* the deadline of PollSampleBucket has passed
  bucket,    \* the servers' buckets: absent, warming, ready
  items,     \* items in each bucket
  loader,    \* the task that loads a sample: none, begun, filling
  target,    \* the number of items the server's version of the sample has
  collection,\* buckets to which the collection was added
  joined,    \* the nodes form one cluster (and share its CA)
  chain, pkey, ca, active,  \* whose certificate, key and CA each node has, and
                            \* whose certificate it presents
  auth,      \* nodes that accept client certificates
  wipes,
  intact,    \* history: no setup deleted the buckets since the request began
  alone      \* history: no other cert-auth request ran during or after this one

handler == <<req, pc, node, expired>>
data    == <<bucket, items, loader, target, collection>>
certs   == <<chain, pkey, ca, active, auth>>
history == <<wipes, intact, alone>>
vars    == <<handler, data, joined, certs, history>>

Init ==
  /\ req \in [Req -> Request]
  /\ pc = [r \in Req |-> "new"]
  /\ node = [r \in Req |-> 0]
  /\ expired = [r \in Req |-> FALSE]
  /\ bucket = [b \in Bucket |-> "absent"]
  /\ items = [b \in Bucket |-> 0]
  /\ loader = [b \in Bucket |-> "none"]
  /\ target \in {Count, 2 * Count}
  /\ collection = {}
  /\ joined \in BOOLEAN
  /\ chain = [n \in Node |-> NoReq] /\ pkey = [n \in Node |-> NoReq]
  /\ ca = [n \in Node |-> NoReq] /\ active = [n \in Node |-> NoReq]
  /\ auth = {}
  /\ wipes = 0
  /\ intact = [r \in Req |-> TRUE]
  /\ alone = [r \in Req |-> TRUE]

At(r, l)   == pc[r] = l
Goto(r, l) == pc' = [pc EXCEPT ![r] = l]
name(r)    == req[r].bucket

-----------------------------------------------------------------------------
(* addBucket, addSampleBucket, addCollection.                              *)

(* getCluster finds the cluster and its first node, or not.                *)
GetCluster(r) ==
  /\ At(r, "new") /\ req[r].op # "cert"
  /\ Goto(r, req[r].op) \/ Goto(r, "err")
  /\ UNCHANGED <<req, node, expired, data, joined, certs, wipes, alone>>
  /\ intact' = [intact EXCEPT ![r] = TRUE]

(* The call fails: its answer was lost, or a server is down.               *)
CallFails(r) ==
  /\ pc[r] \in {"bucket", "collection", "sample", "exists", "ready", "poll"}
  /\ Goto(r, "err")
  /\ UNCHANGED <<req, node, expired, data, joined, certs, history>>

(* The server refuses: the bucket is there already, or is not found (after *)
(* ten attempts of WaitForBucketHealthy, which retries on 404).            *)
CallRefused(r) ==
  /\ \/ /\ pc[r] \in {"bucket", "sample"}
        /\ bucket[name(r)] # "absent" \/ loader[name(r)] # "none"
     \/ At(r, "collection") /\ bucket[name(r)] # "ready"
     \/ pc[r] \in {"exists", "poll"} /\ bucket[name(r)] = "absent"
  /\ Goto(r, "err")
  /\ UNCHANGED <<req, node, expired, data, joined, certs, history>>

(* addBucket and addCollection return the error of their last call.        *)
Result(r) == Goto(r, "ok") \/ Goto(r, "err")

CreateBucket(r) ==
  /\ At(r, "bucket") /\ bucket[name(r)] = "absent"
  /\ bucket' = [bucket EXCEPT ![name(r)] = "warming"]
  /\ Result(r)
  /\ UNCHANGED <<req, node, expired, items, loader, target, collection, joined,
                 certs, history>>

CreateCollection(r) ==
  /\ At(r, "collection") /\ bucket[name(r)] = "ready"
  /\ collection' = collection \cup {name(r)}
  /\ Result(r)
  /\ UNCHANGED <<req, node, expired, bucket, items, loader, target, joined, certs, history>>

(* LoadSample: the server answers 202 and begins.                          *)
LoadSample(r) ==
  /\ At(r, "sample") /\ bucket[name(r)] = "absent" /\ loader[name(r)] = "none"
  /\ loader' = [loader EXCEPT ![name(r)] = "begun"]
  /\ Goto(r, "exists") \/ Goto(r, "err")
  /\ UNCHANGED <<req, node, expired, bucket, items, target, collection, joined,
                 certs, history>>

(* Mutant: the bucket need only exist.                                     *)
WaitForBucketExists(r) ==
  /\ At(r, "exists") /\ bucket[name(r)] # "absent"
  /\ Goto(r, "poll")
  /\ UNCHANGED <<req, node, expired, data, joined, certs, history>>

(* WaitForBucketHealthy: the bucket is found.                              *)
WaitForBucketHealthy(r) ==
  /\ At(r, "exists") /\ bucket[name(r)] # "absent"
  /\ Goto(r, "ready")
  /\ UNCHANGED <<req, node, expired, data, joined, certs, history>>

(* Every node is "healthy": none of its buckets is warming up.  External:  *)
(* a node is taken to count a bucket from the moment that it is there.     *)
Healthy == \A b \in Bucket : bucket[b] # "warming"

(* WaitForBucketReady has no deadline.                                     *)
WaitForBucketReady(r) ==
  /\ At(r, "ready") /\ Healthy
  /\ Goto(r, "poll")
  /\ UNCHANGED <<req, node, expired, data, joined, certs, history>>

(* Mutant: less than the whole count is enough.                            *)
LoadedEarly(b) == items[b] >= 1

Loaded(b) == items[b] = Count \/ items[b] >= 2 * Count

(* PollSampleBucket: one round.  A bucket that is gone is an error.        *)
PollLoaded(r) ==
  /\ At(r, "poll") /\ bucket[name(r)] # "absent" /\ Loaded(name(r))
  /\ Goto(r, "ok")
  /\ UNCHANGED <<req, node, expired, data, joined, certs, history>>

(* Mutant: the deadline is set anew in each round.                         *)
PollTimeoutNever(r) ==
  /\ At(r, "poll") /\ FALSE
  /\ UNCHANGED vars

PollTimeout(r) ==
  /\ At(r, "poll") /\ expired[r] /\ bucket[name(r)] # "absent" /\ ~Loaded(name(r))
  /\ Goto(r, "err")
  /\ UNCHANGED <<req, node, expired, data, joined, certs, history>>

(* Eight minutes pass.                                                     *)
Deadline(r) ==
  /\ At(r, "poll") /\ ~expired[r]
  /\ expired' = [expired EXCEPT ![r] = TRUE]
  /\ UNCHANGED <<req, pc, node, data, joined, certs, history>>

-----------------------------------------------------------------------------
(* The servers (external).                                                 *)

LoaderCreates(b) ==
  /\ loader[b] = "begun"
  /\ loader' = [loader EXCEPT ![b] = "filling"]
  /\ bucket' = [bucket EXCEPT ![b] = IF @ = "absent" THEN "warming" ELSE @]
  /\ UNCHANGED <<handler, items, target, collection, joined, certs, history>>

Warmup(b) ==
  /\ bucket[b] = "warming"
  /\ bucket' = [bucket EXCEPT ![b] = "ready"]
  /\ UNCHANGED <<handler, items, loader, target, collection, joined, certs, history>>

LoaderFills(b) ==
  /\ loader[b] = "filling" /\ bucket[b] = "ready"
  /\ items' = [items EXCEPT ![b] = @ + 1]
  /\ loader' = [loader EXCEPT ![b] = IF items[b] + 1 = target THEN "none" ELSE @]
  /\ UNCHANGED <<handler, bucket, target, collection, joined, certs, history>>

(* A setup of the same cluster deletes all buckets.                        *)
Wipe ==
  /\ wipes < MaxWipes /\ wipes' = wipes + 1
  /\ \E b \in Bucket : bucket[b] # "absent"
  /\ bucket' = [b \in Bucket |-> "absent"]
  /\ items' = [b \in Bucket |-> 0]
  /\ loader' = [b \in Bucket |-> "none"]
  /\ collection' = {}
  /\ intact' = [r \in Req |-> At(r, "new")]
  /\ UNCHANGED <<handler, target, joined, certs, alone>>

-----------------------------------------------------------------------------
(* setupCertAuth: SetupCert for one node after the other.                  *)

CertPlace == {"chain", "pkey", "ca", "reload", "enable"}
Busy(r)   == pc[r] \in CertPlace

(* A new root key and certificate.                                         *)
SetupCertAuth(r) ==
  /\ At(r, "new") /\ req[r].op = "cert"
  /\ \/ Goto(r, "chain") /\ node' = [node EXCEPT ![r] = 1]
        /\ alone' = [q \in Req |-> IF q = r THEN \A p \in Req : ~Busy(p) ELSE FALSE]
     \/ Goto(r, "err") /\ UNCHANGED <<node, alone>>
  /\ UNCHANGED <<req, expired, data, joined, certs, wipes, intact>>

(* Each of the five steps on a node may fail.                              *)
CertFails(r) ==
  /\ Busy(r) /\ Goto(r, "err")
  /\ UNCHANGED <<req, node, expired, data, joined, certs, history>>

(* A step has its effect, and the answer comes or is lost.                 *)
Step(r, from, to) == At(r, from) /\ (Goto(r, to) \/ Goto(r, "err"))

(* Mutant: the error of WriteRemoteCert is not read.                       *)
WriteRemoteCertUnread(r) ==
  /\ At(r, "chain") /\ Goto(r, "pkey")
  /\ chain' \in {chain, [chain EXCEPT ![node[r]] = r]}
  /\ UNCHANGED <<req, node, expired, data, joined, pkey, ca, active, auth, history>>

WriteRemoteCert(r) ==
  /\ Step(r, "chain", "pkey")
  /\ chain' = [chain EXCEPT ![node[r]] = r]
  /\ UNCHANGED <<req, node, expired, data, joined, pkey, ca, active, auth, history>>

WriteRemoteKey(r) ==
  /\ Step(r, "pkey", "ca")
  /\ pkey' = [pkey EXCEPT ![node[r]] = r]
  /\ UNCHANGED <<req, node, expired, data, joined, chain, ca, active, auth, history>>

(* Nodes of one cluster have one CA.                                       *)
UploadClusterCA(r) ==
  /\ Step(r, "ca", "reload")
  /\ ca' = [n \in Node |-> IF joined \/ n = node[r] THEN r ELSE ca[n]]
  /\ UNCHANGED <<req, node, expired, data, joined, chain, pkey, active, auth, history>>

(* The server takes the pair from the inbox only if the key fits the       *)
(* certificate and the CA has signed it.                                   *)
Fits(n) == chain[n] = pkey[n] /\ chain[n] = ca[n]

ReloadRefused(r) ==
  /\ At(r, "reload") /\ ~Fits(node[r]) /\ Goto(r, "err")
  /\ UNCHANGED <<req, node, expired, data, joined, certs, history>>

ReloadClusterCert(r) ==
  /\ Step(r, "reload", "enable") /\ Fits(node[r])
  /\ active' = [active EXCEPT ![node[r]] = chain[node[r]]]
  /\ UNCHANGED <<req, node, expired, data, joined, chain, pkey, ca, auth, history>>

(* Mutant: the loop ends one node too early.                               *)
EnableClientCertAuthShort(r) ==
  /\ At(r, "enable")
  /\ auth' = auth \cup {node[r]}
  /\ node' = [node EXCEPT ![r] = IF @ < N THEN @ + 1 ELSE @]
  /\ Goto(r, IF node[r] < N - 1 THEN "chain" ELSE "ok") \/ Goto(r, "err")
  /\ UNCHANGED <<req, expired, data, joined, chain, pkey, ca, active, history>>

(* Then the next node; at the end the client's certificate is made.        *)
EnableClientCertAuth(r) ==
  /\ At(r, "enable")
  /\ auth' = auth \cup {node[r]}
  /\ node' = [node EXCEPT ![r] = IF @ < N THEN @ + 1 ELSE @]
  /\ Goto(r, IF node[r] < N THEN "chain" ELSE "ok") \/ Goto(r, "err")
  /\ UNCHANGED <<req, expired, data, joined, chain, pkey, ca, active, history>>

-----------------------------------------------------------------------------

BucketStep(r) ==
  \/ GetCluster(r) \/ CallRefused(r) \/ CreateBucket(r) \/ CreateCollection(r)
  \/ LoadSample(r) \/ WaitForBucketHealthy(r) \/ WaitForBucketReady(r)
  \/ PollLoaded(r) \/ PollTimeout(r)

CertStep(r) ==
  \/ SetupCertAuth(r) \/ WriteRemoteCert(r) \/ WriteRemoteKey(r) \/ UploadClusterCA(r)
  \/ ReloadClusterCert(r) \/ ReloadRefused(r) \/ EnableClientCertAuth(r)

Server(b) == LoaderCreates(b) \/ Warmup(b) \/ LoaderFills(b)

Next ==
  \/ \E r \in Req : BucketStep(r) \/ CertStep(r) \/ CallFails(r) \/ CertFails(r)
                  \/ Deadline(r)
  \/ \E b \in Bucket : Server(b)
  \/ Wipe

Spec == Init /\ [][Next]_vars

(* Calls return, not necessarily with an error; the clock advances; the    *)
(* servers finish what they have begun.                                    *)
FairSpec ==
  /\ Spec
  /\ \A r \in Req : /\ WF_vars(~At(r, "new") /\ (BucketStep(r) \/ CertStep(r)))
                    /\ WF_vars(Deadline(r))
  /\ \A b \in Bucket : WF_vars(Server(b))

-----------------------------------------------------------------------------

HandlerType ==
  /\ req \in [Req -> Request]
  /\ pc \in [Req -> {"new", "bucket", "collection", "sample", "exists", "ready", "poll",
                     "ok", "err"} \cup CertPlace]
  /\ node \in [Req -> 0..N] /\ expired \in [Req -> BOOLEAN]

DataType ==
  /\ bucket \in [Bucket -> {"absent", "warming", "ready"}]
  /\ items \in [Bucket -> 0..(2 * Count)]
  /\ loader \in [Bucket -> {"none", "begun", "filling"}]
  /\ target \in {Count, 2 * Count} /\ collection \subseteq Bucket

CertType ==
  /\ chain \in [Node -> Req \cup {NoReq}] /\ pkey \in [Node -> Req \cup {NoReq}]
  /\ ca \in [Node -> Req \cup {NoReq}] /\ active \in [Node -> Req \cup {NoReq}]
  /\ joined \in BOOLEAN /\ auth \subseteq Node

HistoryType ==
  /\ wipes \in 0..MaxWipes
  /\ intact \in [Req -> BOOLEAN] /\ alone \in [Req -> BOOLEAN]

TypeOK == HandlerType /\ DataType /\ CertType /\ HistoryType

(* A sample that was reported as loaded is there with at least its         *)
(* nominal number of items, and completely if the server's version of it   *)
(* has just that number, unless a setup has deleted it since.              *)
SampleServed ==
  \A r \in Req : req[r].op = "sample" /\ At(r, "ok") /\ intact[r] =>
    /\ bucket[name(r)] = "ready" /\ items[name(r)] >= Count
    /\ target = Count => loader[name(r)] = "none"

(* "WaitForBucketHealthy will wait until bucket with name s exists and     *)
(* that it is ready": by the time its items are counted the bucket is      *)
(* ready, though the code asks the nodes and not the bucket.               *)
PolledWhenReady ==
  \A r \in Req : At(r, "poll") /\ intact[r] => bucket[name(r)] = "ready"

(* The client gets a certificate that every node accepts: all of them      *)
(* present certificates of the CA it got, and ask for one of its own.      *)
(* This needs that no other cert-auth request ran at the same time.        *)
CertWorks ==
  \A r \in Req : req[r].op = "cert" /\ At(r, "ok") /\ alone[r] =>
    \A n \in Node : active[n] = r /\ ca[n] = r /\ n \in auth

(* Every operation ends, with two of them loading samples or setting up    *)
(* certificates at the same time and a setup deleting the buckets.         *)
OpsEnd == \A r \in Req : ~At(r, "new") ~> pc[r] \in {"ok", "err"}

-----------------------------------------------------------------------------
(* The inductive invariant.                                                *)

SamplePlace == {"sample", "exists", "ready", "poll"}

(* A handler is where its operation can take it.                           *)
PlaceOK ==
  \A r \in Req : /\ pc[r] \in {"bucket", "collection"} => req[r].op = pc[r]
                 /\ pc[r] \in SamplePlace => req[r].op = "sample"
                 /\ Busy(r) => req[r].op = "cert" /\ node[r] \in Node

(* What a loader has still to do: an absent bucket is empty, a loader      *)
(* begins with an empty bucket and stops at the target.                    *)
LoaderSound ==
  \A b \in Bucket : /\ bucket[b] = "absent" \/ loader[b] = "begun" => items[b] = 0
                    /\ loader[b] = "filling" => items[b] < target

(* The bucket that WaitForBucketHealthy found is still there.              *)
FoundKept ==
  \A r \in Req : At(r, "ready") /\ intact[r] => bucket[name(r)] # "absent"

CertReq(r) == req[r].op = "cert" /\ alone[r] /\ (Busy(r) \/ At(r, "ok"))

(* The node is set up for the certificates of r.                           *)
Certified(r, n) == active[n] = r /\ ca[n] = r /\ n \in auth

(* What a certificate request that is alone has done so far: all nodes     *)
(* before the present one are set up, and that one as far as it has got.   *)
CertProgress ==
  \A r \in Req : CertReq(r) =>
    /\ \A q \in Req \ {r} : ~Busy(q)
    /\ Busy(r) => \A n \in 1..(node[r] - 1) : Certified(r, n)
    /\ pc[r] \in {"pkey", "ca", "reload"} => chain[node[r]] = r
    /\ pc[r] \in {"ca", "reload"} => pkey[node[r]] = r
    /\ pc[r] \in {"reload", "enable"} => ca[node[r]] = r
    /\ At(r, "enable") => active[node[r]] = r

(* How far a request has come tells what the servers have done for it: the *)
(* loader for LoadSample, the nodes already passed for setupCertAuth.      *)
(* Inductive.                                                              *)
Inv ==
  /\ TypeOK /\ PlaceOK /\ LoaderSound /\ FoundKept /\ CertProgress
  /\ PolledWhenReady /\ SampleServed /\ CertWorks

=============================================================================
