-------------------------- MODULE ClusterOpsProofs --------------------------
(***************************************************************************)
(* Proofs about ClusterOps, for any sets of requests and buckets and any   *)
(* number of nodes.                                                        *)
(***************************************************************************)
EXTENDS ClusterOps, TLAPS

(* The steps that change nothing but where a handler is.                   *)
Moves(r) ==
  \/ CallFails(r) \/ CallRefused(r) \/ WaitForBucketHealthy(r) \/ WaitForBucketReady(r)
  \/ PollLoaded(r) \/ PollTimeout(r) \/ CertFails(r) \/ ReloadRefused(r)

(* The steps that change what a node has of certificates.                  *)
Writes(r) ==
  \/ WriteRemoteCert(r) \/ WriteRemoteKey(r) \/ UploadClusterCA(r)
  \/ ReloadClusterCert(r) \/ EnableClientCertAuth(r)

LEMMA Cases ==
  ASSUME [Next]_vars
  PROVE  \/ \E r \in Req : \/ GetCluster(r) \/ Moves(r) \/ Deadline(r) \/ CreateBucket(r)
                           \/ CreateCollection(r) \/ LoadSample(r)
                           \/ SetupCertAuth(r) \/ Writes(r)
         \/ \E b \in Bucket : LoaderCreates(b) \/ Warmup(b) \/ LoaderFills(b)
         \/ Wipe
         \/ UNCHANGED vars
BY DEF Next, BucketStep, CertStep, Server, Moves, Writes

-----------------------------------------------------------------------------
(* What the steps of a handler do to pc, and what they leave alone.        *)

LEMMA ReqKept ==
  ASSUME [Next]_vars
  PROVE  req' = req
BY DEF Next, vars, handler, BucketStep, CertStep, Server, GetCluster, CallFails, CallRefused,
       CreateBucket, CreateCollection, LoadSample, WaitForBucketHealthy, WaitForBucketReady,
       PollLoaded, PollTimeout, Deadline, LoaderCreates, Warmup, LoaderFills, Wipe,
       SetupCertAuth, CertFails, WriteRemoteCert, WriteRemoteKey, UploadClusterCA,
       ReloadRefused, ReloadClusterCert, EnableClientCertAuth

LEMMA MovesStep ==
  ASSUME NEW r \in Req, Moves(r), HandlerType
  PROVE  /\ UNCHANGED <<req, node, expired, data, joined, certs, history>>
         /\ \E l \in {"ready", "poll", "ok", "err"} : Goto(r, l)
         /\ pc[r] # "new"
BY DEF Moves, CallFails, CallRefused, WaitForBucketHealthy, WaitForBucketReady,
       PollLoaded, PollTimeout, CertFails, ReloadRefused, HandlerType, At, Busy, CertPlace, Goto

LEMMA HandlerStep ==
  ASSUME HandlerType, PlaceOK, [Next]_vars
  PROVE  HandlerType'
<1> USE OpsAssumption DEF HandlerType, At, Goto, CertPlace
<1>1. ASSUME NEW r \in Req, GetCluster(r) PROVE HandlerType'
  <2>1. req[r].op \in {"bucket", "sample", "collection"}
    BY <1>1 DEF GetCluster
  <2>2. QED
    BY <1>1, <2>1 DEF GetCluster
<1>2. ASSUME NEW r \in Req, Moves(r) PROVE HandlerType'
  BY <1>2, MovesStep
<1>3. ASSUME NEW r \in Req, CreateBucket(r) \/ CreateCollection(r) \/ LoadSample(r)
      PROVE  HandlerType'
  BY <1>3 DEF CreateBucket, CreateCollection, LoadSample, Result
<1>4. ASSUME NEW r \in Req, SetupCertAuth(r) PROVE HandlerType'
  BY <1>4 DEF SetupCertAuth
<1>5. ASSUME NEW r \in Req, Writes(r) PROVE HandlerType'
  <2>1. CASE EnableClientCertAuth(r)
    BY <1>5, <2>1 DEF EnableClientCertAuth, PlaceOK, Busy, Node
  <2>2. CASE ~EnableClientCertAuth(r)
    BY <1>5, <2>2 DEF Writes, WriteRemoteCert, WriteRemoteKey, UploadClusterCA,
                      ReloadClusterCert, Step
  <2>3. QED
    BY <2>1, <2>2
<1>6. ASSUME NEW r \in Req, Deadline(r) PROVE HandlerType'
  BY <1>6 DEF Deadline
<1>7. ASSUME NEW b \in Bucket, LoaderCreates(b) \/ Warmup(b) \/ LoaderFills(b)
      PROVE  HandlerType'
  BY <1>7 DEF LoaderCreates, Warmup, LoaderFills, handler
<1>8. CASE Wipe \/ UNCHANGED vars
  BY <1>8 DEF Wipe, vars, handler
<1>9. QED
  BY Cases, <1>1, <1>2, <1>3, <1>4, <1>5, <1>6, <1>7, <1>8

(* The steps by which buckets change, in one formula each for the handlers *)
(* and for the servers.                                                    *)
Buckets(r) == CreateBucket(r) \/ CreateCollection(r) \/ LoadSample(r)
Servers(b) == LoaderCreates(b) \/ Warmup(b) \/ LoaderFills(b)

LEMMA DataFrame ==
  ASSUME HandlerType, [Next]_vars
  PROVE  \/ UNCHANGED data
         \/ \E r \in Req : Buckets(r)
         \/ \E b \in Bucket : Servers(b)
         \/ Wipe
<1>1. ASSUME NEW r \in Req, GetCluster(r) \/ Deadline(r) \/ SetupCertAuth(r)
      PROVE  UNCHANGED data
  BY <1>1 DEF GetCluster, Deadline, SetupCertAuth
<1>2. ASSUME NEW r \in Req, Moves(r) PROVE UNCHANGED data
  BY <1>2, MovesStep
<1>3. ASSUME NEW r \in Req, Writes(r) PROVE UNCHANGED data
  BY <1>3 DEF Writes, WriteRemoteCert, WriteRemoteKey, UploadClusterCA,
              ReloadClusterCert, EnableClientCertAuth
<1>4. QED
  BY Cases, <1>1, <1>2, <1>3 DEF Buckets, Servers, vars

LEMMA CertFrame ==
  ASSUME HandlerType, [Next]_vars
  PROVE  UNCHANGED <<joined, certs>> \/ \E r \in Req : Writes(r)
<1>1. ASSUME NEW r \in Req,
             GetCluster(r) \/ Deadline(r) \/ SetupCertAuth(r) \/ Buckets(r)
      PROVE  UNCHANGED <<joined, certs>>
  BY <1>1 DEF GetCluster, Deadline, SetupCertAuth, Buckets, CreateBucket,
              CreateCollection, LoadSample
<1>2. ASSUME NEW r \in Req, Moves(r) PROVE UNCHANGED <<joined, certs>>
  BY <1>2, MovesStep
<1>3. ASSUME NEW b \in Bucket, Servers(b) PROVE UNCHANGED <<joined, certs>>
  BY <1>3 DEF Servers, LoaderCreates, Warmup, LoaderFills
<1>4. CASE Wipe \/ UNCHANGED vars
  BY <1>4 DEF Wipe, vars
<1>5. QED
  BY Cases, <1>1, <1>2, <1>3, <1>4 DEF Buckets, Servers

LEMMA DataStep ==
  ASSUME HandlerType, DataType, LoaderSound, [Next]_vars
  PROVE  DataType'
<1> USE OpsAssumption DEF DataType
<1>1. ASSUME NEW r \in Req, Buckets(r) PROVE DataType'
  <2>1. name(r) \in Bucket
    BY DEF name, HandlerType
  <2>2. QED
    BY <1>1, <2>1 DEF Buckets, CreateBucket, CreateCollection, LoadSample
<1>2. ASSUME NEW b \in Bucket, Servers(b) PROVE DataType'
  <2>1. CASE LoaderFills(b)
    <3>1. items[b] + 1 \in 0..(2 * Count)
      BY <2>1 DEF LoaderFills, LoaderSound
    <3>2. QED
      BY <2>1, <3>1 DEF LoaderFills
  <2>2. CASE LoaderCreates(b) \/ Warmup(b)
    BY <2>2 DEF LoaderCreates, Warmup
  <2>3. QED
    BY <1>2, <2>1, <2>2 DEF Servers
<1>3. CASE Wipe
  BY <1>3 DEF Wipe
<1>4. CASE UNCHANGED data
  BY <1>4 DEF data
<1>5. QED
  BY DataFrame, <1>1, <1>2, <1>3, <1>4

LEMMA CertTypeStep ==
  ASSUME HandlerType, CertType, PlaceOK, [Next]_vars
  PROVE  CertType'
<1>1. ASSUME NEW r \in Req, Writes(r) PROVE CertType'
  <2>1. node[r] \in Node
    BY <1>1 DEF Writes, WriteRemoteCert, WriteRemoteKey, UploadClusterCA,
                ReloadClusterCert, EnableClientCertAuth, Step, At, PlaceOK, Busy, CertPlace
  <2>2. QED
    BY <1>1, <2>1 DEF Writes, WriteRemoteCert, WriteRemoteKey, UploadClusterCA,
                      ReloadClusterCert, EnableClientCertAuth, CertType
<1>2. CASE UNCHANGED <<joined, certs>>
  BY <1>2 DEF certs, CertType
<1>3. QED
  BY CertFrame, <1>1, <1>2

(* A step changes the history only where a handler begins or a setup       *)
(* deletes the buckets.                                                    *)
LEMMA HistoryFrame ==
  ASSUME HandlerType, [Next]_vars
  PROVE  \/ UNCHANGED history
         \/ \E r \in Req : GetCluster(r) \/ SetupCertAuth(r)
         \/ Wipe
<1>1. ASSUME NEW r \in Req, Deadline(r) \/ Buckets(r) \/ Writes(r) PROVE UNCHANGED history
  BY <1>1 DEF Deadline, Buckets, CreateBucket, CreateCollection, LoadSample, Writes,
              WriteRemoteCert, WriteRemoteKey, UploadClusterCA, ReloadClusterCert,
              EnableClientCertAuth
<1>2. ASSUME NEW r \in Req, Moves(r) PROVE UNCHANGED history
  BY <1>2, MovesStep
<1>3. ASSUME NEW b \in Bucket, Servers(b) PROVE UNCHANGED history
  BY <1>3 DEF Servers, LoaderCreates, Warmup, LoaderFills
<1>4. QED
  BY Cases, <1>1, <1>2, <1>3 DEF Buckets, Servers, vars

LEMMA HistoryStep ==
  ASSUME HandlerType, HistoryType, [Next]_vars
  PROVE  HistoryType'
<1> USE DEF HistoryType
<1>1. ASSUME NEW r \in Req, GetCluster(r) PROVE HistoryType'
  BY <1>1 DEF GetCluster
<1>2. ASSUME NEW r \in Req, SetupCertAuth(r) PROVE HistoryType'
  BY <1>2 DEF SetupCertAuth
<1>3. CASE Wipe
  BY <1>3, OpsAssumption DEF Wipe, At
<1>4. CASE UNCHANGED history
  BY <1>4 DEF history
<1>5. QED
  BY HistoryFrame, <1>1, <1>2, <1>3, <1>4

-----------------------------------------------------------------------------
(* Where handlers are.                                                     *)

LEMMA PlaceStep ==
  ASSUME HandlerType, PlaceOK, [Next]_vars
  PROVE  PlaceOK'
<1> USE OpsAssumption DEF HandlerType, PlaceOK, At, Goto, CertPlace, SamplePlace, Busy, Node
<1>1. ASSUME NEW r \in Req, GetCluster(r) PROVE PlaceOK'
  BY <1>1 DEF GetCluster
<1>2. ASSUME NEW r \in Req, Moves(r) PROVE PlaceOK'
  BY <1>2 DEF Moves, CallFails, CallRefused, WaitForBucketHealthy, WaitForBucketReady,
              PollLoaded, PollTimeout, CertFails, ReloadRefused
<1>3. ASSUME NEW r \in Req, Buckets(r) PROVE PlaceOK'
  BY <1>3 DEF Buckets, CreateBucket, CreateCollection, LoadSample, Result
<1>4. ASSUME NEW r \in Req, SetupCertAuth(r) PROVE PlaceOK'
  BY <1>4 DEF SetupCertAuth
<1>5. ASSUME NEW r \in Req, Writes(r) PROVE PlaceOK'
  BY <1>5 DEF Writes, WriteRemoteCert, WriteRemoteKey, UploadClusterCA,
              ReloadClusterCert, EnableClientCertAuth, Step
<1>6. CASE UNCHANGED <<req, pc, node>>
  BY <1>6
<1>7. ASSUME NEW r \in Req, Deadline(r) PROVE PlaceOK'
  BY <1>7, <1>6 DEF Deadline
<1>8. ASSUME NEW b \in Bucket, Servers(b) PROVE PlaceOK'
  BY <1>8, <1>6 DEF Servers, LoaderCreates, Warmup, LoaderFills, handler
<1>9. CASE Wipe \/ UNCHANGED vars
  BY <1>9, <1>6 DEF Wipe, vars, handler
<1>10. QED
  BY Cases, <1>1, <1>2, <1>3, <1>4, <1>5, <1>7, <1>8, <1>9 DEF Buckets, Servers

-----------------------------------------------------------------------------
(* Buckets and samples.                                                    *)

LEMMA LoaderStep ==
  ASSUME HandlerType, DataType, LoaderSound, [Next]_vars
  PROVE  LoaderSound'
<1> USE OpsAssumption DEF DataType, LoaderSound
<1>1. ASSUME NEW r \in Req, Buckets(r) PROVE LoaderSound'
  <2>1. name(r) \in Bucket
    BY DEF name, HandlerType
  <2>2. QED
    BY <1>1, <2>1 DEF Buckets, CreateBucket, CreateCollection, LoadSample
<1>2. ASSUME NEW b \in Bucket, Servers(b) PROVE LoaderSound'
  BY <1>2 DEF Servers, LoaderFills, LoaderCreates, Warmup
<1>3. CASE Wipe
  BY <1>3 DEF Wipe
<1>4. CASE UNCHANGED data
  BY <1>4 DEF data
<1>5. QED
  BY DataFrame, <1>1, <1>2, <1>3, <1>4

(* Only a setup makes a bucket absent again, or takes items from it, and   *)
(* then no request that has begun is intact.                               *)
LEMMA BucketKept ==
  ASSUME HandlerType, DataType, LoaderSound, [Next]_vars, ~Wipe, NEW b \in Bucket
  PROVE  /\ bucket[b] # "absent" => bucket'[b] # "absent"
         /\ bucket[b] = "ready" => bucket'[b] = "ready"
         /\ items'[b] >= items[b]
         /\ target' = target
         /\ loader[b] = "none" /\ bucket[b] # "absent" => loader'[b] = "none"
<1> USE OpsAssumption DEF DataType
<1>1. CASE \E r \in Req : Buckets(r)
  <2>1. PICK r \in Req : Buckets(r)
    BY <1>1
  <2>2. name(r) \in Bucket
    BY DEF name, HandlerType
  <2>3. QED
    BY <2>1, <2>2 DEF Buckets, CreateBucket, CreateCollection, LoadSample
<1>2. CASE \E c \in Bucket : Servers(c)
  BY <1>2 DEF Servers, LoaderFills, LoaderCreates, Warmup
<1>3. CASE UNCHANGED data
  BY <1>3 DEF data
<1>4. QED
  BY DataFrame, <1>1, <1>2, <1>3

LEMMA WipeSpoils ==
  ASSUME HandlerType, Wipe, NEW r \in Req, pc'[r] # "new"
  PROVE  ~intact'[r]
BY DEF Wipe, HandlerType, At, handler

(* A handler gets to a place of LoadSample from the one before it, and its *)
(* history stays as it is.                                                 *)
LEMMA SampleFrame ==
  ASSUME HandlerType, PlaceOK, HistoryType, [Next]_vars, ~Wipe, NEW r \in Req,
         req[r].op = "sample", pc'[r] \in {"ready", "poll", "ok"}
  PROVE  /\ req' = req /\ intact'[r] = intact[r]
         /\ \/ pc'[r] = pc[r]
            \/ WaitForBucketHealthy(r) \/ WaitForBucketReady(r) \/ PollLoaded(r)
<1> USE OpsAssumption DEF HandlerType, PlaceOK, HistoryType, At, Goto, CertPlace, SamplePlace, Busy
<1>1. CASE \E q \in Req : GetCluster(q)
  <2>1. PICK q \in Req : GetCluster(q)
    BY <1>1
  <2>2. q # r
    BY <2>1 DEF GetCluster
  <2>3. QED
    BY <2>1, <2>2 DEF GetCluster
<1>2. CASE \E q \in Req : Moves(q)
  BY <1>2 DEF Moves, CallFails, CallRefused, WaitForBucketHealthy, WaitForBucketReady,
              PollLoaded, PollTimeout, CertFails, ReloadRefused, history
<1>3. CASE \E q \in Req : Buckets(q)
  BY <1>3 DEF Buckets, CreateBucket, CreateCollection, LoadSample, Result, history
<1>4. CASE \E q \in Req : SetupCertAuth(q)
  BY <1>4 DEF SetupCertAuth
<1>5. CASE \E q \in Req : Writes(q)
  BY <1>5 DEF Writes, WriteRemoteCert, WriteRemoteKey, UploadClusterCA,
              ReloadClusterCert, EnableClientCertAuth, Step, history
<1>6. CASE \E q \in Req : Deadline(q)
  BY <1>6 DEF Deadline, history
<1>7. CASE \E b \in Bucket : Servers(b)
  BY <1>7 DEF Servers, LoaderCreates, Warmup, LoaderFills, handler, history
<1>8. CASE UNCHANGED vars
  BY <1>8 DEF vars, handler, history
<1>9. QED
  BY Cases, <1>1, <1>2, <1>3, <1>4, <1>5, <1>6, <1>7, <1>8 DEF Buckets, Servers

LEMMA FoundStep ==
  ASSUME TypeOK, PlaceOK, LoaderSound, FoundKept, [Next]_vars
  PROVE  FoundKept'
<1> SUFFICES ASSUME NEW r \in Req, pc'[r] = "ready", intact'[r]
             PROVE  bucket'[name(r)'] # "absent"
  BY DEF FoundKept, At
<1> USE DEF TypeOK
<1>1. ~Wipe
  BY WipeSpoils
<1>2. req[r].op = "sample"
  BY PlaceStep, ReqKept DEF PlaceOK, SamplePlace
<1>3. /\ req' = req /\ intact[r]
      /\ pc[r] = "ready" \/ WaitForBucketHealthy(r)
  BY <1>1, <1>2, SampleFrame DEF WaitForBucketReady, PollLoaded, At, Goto, HandlerType
<1>4. name(r)' = name(r) /\ name(r) \in Bucket
  BY <1>3, OpsAssumption DEF name, HandlerType
<1>5. bucket[name(r)] # "absent"
  BY <1>3 DEF FoundKept, At, WaitForBucketHealthy
<1>6. QED
  BY <1>1, <1>4, <1>5, BucketKept

LEMMA PolledStep ==
  ASSUME TypeOK, PlaceOK, LoaderSound, FoundKept, PolledWhenReady, [Next]_vars
  PROVE  PolledWhenReady'
<1> SUFFICES ASSUME NEW r \in Req, pc'[r] = "poll", intact'[r]
             PROVE  bucket'[name(r)'] = "ready"
  BY DEF PolledWhenReady, At
<1> USE DEF TypeOK
<1>1. ~Wipe
  BY WipeSpoils
<1>2. req[r].op = "sample"
  BY PlaceStep, ReqKept DEF PlaceOK, SamplePlace
<1>3. /\ req' = req /\ intact[r]
      /\ pc[r] = "poll" \/ WaitForBucketReady(r)
  BY <1>1, <1>2, SampleFrame DEF WaitForBucketHealthy, PollLoaded, At, Goto, HandlerType
<1>4. name(r)' = name(r) /\ name(r) \in Bucket
  BY <1>3, OpsAssumption DEF name, HandlerType
<1>5. bucket[name(r)] = "ready"
  <2>1. CASE pc[r] = "poll"
    BY <1>3, <2>1 DEF PolledWhenReady, At
  <2>2. CASE WaitForBucketReady(r)
    BY <1>3, <1>4, <2>2 DEF WaitForBucketReady, Healthy, FoundKept, At, DataType
  <2>3. QED
    BY <1>3, <2>1, <2>2
<1>6. QED
  BY <1>1, <1>4, <1>5, BucketKept

LEMMA ServedStep ==
  ASSUME TypeOK, PlaceOK, LoaderSound, PolledWhenReady, SampleServed, [Next]_vars
  PROVE  SampleServed'
<1> SUFFICES ASSUME NEW r \in Req, req'[r].op = "sample", pc'[r] = "ok", intact'[r]
             PROVE  /\ bucket'[name(r)'] = "ready" /\ items'[name(r)'] >= Count
                    /\ target' = Count => loader'[name(r)'] = "none"
  BY DEF SampleServed, At
<1> USE DEF TypeOK
<1>1. ~Wipe
  BY WipeSpoils
<1>2. req' = req
  BY ReqKept
<1>3. intact[r] /\ (pc[r] = "ok" \/ PollLoaded(r))
  BY <1>1, <1>2, SampleFrame DEF WaitForBucketHealthy, WaitForBucketReady, At, Goto, HandlerType
<1>4. name(r)' = name(r) /\ name(r) \in Bucket
  BY <1>2, OpsAssumption DEF name, HandlerType
<1>5. /\ bucket[name(r)] = "ready" /\ items[name(r)] >= Count
      /\ target = Count => loader[name(r)] = "none"
  <2>1. CASE pc[r] = "ok"
    BY <1>2, <1>3, <2>1 DEF SampleServed, At
  <2>2. CASE PollLoaded(r)
    <3>1. items[name(r)] >= Count
      BY <1>4, <2>2, OpsAssumption DEF PollLoaded, Loaded, DataType
    <3>2. target = Count => loader[name(r)] = "none"
      BY <1>4, <3>1, OpsAssumption DEF LoaderSound, DataType
    <3>3. QED
      BY <1>3, <2>2, <3>1, <3>2 DEF PollLoaded, PolledWhenReady, At
  <2>3. QED
    BY <1>3, <2>1, <2>2
<1>6. QED
  <2>1. items[name(r)] \in Int /\ items'[name(r)] \in Int /\ Count \in Int
    BY <1>4, DataStep, OpsAssumption DEF DataType
  <2>2. QED
    BY <1>1, <1>4, <1>5, <2>1, BucketKept

-----------------------------------------------------------------------------
(* Certificates.                                                           *)

(* A handler gets busy with certificates only by SetupCertAuth, moves on   *)
(* only by the steps of Writes, and stays where it is otherwise.           *)
LEMMA BusyFrame ==
  ASSUME HandlerType, PlaceOK, [Next]_vars, NEW r \in Req, req[r].op = "cert",
         Busy(r)' \/ pc'[r] = "ok"
  PROVE  \/ SetupCertAuth(r) \/ Writes(r)
         \/ pc'[r] = pc[r] /\ node'[r] = node[r]
<1> USE OpsAssumption DEF HandlerType, PlaceOK, At, Goto, CertPlace, SamplePlace, Busy
<1>1. CASE \E q \in Req : GetCluster(q)
  BY <1>1 DEF GetCluster
<1>2. CASE \E q \in Req : Moves(q)
  BY <1>2 DEF Moves, CallFails, CallRefused, WaitForBucketHealthy, WaitForBucketReady,
              PollLoaded, PollTimeout, CertFails, ReloadRefused
<1>3. CASE \E q \in Req : Buckets(q)
  BY <1>3 DEF Buckets, CreateBucket, CreateCollection, LoadSample, Result
<1>4. CASE \E q \in Req : SetupCertAuth(q)
  BY <1>4 DEF SetupCertAuth
<1>5. CASE \E q \in Req : Writes(q)
  <2>1. PICK q \in Req : Writes(q)
    BY <1>5
  <2>2. CASE q # r
    BY <2>1, <2>2 DEF Writes, WriteRemoteCert, WriteRemoteKey, UploadClusterCA,
                      ReloadClusterCert, EnableClientCertAuth, Step
  <2>3. QED
    BY <2>1, <2>2
<1>6. CASE \E q \in Req : Deadline(q)
  BY <1>6 DEF Deadline
<1>7. CASE \E b \in Bucket : Servers(b)
  BY <1>7 DEF Servers, LoaderCreates, Warmup, LoaderFills, handler
<1>8. CASE Wipe \/ UNCHANGED vars
  BY <1>8 DEF Wipe, vars, handler
<1>9. QED
  BY Cases, <1>1, <1>2, <1>3, <1>4, <1>5, <1>6, <1>7, <1>8 DEF Buckets, Servers

LEMMA WritesBusy ==
  ASSUME HandlerType, PlaceOK, HistoryType, NEW r \in Req, Writes(r)
  PROVE  Busy(r) /\ alone' = alone /\ req[r].op = "cert"
BY DEF Writes, WriteRemoteCert, WriteRemoteKey, UploadClusterCA, ReloadClusterCert,
       EnableClientCertAuth, Step, At, Busy, CertPlace, history, PlaceOK

(* alone can only become true at the beginning of a request.               *)
LEMMA AloneFrame ==
  ASSUME HandlerType, HistoryType, [Next]_vars, NEW r \in Req, alone'[r]
  PROVE  /\ alone[r] \/ SetupCertAuth(r)
         /\ \A q \in Req \ {r} : SetupCertAuth(q) => ~Busy(q)'
         /\ SetupCertAuth(r) /\ Busy(r)' => \A q \in Req : ~Busy(q)
<1> USE DEF HandlerType, HistoryType, At, Goto, Busy, CertPlace
<1>1. alone[r] \/ SetupCertAuth(r)
  <2>1. CASE UNCHANGED history
    BY <2>1 DEF history
  <2>2. CASE Wipe
    BY <2>2 DEF Wipe
  <2>3. CASE \E q \in Req : GetCluster(q)
    BY <2>3 DEF GetCluster
  <2>4. CASE \E q \in Req : SetupCertAuth(q)
    BY <2>4 DEF SetupCertAuth
  <2>5. QED
    BY HistoryFrame, <2>1, <2>2, <2>3, <2>4
<1>2. \A q \in Req \ {r} : SetupCertAuth(q) => ~Busy(q)'
  BY DEF SetupCertAuth
<1>3. SetupCertAuth(r) /\ Busy(r)' => \A q \in Req : ~Busy(q)
  BY DEF SetupCertAuth
<1>4. QED
  BY <1>1, <1>2, <1>3

(* A request that is alone begins, takes a step, or finds its certificates *)
(* as it left them.                                                        *)
LEMMA CertReqFrame ==
  ASSUME HandlerType, PlaceOK, HistoryType, CertProgress, [Next]_vars, NEW r \in Req, CertReq(r)'
  PROVE  /\ \A q \in Req \ {r} : ~Busy(q)'
         /\ \/ SetupCertAuth(r)
            \/ CertReq(r) /\ Writes(r)
            \/ CertReq(r) /\ pc'[r] = pc[r] /\ node'[r] = node[r] /\ UNCHANGED <<joined, certs>>
<1>1. req[r].op = "cert" /\ alone'[r] /\ (Busy(r)' \/ pc'[r] = "ok")
  BY ReqKept DEF CertReq, At
<1>2. SetupCertAuth(r) \/ CertReq(r)
  <2>1. SetupCertAuth(r) \/ (alone[r] /\ (Writes(r) \/ pc'[r] = pc[r]))
    BY <1>1, AloneFrame, BusyFrame
  <2>2. QED
    BY <1>1, <2>1, WritesBusy DEF CertReq, At, Busy
<1>3. \A q \in Req \ {r} : ~Busy(q)
  <2>1. CASE SetupCertAuth(r)
    BY <1>1, <2>1, AloneFrame DEF SetupCertAuth, At, Goto, HandlerType, Busy, CertPlace
  <2>2. CASE CertReq(r)
    BY <2>2 DEF CertProgress
  <2>3. QED
    BY <1>2, <2>1, <2>2
<1>4. ASSUME NEW q \in Req \ {r}, Busy(q)' PROVE FALSE
  <2>1. req[q].op = "cert"
    BY <1>4, PlaceStep, ReqKept DEF PlaceOK
  <2>2. SetupCertAuth(q) \/ Writes(q) \/ pc'[q] = pc[q]
    BY <1>4, <2>1, BusyFrame
  <2>3. SetupCertAuth(q) \/ Busy(q)
    BY <1>4, <2>2, WritesBusy DEF Busy
  <2>4. QED
    BY <1>1, <1>3, <1>4, <2>3, AloneFrame
<1>5. CASE CertReq(r) /\ ~Writes(r) /\ ~SetupCertAuth(r)
  <2>1. UNCHANGED <<joined, certs>>
    BY <1>3, <1>5, CertFrame, WritesBusy
  <2>2. QED
    BY <1>1, <1>4, <1>5, <2>1, BusyFrame
<1>6. QED
  BY <1>2, <1>4, <1>5

(* What CertProgress and CertWorks say of one request.                     *)
Progress(r) ==
  /\ Busy(r) => \A n \in 1..(node[r] - 1) : Certified(r, n)
  /\ pc[r] \in {"pkey", "ca", "reload"} => chain[node[r]] = r
  /\ pc[r] \in {"ca", "reload"} => pkey[node[r]] = r
  /\ pc[r] \in {"reload", "enable"} => ca[node[r]] = r
  /\ At(r, "enable") => active[node[r]] = r
  /\ At(r, "ok") => \A n \in Node : Certified(r, n)

LEMMA WritesProgress ==
  ASSUME HandlerType, PlaceOK, CertType, NEW r \in Req, Writes(r), Progress(r)
  PROVE  Progress(r)'
<1> USE OpsAssumption DEF HandlerType, CertType, Progress, Certified, At, Goto, Busy,
                         CertPlace, Step, Node
<1>1. Busy(r) /\ node[r] \in 1..N
  BY DEF PlaceOK, Writes, WriteRemoteCert, WriteRemoteKey, UploadClusterCA,
         ReloadClusterCert, EnableClientCertAuth
<1>2. CASE WriteRemoteCert(r)
  BY <1>1, <1>2 DEF WriteRemoteCert
<1>3. CASE WriteRemoteKey(r)
  BY <1>1, <1>3 DEF WriteRemoteKey
<1>4. CASE UploadClusterCA(r)
  BY <1>1, <1>4 DEF UploadClusterCA
<1>5. CASE ReloadClusterCert(r)
  BY <1>1, <1>5 DEF ReloadClusterCert
<1>6. CASE EnableClientCertAuth(r)
  <2>1. \A n \in 1..node[r] : Certified(r, n)'
    BY <1>1, <1>6 DEF EnableClientCertAuth
  <2>2. CASE pc'[r] = "chain"
    BY <1>1, <1>6, <2>1, <2>2 DEF EnableClientCertAuth
  <2>3. CASE pc'[r] = "ok"
    BY <1>1, <1>6, <2>1, <2>3 DEF EnableClientCertAuth
  <2>4. QED
    BY <1>6, <2>2, <2>3 DEF EnableClientCertAuth
<1>7. QED
  BY <1>2, <1>3, <1>4, <1>5, <1>6 DEF Writes

LEMMA ProgressStep ==
  ASSUME TypeOK, PlaceOK, CertProgress, CertWorks, [Next]_vars, NEW r \in Req, CertReq(r)'
  PROVE  Progress(r)'
<1> USE DEF TypeOK
<1>1. CertReq(r) => Progress(r)
  BY DEF CertProgress, CertWorks, CertReq, Progress, Certified
<1>2. CASE SetupCertAuth(r)
  BY <1>2 DEF SetupCertAuth, Progress, HandlerType, At, Goto, CertReq, Busy, CertPlace
<1>3. CASE CertReq(r) /\ Writes(r)
  BY <1>1, <1>3, WritesProgress
<1>4. CASE /\ CertReq(r) /\ pc'[r] = pc[r] /\ node'[r] = node[r]
           /\ UNCHANGED <<joined, certs>>
  BY <1>1, <1>4 DEF Progress, Certified, At, Busy, certs
<1>5. QED
  BY <1>2, <1>3, <1>4, CertReqFrame

LEMMA CertStepKeeps ==
  ASSUME TypeOK, PlaceOK, CertProgress, CertWorks, [Next]_vars
  PROVE  CertProgress' /\ CertWorks'
<1>1. CertProgress'
  BY ProgressStep, CertReqFrame DEF CertProgress, Progress, TypeOK
<1>2. CertWorks'
  BY ProgressStep DEF CertWorks, CertReq, Progress, Certified
<1>3. QED
  BY <1>1, <1>2

-----------------------------------------------------------------------------

LEMMA InvInit == Init => Inv
<1> SUFFICES ASSUME Init PROVE Inv
  OBVIOUS
<1>1. TypeOK
  BY OpsAssumption DEF Init, TypeOK, HandlerType, DataType, CertType, HistoryType, Node
<1>2. PlaceOK /\ FoundKept /\ CertProgress /\ PolledWhenReady /\ SampleServed /\ CertWorks
  BY DEF Init, PlaceOK, FoundKept, CertProgress, CertReq, PolledWhenReady, SampleServed,
         CertWorks, At, Busy, CertPlace, SamplePlace
<1>3. LoaderSound
  BY DEF Init, LoaderSound
<1>4. QED
  BY <1>1, <1>2, <1>3 DEF Inv

(* However handlers, loaders and setups interleave, the inductive          *)
(* invariant of the operations on a cluster holds.                         *)
THEOREM InvAlways == Spec => []Inv
<1>1. Inv /\ [Next]_vars => Inv'
  BY HandlerStep, DataStep, CertTypeStep, HistoryStep, PlaceStep, LoaderStep, FoundStep,
     PolledStep, ServedStep, CertStepKeeps DEF Inv, TypeOK
<1>2. QED
  BY InvInit, <1>1, PTL DEF Spec

(* A sample bucket is ready when its items are counted, although the code  *)
(* asks the nodes and not the bucket (WaitForBucketHealthy).               *)
THEOREM PolledWhenReadyAlways == Spec => []PolledWhenReady
<1>1. Inv => PolledWhenReady
  BY DEF Inv
<1>2. QED
  BY InvAlways, <1>1, PTL

(* A sample that was reported as loaded is served, as long as no setup     *)
(* deletes it, for any number of loaders and handlers (PollSampleBucket).  *)
THEOREM SampleServedAlways == Spec => []SampleServed
<1>1. Inv => SampleServed
  BY DEF Inv
<1>2. QED
  BY InvAlways, <1>1, PTL

(* The certificate that setupCertAuth hands out works on every node, for   *)
(* any number of nodes, if the request had the cluster to itself.          *)
THEOREM CertWorksAlways == Spec => []CertWorks
<1>1. Inv => CertWorks
  BY DEF Inv
<1>2. QED
  BY InvAlways, <1>1, PTL
=============================================================================
