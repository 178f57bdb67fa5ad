--------------------------- MODULE ProvisionProofs ---------------------------
(***************************************************************************)
(* Proofs about Provision, for any number of requests, any versions and    *)
(* products files, and any length of the build context.                    *)
(***************************************************************************)
EXTENDS Provision, TLAPS

(* The steps of a handler, grouped by what they change: the clone, the     *)
(* resolved versions, only its own place, the tar file and the position in *)
(* it, and the images.                                                     *)
Repo(r)   == CloneBegin(r) \/ CloneEnd(r) \/ PullBegin(r)
Names(r)  == Resolve(r) \/ BuildImage(r)
Moves(r)  == \/ PullNothing(r) \/ PullEnd(r) \/ EnsureImageExists(r) \/ TarFails(r)
             \/ BuildFails(r) \/ StartNodes(r) \/ CheckBuildExists(r)
Tars(r)   == TarCreate(r) \/ TarAdd(r) \/ TarClose(r) \/ SendContext(r)
Images(r) == ImagePull(r) \/ ImageBuild(r) \/ ImagePush(r)

LEMMA Cases ==
  ASSUME [Next]_vars
  PROVE  \/ Commit
         \/ \E r \in Req : Repo(r) \/ Names(r) \/ Moves(r) \/ Tars(r) \/ Images(r)
         \/ UNCHANGED vars
BY DEF Next, Handler, Repo, Names, Moves, Tars, Images

-----------------------------------------------------------------------------
(* Versions.                                                               *)

LEMMA NoProductsEmpty == DOMAIN NoProducts = {}
BY DEF NoProducts

LEMMA ProductsKnown ==
  ASSUME TypeOK, NEW p \in GetProductsMap, NEW v \in Known
  PROVE  aliasServerVersion(v, p) \in Known \cup {NoVersion}
<1>1. CASE p = NoProducts
  BY <1>1, NoProductsEmpty DEF aliasServerVersion
<1>2. CASE p # NoProducts
  <2>1. file \in DOMAIN Products /\ p = Products[file]
    BY <1>2 DEF GetProductsMap, TypeOK
  <2>2. \A n \in DOMAIN p : p[n] \in [{"release", "stable"} -> Known \cup {NoVersion}]
    BY <2>1, ProvisionAssumption
  <2>3. QED
    BY <2>2 DEF aliasServerVersion
<1>3. QED
  BY <1>1, <1>2

LEMMA AskedTyped ==
  ASSUME TypeOK, NEW r \in Req, ~Resolved(r)
  PROVE  /\ Len(nodes[r]) \in Nat /\ Len(req[r].nodes) \in Nat
         /\ Len(nodes[r]) + 1 <= Len(req[r].nodes)
         /\ asked(r)[1] \in Known /\ asked(r)[2] \in BOOLEAN
<1>1. req[r].nodes \in Seq(Known \X BOOLEAN) /\ nodes[r] \in Seq(NodeVersion)
  BY ProvisionAssumption DEF TypeOK
<1>2. Len(nodes[r]) <= Len(req[r].nodes) /\ Len(nodes[r]) # Len(req[r].nodes)
  BY DEF TypeOK, Resolved
<1>3. Len(nodes[r]) + 1 \in 1..Len(req[r].nodes)
  BY <1>1, <1>2
<1>4. asked(r) \in Known \X BOOLEAN
  BY <1>1, <1>3 DEF asked
<1>5. QED
  BY <1>1, <1>3, <1>4

(* What Append1 does.                                                      *)
LEMMA AppendTyped ==
  ASSUME TypeOK, NEW r \in Req, NEW v \in Known \cup {NoVersion}, NEW ce \in BOOLEAN,
         ~Resolved(r), Append1(r, v, ce)
  PROVE  \/ nodes' = nodes /\ Goto(r, "err")
         \/ /\ v \in Known /\ pc' = pc
            /\ parseServerVersion(v, ce) \in NodeVersion
            /\ nodes' = [nodes EXCEPT ![r] = Append(@, parseServerVersion(v, ce))]
BY DEF Append1, NodeVersion

LEMMA ResolveStep ==
  ASSUME TypeOK, NEW r \in Req, Resolve(r)
  PROVE  \/ nodes' = nodes /\ Goto(r, "err")
         \/ /\ pc' = pc
            /\ \E nv \in NodeVersion :
                 /\ nodes' = [nodes EXCEPT ![r] = Append(@, nv)]
                 /\ nv = parseServerVersion(aliasServerVersion(asked(r)[1], Current), asked(r)[2])
<1>1. ~Resolved(r)
  BY DEF Resolve
<1>2. PICK p \in GetProductsMap :
        Append1(r, aliasServerVersion(asked(r)[1], p), asked(r)[2])
  BY DEF Resolve
<1> DEFINE v == aliasServerVersion(asked(r)[1], p)
<1>3. v \in Known \cup {NoVersion}
  BY <1>1, AskedTyped, ProductsKnown
<1>4. v \in Known => v = aliasServerVersion(asked(r)[1], Current)
  <2>1. CASE p = Current
    BY <2>1
  <2>2. CASE p = NoProducts
    BY <2>2, NoProductsEmpty, ProvisionAssumption DEF aliasServerVersion
  <2>3. QED
    BY <2>1, <2>2 DEF GetProductsMap, Current
<1> HIDE DEF v
<1>5. Append1(r, v, asked(r)[2])
  BY <1>2 DEF v
<1>6. QED
  BY <1>1, <1>3, <1>4, <1>5, AppendTyped, AskedTyped

LEMMA BuildStep ==
  ASSUME TypeOK, PhaseOK, NEW r \in Req, BuildImage(r)
  PROVE  \/ nodes' = nodes /\ Goto(r, "err")
         \/ \E nv \in NodeVersion :
              /\ nodes' = [nodes EXCEPT ![r] = <<nv>>]
              /\ Goto(r, "pull") \/ Goto(r, "check")
<1>1. ~Resolved(r)
  BY ProvisionAssumption DEF BuildImage, PhaseOK, TypeOK, Resolved, At
<1>2. parseServerVersion(asked(r)[1], asked(r)[2]) \in NodeVersion
  BY <1>1, AskedTyped DEF NodeVersion
<1>3. QED
  BY <1>2 DEF BuildImage

LEMMA FirstTyped ==
  ASSUME TypeOK, NEW r \in Req, Len(nodes[r]) > 0
  PROVE  first(r) \in NodeVersion /\ tarPath(first(r)) \in TarFile
<1>1. nodes[r] \in Seq(NodeVersion)
  BY DEF TypeOK
<1>2. first(r) \in NodeVersion
  BY <1>1 DEF first
<1>3. QED
  BY <1>2 DEF NodeVersion, tarPath, TarFile, parseServerVersion

-----------------------------------------------------------------------------
(* What each group of steps leaves alone.                                  *)

LEMMA RepoFrame ==
  ASSUME NEW r \in Req, Repo(r)
  PROVE  UNCHANGED <<req, nodes, dockerRegistry, upstream, built>>
BY DEF Repo, CloneBegin, CloneEnd, PullBegin

LEMMA NamesFrame ==
  ASSUME NEW r \in Req, Names(r)
  PROVE  UNCHANGED <<req, dockerRegistry, repo, built>>
BY DEF Names, Resolve, BuildImage

LEMMA MovesFrame ==
  ASSUME NEW r \in Req, Moves(r)
  PROVE  UNCHANGED <<req, nodes, dockerRegistry, repo, built>>
BY DEF Moves, PullNothing, PullEnd, EnsureImageExists, TarFails, BuildFails, StartNodes,
       CheckBuildExists

LEMMA TarsFrame ==
  ASSUME NEW r \in Req, Tars(r)
  PROVE  UNCHANGED <<req, nodes, dockerRegistry, repo, images, registry>>
BY DEF Tars, TarCreate, TarAdd, TarClose, SendContext

LEMMA ImagesFrame ==
  ASSUME NEW r \in Req, Images(r)
  PROVE  /\ UNCHANGED <<req, nodes, dockerRegistry, repo, tar, pos, retarred>>
         /\ images \subseteq images' /\ registry \subseteq registry'
BY DEF Images, ImagePull, ImageBuild, ImagePush

(* No step changes what is asked for, or takes an image away.              *)
LEMMA Kept ==
  ASSUME [Next]_vars
  PROVE  /\ UNCHANGED <<req, dockerRegistry>>
         /\ images \subseteq images' /\ registry \subseteq registry'
<1>1. CASE Commit \/ UNCHANGED vars
  BY <1>1 DEF Commit, vars, built
<1>2. QED
  BY Cases, RepoFrame, NamesFrame, MovesFrame, TarsFrame, ImagesFrame, <1>1 DEF built

LEMMA TypeStep ==
  ASSUME TypeOK, PhaseOK, [Next]_vars
  PROVE  TypeOK'
<1> USE ProvisionAssumption
<1>1. CASE Commit
  BY <1>1 DEF Commit, TypeOK, built
<1>2. ASSUME NEW r \in Req, Repo(r) PROVE TypeOK'
  BY <1>2, RepoFrame DEF Repo, CloneBegin, CloneEnd, PullBegin, FileChanges, TypeOK, built,
                         Goto, At, Place
<1>3. ASSUME NEW r \in Req, Names(r) PROVE TypeOK'
  <2>1. CASE Resolve(r)
    <3>1. nodes' \in [Req -> Seq(NodeVersion)] /\ pc' \in [Req -> Place]
          /\ \A q \in Req : Len(nodes'[q]) <= Len(req[q].nodes)
      <4>1. CASE nodes' = nodes /\ Goto(r, "err")
        BY <4>1 DEF TypeOK, Goto, Place
      <4>2. CASE /\ pc' = pc
                 /\ \E nv \in NodeVersion : nodes' = [nodes EXCEPT ![r] = Append(@, nv)]
        <5>1. PICK nv \in NodeVersion : nodes' = [nodes EXCEPT ![r] = Append(@, nv)]
          BY <4>2
        <5>2. nodes[r] \in Seq(NodeVersion)
          BY DEF TypeOK
        <5>3. Append(nodes[r], nv) \in Seq(NodeVersion)
              /\ Len(Append(nodes[r], nv)) = Len(nodes[r]) + 1
          BY <5>2
        <5>4. Len(nodes[r]) + 1 <= Len(req[r].nodes)
          BY <2>1, AskedTyped DEF Resolve
        <5>5. QED
          BY <4>2, <5>1, <5>3, <5>4 DEF TypeOK
      <4>3. QED
        BY <2>1, <4>1, <4>2, ResolveStep
    <3>2. QED
      BY <1>3, <3>1, NamesFrame DEF TypeOK, repo, built
  <2>2. CASE BuildImage(r)
    <3>1. Len(req[r].nodes) \in Nat \ {0}
      BY DEF TypeOK
    <3>2. \A nv \in NodeVersion : <<nv>> \in Seq(NodeVersion) /\ Len(<<nv>>) = 1
      OBVIOUS
    <3>3. CASE nodes' = nodes /\ Goto(r, "err")
      BY <1>3, <3>3, NamesFrame DEF TypeOK, repo, built, Goto, Place
    <3>4. ASSUME NEW nv \in NodeVersion, nodes' = [nodes EXCEPT ![r] = <<nv>>],
                 Goto(r, "pull") \/ Goto(r, "check")
          PROVE  TypeOK'
      <4>1. pc' \in [Req -> Place]
        BY <3>4 DEF TypeOK, Goto, Place
      <4>2. nodes' \in [Req -> Seq(NodeVersion)]
        BY <3>2, <3>4 DEF TypeOK
      <4>3. \A q \in Req : Len(nodes'[q]) <= Len(req[q].nodes)
        BY <3>1, <3>2, <3>4 DEF TypeOK
      <4>4. QED
        BY <1>3, <4>1, <4>2, <4>3, NamesFrame DEF TypeOK, repo, built
    <3>5. QED
      BY <2>2, <3>3, <3>4, BuildStep
  <2>3. QED
    BY <1>3, <2>1, <2>2 DEF Names
<1>4. ASSUME NEW r \in Req, Moves(r) PROVE TypeOK'
  <2>1. pc' \in [Req -> Place]
    BY <1>4 DEF Moves, PullNothing, PullEnd, EnsureImageExists, TarFails, BuildFails,
                StartNodes, CheckBuildExists, TypeOK, Goto, Place
  <2>2. QED
    BY <1>4, <2>1, MovesFrame DEF TypeOK, repo, built
<1>5. ASSUME NEW r \in Req, Tars(r) PROVE TypeOK'
  <2>1. pc' \in [Req -> Place]
    BY <1>5 DEF Tars, TarCreate, TarAdd, TarClose, SendContext,
                TypeOK, Goto, Place
  <2>2. pos' \in [Req -> -1..Chunk]
    <3>1. PICK k \in -1..Chunk : pos' = [pos EXCEPT ![r] = k]
      <4>1. CASE TarAdd(r) \/ SendContext(r)
        <5>1. pos[r] + 1 \in -1..Chunk
          BY <4>1 DEF TarAdd, SendContext, TypeOK
        <5>2. QED
          BY <4>1, <5>1 DEF TarAdd, SendContext, TypeOK
      <4>2. CASE TarCreate(r) \/ TarClose(r)
        <5>1. 0 \in -1..Chunk
          OBVIOUS
        <5>2. QED
          BY <4>2, <5>1 DEF TarCreate, TarClose
      <4>3. QED
        BY <1>5, <4>1, <4>2 DEF Tars
    <3>2. QED
      BY <3>1 DEF TypeOK
  <2>3. tar' \in [TarFile -> SUBSET (1..Chunk)]
    <3>1. CASE UNCHANGED tar
      BY <3>1 DEF TypeOK
    <3>2. CASE TarCreate(r)
      BY <3>2 DEF TarCreate, TypeOK
    <3>3. CASE TarAdd(r)
      <4>1. pos[r] + 1 \in 1..Chunk
        BY <3>3 DEF TarAdd, TypeOK
      <4>2. QED
        BY <3>3, <4>1 DEF TarAdd, TypeOK
    <3>4. QED
      BY <1>5, <3>1, <3>2, <3>3 DEF Tars, TarClose, SendContext
  <2>4. retarred' \in [Req -> BOOLEAN]
    <3>1. CASE TarCreate(r)
      BY <3>1 DEF TarCreate, TypeOK
    <3>2. QED
      BY <1>5, <3>1 DEF Tars, TarAdd, TarClose, SendContext, TypeOK
  <2>5. QED
    BY <1>5, <2>1, <2>2, <2>3, <2>4, TarsFrame DEF TypeOK, repo
<1>6. ASSUME NEW r \in Req, Images(r) PROVE TypeOK'
  <2>1. pc' \in [Req -> Place]
    BY <1>6 DEF Images, ImagePull, ImageBuild, ImagePush, Done, TypeOK, Goto, Place
  <2>2. QED
    BY <1>6, <2>1, ImagesFrame DEF TypeOK, repo
<1>7. CASE UNCHANGED vars
  BY <1>7 DEF vars, TypeOK, repo, built
<1>8. QED
  BY Cases, <1>1, <1>2, <1>3, <1>4, <1>5, <1>6, <1>7

-----------------------------------------------------------------------------

(* Before its build creates the tar file, a handler has no part in it.     *)
Early == {"new", "cloning", "pulling", "resolve", "pull", "check"}

LEMMA PhaseDef ==
  PhaseOK <=> \A r \in Req :
    /\ pc[r] \in {"new", "cloning", "pulling"} => nodes[r] = <<>>
    /\ pc[r] \in Imaging => Len(nodes[r]) > 0
    /\ pc[r] = "send" => pos[r] >= 0
    /\ pc[r] \in Early => pos[r] = -1 /\ ~retarred[r]
    /\ pos[r] >= 0 \/ retarred[r] => Len(nodes[r]) > 0
BY DEF PhaseOK, At, Early

LEMMA PhaseStep ==
  ASSUME TypeOK, PhaseOK, [Next]_vars
  PROVE  PhaseOK'
<1> USE ProvisionAssumption DEF PhaseOK, At, Goto, Imaging
<1>1. CASE Commit \/ UNCHANGED vars
  BY <1>1 DEF Commit, vars, built
<1>2. ASSUME NEW r \in Req, Repo(r) PROVE PhaseOK'
  <2>1. UNCHANGED <<nodes, pos, retarred>> /\ pc[r] \in {"new", "cloning"}
    BY <1>2 DEF Repo, CloneBegin, CloneEnd, PullBegin, built
  <2>2. \E l \in {"cloning", "pulling", "resolve"} : Goto(r, l)
    BY <1>2 DEF Repo, CloneBegin, CloneEnd, PullBegin
  <2>3. QED
    BY <2>1, <2>2 DEF TypeOK
<1>3. ASSUME NEW r \in Req, Names(r) PROVE PhaseOK'
  <2>1. CASE Resolve(r)
    <3>1. pc[r] = "resolve" /\ UNCHANGED <<pos, retarred>>
      BY <2>1 DEF Resolve, built
    <3>2. CASE nodes' = nodes /\ pc' = [pc EXCEPT ![r] = "err"]
      BY <3>1, <3>2 DEF TypeOK
    <3>3. ASSUME NEW nv \in NodeVersion, pc' = pc,
                 nodes' = [nodes EXCEPT ![r] = Append(@, nv)]
          PROVE  PhaseOK'
      BY <3>1, <3>3 DEF TypeOK
    <3>4. QED
      BY <2>1, <3>2, <3>3, ResolveStep
  <2>2. CASE BuildImage(r)
    <3>1. pc[r] = "new" /\ UNCHANGED <<pos, retarred>>
      BY <2>2 DEF BuildImage, built
    <3>2. CASE nodes' = nodes /\ pc' = [pc EXCEPT ![r] = "err"]
      BY <3>1, <3>2 DEF TypeOK
    <3>3. ASSUME NEW nv \in NodeVersion, nodes' = [nodes EXCEPT ![r] = <<nv>>],
                 Goto(r, "pull") \/ Goto(r, "check")
          PROVE  PhaseOK'
      <4>1. Len(<<nv>>) > 0
        OBVIOUS
      <4>2. QED
        BY <3>1, <3>3, <4>1 DEF TypeOK
    <3>4. QED
      BY <2>2, <3>2, <3>3, BuildStep
  <2>3. QED
    BY <1>3, <2>1, <2>2 DEF Names
<1>4. ASSUME NEW r \in Req, Moves(r) PROVE PhaseOK'
  <2>1. ASSUME NEW l, Goto(r, l), UNCHANGED <<nodes, pos, retarred>>,
               l \in Imaging => Len(nodes[r]) > 0,
               l \notin {"new", "cloning", "pulling", "send"},
               l \in Early => pc[r] \in Early
        PROVE  PhaseOK'
    BY <2>1, PhaseDef DEF TypeOK, Early
  <2>2. CASE EnsureImageExists(r)
    <3>1. Len(nodes[r]) > 0
      BY <2>2 DEF EnsureImageExists, Resolved, TypeOK
    <3>2. QED
      BY <2>1, <2>2, <3>1 DEF EnsureImageExists, built, Early
  <2>3. CASE PullNothing(r) \/ PullEnd(r)
    BY <2>1, <2>3 DEF PullNothing, PullEnd, built, Early
  <2>4. CASE TarFails(r) \/ BuildFails(r)
    BY <2>1, <2>4 DEF TarFails, BuildFails, built, Early
  <2>5. CASE StartNodes(r) \/ CheckBuildExists(r)
    BY <2>1, <2>5 DEF StartNodes, CheckBuildExists, built, Early
  <2>6. QED
    BY <1>4, <2>2, <2>3, <2>4, <2>5 DEF Moves
<1>5. ASSUME NEW r \in Req, Tars(r) PROVE PhaseOK'
  <2>1. /\ nodes' = nodes /\ Len(nodes[r]) > 0 /\ pc'[r] \in {"tar", "send"}
        /\ \A q \in Req : q # r => pc'[q] = pc[q] /\ pos'[q] = pos[q]
    BY <1>5 DEF Tars, TarCreate, TarAdd, TarClose, SendContext, TypeOK
  <2>2. pc'[r] = "send" => pos'[r] >= 0
    <3>1. CASE TarCreate(r) \/ TarAdd(r)
      BY <3>1 DEF TarCreate, TarAdd
    <3>2. CASE TarClose(r)
      BY <3>2 DEF TarClose, TypeOK
    <3>3. CASE SendContext(r)
      <4>1. pos'[r] = pos[r] + 1 /\ pos[r] \in Int /\ pos[r] >= 0
        BY <3>3 DEF SendContext, TypeOK
      <4>2. QED
        BY <4>1
    <3>4. QED
      BY <1>5, <3>1, <3>2, <3>3 DEF Tars
  <2>3. \A q \in Req : retarred'[q] = retarred[q] \/ pc[q] \in {"tar", "send"}
    BY <1>5 DEF Tars, TarCreate, TarAdd, TarClose, SendContext, SameTar, TypeOK
  <2>4. ASSUME NEW q \in Req, q # r
        PROVE  /\ pc'[q] \in Early => pos'[q] = -1 /\ ~retarred'[q]
               /\ pos'[q] >= 0 \/ retarred'[q] => Len(nodes'[q]) > 0
    BY <2>1, <2>3, <2>4 DEF Early
  <2>5. QED
    BY <2>1, <2>2, <2>4, PhaseDef DEF Early
<1>6. ASSUME NEW r \in Req, Images(r) PROVE PhaseOK'
  <2>1. /\ UNCHANGED <<nodes, pos, retarred>> /\ pc[r] \in Imaging
        /\ \A q \in Req : q # r => pc'[q] = pc[q]
    BY <1>6 DEF Images, ImagePull, ImageBuild, ImagePush, TypeOK
  <2>2. /\ pc'[r] \notin {"new", "cloning", "pulling", "resolve", "pull", "send"}
        /\ pc'[r] = "check" => pc[r] = "pull"
    BY <1>6 DEF Images, ImagePull, ImageBuild, ImagePush, Done, TypeOK
  <2>3. QED
    BY <2>1, <2>2
<1>7. QED
  BY Cases, <1>1, <1>2, <1>3, <1>4, <1>5, <1>6

(* Once a handler is past its versions, they stay as they are.             *)
LEMMA FirstKept ==
  ASSUME TypeOK, [Next]_vars, NEW r \in Req, pc[r] \notin {"new", "resolve"}
  PROVE  nodes'[r] = nodes[r]
<1>1. CASE \E q \in Req : Names(q)
  <2>1. PICK q \in Req : Names(q)
    BY <1>1
  <2>2. q # r
    BY <2>1 DEF Names, Resolve, BuildImage, At
  <2>3. QED
    BY <2>1, <2>2, ResolveStep DEF Names, Resolve, BuildImage, Append1, TypeOK
<1>2. QED
  BY Cases, <1>1, RepoFrame, MovesFrame, TarsFrame, ImagesFrame DEF Commit, vars

(* A handler gets to a place of imageBuild and of what follows it only by  *)
(* the step that leads there.                                              *)
LEMMA PlaceFrame ==
  ASSUME TypeOK, PhaseOK, [Next]_vars, NEW r \in Req, pc'[r] # pc[r]
  PROVE  /\ pc'[r] = "tar" => CheckBuildExists(r)
         /\ pc'[r] = "send" => TarClose(r)
         /\ pc'[r] = "push" => ImageBuild(r)
         /\ pc'[r] = "start" => Images(r) /\ pc'[r] = Done(r)
         /\ pc'[r] = "ok" => StartNodes(r) \/ (Images(r) /\ pc'[r] = Done(r))
         /\ pc'[r] = "broken" => BuildFails(r) /\ Spoiled(r)
         /\ pc'[r] = "resolve" => pc[r] \in {"new", "cloning", "pulling"} /\ nodes' = nodes
<1> USE DEF At, Goto, TypeOK
<1>1. CASE Commit \/ UNCHANGED vars
  BY <1>1 DEF Commit, vars
<1>2. CASE \E q \in Req : Repo(q)
  BY <1>2 DEF Repo, CloneBegin, CloneEnd, PullBegin
<1>3. CASE \E q \in Req : Names(q)
  <2>1. PICK q \in Req : Names(q)
    BY <1>3
  <2>2. pc' = pc \/ (\E l \in {"err", "pull", "check"} : pc' = [pc EXCEPT ![q] = l])
    BY <2>1, ResolveStep, BuildStep DEF Names
  <2>3. QED
    BY <2>2
<1>4. CASE \E q \in Req : Moves(q)
  <2>1. PICK q \in Req : Moves(q)
    BY <1>4
  <2>2. q = r
    BY <2>1 DEF Moves, PullNothing, PullEnd, EnsureImageExists, TarFails, BuildFails, StartNodes,
                CheckBuildExists
  <2>3. CASE PullNothing(r) \/ PullEnd(r) \/ EnsureImageExists(r) \/ TarFails(r)
    BY <2>3 DEF PullNothing, PullEnd, EnsureImageExists, TarFails
  <2>4. CASE BuildFails(r)
    BY <2>4 DEF BuildFails
  <2>5. CASE StartNodes(r) \/ CheckBuildExists(r)
    BY <2>5 DEF StartNodes, CheckBuildExists
  <2>6. QED
    BY <2>1, <2>2, <2>3, <2>4, <2>5 DEF Moves
<1>5. CASE \E q \in Req : Tars(q)
  <2>1. PICK q \in Req : Tars(q)
    BY <1>5
  <2>2. q = r
    BY <2>1 DEF Tars, TarCreate, TarAdd, TarClose, SendContext
  <2>3. QED
    BY <2>1, <2>2 DEF Tars, TarCreate, TarAdd, TarClose, SendContext
<1>6. CASE \E q \in Req : Images(q)
  <2>1. PICK q \in Req : Images(q)
    BY <1>6
  <2>2. q = r
    BY <2>1 DEF Images, ImagePull, ImageBuild, ImagePush
  <2>3. QED
    BY <2>1, <2>2 DEF Images, ImagePull, ImageBuild, ImagePush, Done
<1>7. QED
  BY Cases, <1>1, <1>2, <1>3, <1>4, <1>5, <1>6

(* The image of a handler that takes the step to "start" or "ok".          *)
LEMMA ImageThere ==
  ASSUME TypeOK, PhaseOK, Built, NEW r \in Req, Images(r), pc'[r] = Done(r)
  PROVE  /\ toImageName(first(r)) \in images'
         /\ dockerRegistry => toImageName(first(r)) \in registry'
<1> USE DEF At, Goto, TypeOK, Done
<1>1. CASE ImagePull(r)
  BY <1>1 DEF ImagePull
<1>2. CASE ImageBuild(r)
  BY <1>2 DEF ImageBuild
<1>3. CASE ImagePush(r)
  BY <1>3 DEF ImagePush, Built
<1>4. QED
  BY <1>1, <1>2, <1>3 DEF Images

LEMMA PublishedStep ==
  ASSUME TypeOK, PhaseOK, Built, Published, [Next]_vars
  PROVE  Built' /\ Published'
<1>1. ASSUME NEW r \in Req, pc'[r] = "push" PROVE toImageName(first(r)') \in images'
  <2>1. CASE pc[r] = "push"
    BY <2>1, Kept, FirstKept DEF Built, At, first, Imaging
  <2>2. CASE pc[r] # "push"
    <3>1. ImageBuild(r)
      BY <1>1, <2>2, PlaceFrame
    <3>2. QED
      BY <3>1 DEF ImageBuild, first
  <2>3. QED
    BY <2>1, <2>2
<1>2. ASSUME NEW r \in Req, pc'[r] \in {"start", "ok"}
      PROVE  /\ toImageName(first(r)') \in images'
             /\ dockerRegistry' => toImageName(first(r)') \in registry'
  <2>1. CASE pc[r] \in {"start", "ok"}
    BY <2>1, Kept, FirstKept DEF Published, first, Imaging
  <2>2. CASE pc[r] \notin {"start", "ok"}
    <3>1. Images(r) /\ pc'[r] = Done(r)
      BY <1>2, <2>2, PlaceFrame DEF StartNodes, At
    <3>2. first(r)' = first(r)
      BY <3>1, ImagesFrame DEF first
    <3>3. QED
      BY <3>1, <3>2, ImageThere, Kept
  <2>3. QED
    BY <2>1, <2>2
<1>3. QED
  BY <1>1, <1>2 DEF Built, Published, At, first

-----------------------------------------------------------------------------
(* The tar file.                                                           *)

(* What is in the tar file of a build stays there until another build      *)
(* re-creates it.                                                          *)
LEMMA TarKept ==
  ASSUME TypeOK, PhaseOK, [Next]_vars, NEW r \in Req, pc[r] \in {"tar", "send"},
         ~retarred'[r], ~TarCreate(r)
  PROVE  /\ ~retarred[r]
         /\ tar[tarPath(first(r))] \subseteq tar'[tarPath(first(r))]
<1>1. tarPath(first(r)) \in TarFile
  BY FirstTyped DEF PhaseOK, Imaging
<1>2. CASE \E q \in Req : TarCreate(q)
  <2>1. PICK q \in Req : TarCreate(q)
    BY <1>2
  <2>2. q # r
    BY <2>1
  <2>3. retarred'[r] = (retarred[r] \/ r \in SameTar(q))
    BY <2>1, <2>2 DEF TarCreate
  <2>4. tarPath(first(q)) # tarPath(first(r))
    BY <2>2, <2>3 DEF SameTar
  <2>5. tar'[tarPath(first(r))] = tar[tarPath(first(r))]
    BY <1>1, <2>1, <2>4 DEF TarCreate, TypeOK
  <2>6. QED
    BY <2>3, <2>5
<1>3. CASE \E q \in Req : TarAdd(q)
  BY <1>1, <1>3 DEF TarAdd, TypeOK
<1>4. CASE UNCHANGED <<tar, retarred>>
  BY <1>4
<1>5. QED
  BY Cases, <1>2, <1>3, <1>4, RepoFrame, NamesFrame, MovesFrame, ImagesFrame
     DEF Tars, TarClose, SendContext, Commit, vars, built

(* The position of a build changes only by its own steps.                  *)
LEMMA PosFrame ==
  ASSUME TypeOK, [Next]_vars, NEW r \in Req, ~Tars(r)
  PROVE  pos'[r] = pos[r]
<1>1. CASE \E q \in Req : Tars(q)
  BY <1>1 DEF Tars, TarCreate, TarAdd, TarClose, SendContext, TypeOK
<1>2. QED
  BY Cases, <1>1, RepoFrame, NamesFrame, MovesFrame, ImagesFrame DEF Commit, vars, built

LEMMA TarStep ==
  ASSUME TypeOK, PhaseOK, TarOwned, [Next]_vars
  PROVE  TarOwned'
<1> USE ProvisionAssumption
<1>1. ASSUME NEW r \in Req, ~retarred'[r], pc'[r] = "tar"
      PROVE  1..pos'[r] \subseteq tar'[tarPath(first(r)')]
  <2>1. CASE pc[r] # "tar"
    <3>1. pos'[r] = -1
      BY <1>1, <2>1, PlaceFrame DEF CheckBuildExists, PhaseOK, At, built
    <3>2. QED
      BY <3>1
  <2>2. CASE TarCreate(r)
    <3>1. pos'[r] = 0
      BY <2>2 DEF TarCreate, TypeOK
    <3>2. QED
      BY <3>1
  <2>3. CASE pc[r] = "tar" /\ ~TarCreate(r)
    <3>1. first(r)' = first(r)
      BY <2>3, FirstKept DEF first, Imaging
    <3>2. /\ 1..pos[r] \subseteq tar[tarPath(first(r))]
          /\ tar[tarPath(first(r))] \subseteq tar'[tarPath(first(r))]
      BY <1>1, <2>3, TarKept DEF TarOwned, At
    <3>3. CASE TarAdd(r)
      <4>1. pos'[r] = pos[r] + 1 /\ pos[r] \in Nat
        BY <3>3 DEF TarAdd, TypeOK
      <4>2. tarPath(first(r)) \in TarFile
        BY <2>3, FirstTyped DEF PhaseOK, Imaging
      <4>3. pos[r] + 1 \in tar'[tarPath(first(r))]
        BY <3>3, <4>2 DEF TarAdd, TypeOK
      <4>4. \A k \in 1..pos'[r] : k \in 1..pos[r] \/ k = pos[r] + 1
        BY <4>1
      <4>5. QED
        BY <3>1, <3>2, <4>3, <4>4
    <3>4. CASE ~TarAdd(r)
      <4>1. ~Tars(r)
        BY <1>1, <2>3, <3>4 DEF Tars, TarClose, SendContext, At, Goto, TypeOK
      <4>2. QED
        BY <3>1, <3>2, <4>1, PosFrame
    <3>5. QED
      BY <3>3, <3>4
  <2>4. QED
    BY <2>1, <2>2, <2>3
<1>2. ASSUME NEW r \in Req, ~retarred'[r], pc'[r] = "send"
      PROVE  1..Chunk \subseteq tar'[tarPath(first(r)')]
  <2>1. /\ pc[r] = "tar" /\ pos[r] = Chunk
        \/ pc[r] = "send"
    BY <1>2, PlaceFrame DEF TarClose, At
  <2>2. ~TarCreate(r)
    BY <1>2 DEF TarCreate, At
  <2>3. first(r)' = first(r)
    BY <2>1, FirstKept DEF first, Imaging
  <2>4. tar[tarPath(first(r))] \subseteq tar'[tarPath(first(r))] /\ ~retarred[r]
    BY <1>2, <2>1, <2>2, TarKept
  <2>5. QED
    BY <2>1, <2>3, <2>4 DEF TarOwned, At
<1>3. QED
  BY <1>1, <1>2 DEF TarOwned, At, first

(* A context that is incomplete was re-created by another build.           *)
LEMMA Complete ==
  ASSUME TypeOK, PhaseOK, TarOwned, NEW r \in Req, Spoiled(r)
  PROVE  retarred[r]
<1> SUFFICES ASSUME ~retarred[r] PROVE FALSE
  OBVIOUS
<1>1. 1..Chunk \subseteq tar[tarPath(first(r))]
  BY DEF TarOwned, Spoiled
<1>2. pos[r] \in Int /\ pos[r] >= 0 /\ pos[r] < Chunk
  BY DEF TypeOK, PhaseOK, Spoiled
<1>3. QED
  BY <1>1, <1>2, ProvisionAssumption DEF Spoiled

(* A build is robbed of its tar file only by the next one that creates it. *)
LEMMA RobbedFrame ==
  ASSUME [Next]_vars, \A r \in Req : ~TarCreate(r)
  PROVE  retarred' = retarred
BY Cases, RepoFrame, NamesFrame, MovesFrame, ImagesFrame
   DEF Tars, TarAdd, TarClose, SendContext, Commit, vars, built

(* A build that has created its tar file keeps its versions.               *)
LEMMA OwnerKept ==
  ASSUME TypeOK, PhaseOK, [Next]_vars, NEW q \in Req, pos[q] >= 0
  PROVE  /\ pos'[q] >= 0 /\ first(q)' = first(q)
<1>1. pc[q] \notin {"new", "resolve"}
  BY DEF PhaseOK
<1>2. first(q)' = first(q)
  BY <1>1, FirstKept DEF first
<1>3. pos'[q] >= 0
  <2>1. CASE Tars(q)
    <3>1. CASE TarCreate(q) \/ TarClose(q)
      <4>1. pos'[q] = 0
        BY <3>1 DEF TarCreate, TarClose, TypeOK
      <4>2. QED
        BY <4>1
    <3>2. CASE TarAdd(q) \/ SendContext(q)
      <4>1. pos'[q] = pos[q] + 1 /\ pos[q] \in Int
        BY <3>2, ProvisionAssumption DEF TarAdd, SendContext, TypeOK
      <4>2. QED
        BY <4>1
    <3>3. QED
      BY <2>1, <3>1, <3>2 DEF Tars
  <2>2. QED
    BY <2>1, PosFrame
<1>4. QED
  BY <1>2, <1>3

(* A build that has been robbed of its tar file keeps its versions.        *)
LEMMA RobbedKept ==
  ASSUME TypeOK, PhaseOK, [Next]_vars, NEW r \in Req, retarred[r]
  PROVE  first(r)' = first(r)
<1>1. pc[r] \notin {"new", "resolve"}
  BY DEF PhaseOK
<1>2. QED
  BY <1>1, FirstKept DEF first

LEMMA SurvivorStep ==
  ASSUME TypeOK, PhaseOK, TarOwned, Survivor, [Next]_vars
  PROVE  Survivor'
<1>1. ASSUME NEW r \in Req, retarred'[r] PROVE HasOwner(r)'
  <2>1. CASE \E c \in Req : TarCreate(c)
    <3>1. PICK c \in Req : TarCreate(c)
      BY <2>1
    <3>2. /\ nodes' = nodes /\ pos'[c] >= 0 /\ ~retarred'[c] /\ c # r
          /\ \A q \in Req \ {c} : /\ pos'[q] = pos[q]
                                 /\ retarred'[q] = (retarred[q] \/ q \in SameTar(c))
      BY <1>1, <3>1 DEF TarCreate, TypeOK
    <3>3. CASE tarPath(first(c)) = tarPath(first(r))
      BY <3>2, <3>3 DEF HasOwner, first
    <3>4. CASE tarPath(first(c)) # tarPath(first(r))
      <4>1. retarred[r]
        BY <1>1, <3>2, <3>4 DEF SameTar
      <4>2. PICK q \in Req \ {r} : /\ pos[q] >= 0 /\ ~retarred[q]
                                   /\ tarPath(first(q)) = tarPath(first(r))
        BY <4>1 DEF Survivor, HasOwner
      <4>3. q # c /\ q \notin SameTar(c)
        BY <3>4, <4>2 DEF SameTar
      <4>4. QED
        BY <3>2, <4>2, <4>3 DEF HasOwner, first
    <3>5. QED
      BY <3>3, <3>4
  <2>2. CASE \A c \in Req : ~TarCreate(c)
    <3>1. retarred' = retarred
      BY <2>2, RobbedFrame
    <3>2. PICK q \in Req \ {r} : /\ pos[q] >= 0 /\ ~retarred[q]
                                 /\ tarPath(first(q)) = tarPath(first(r))
      BY <1>1, <3>1 DEF Survivor, HasOwner
    <3>3. pos'[q] >= 0 /\ first(q)' = first(q)
      BY <3>2, OwnerKept
    <3>4. first(r)' = first(r)
      BY <1>1, <3>1, RobbedKept
    <3>5. QED
      BY <3>1, <3>2, <3>3, <3>4 DEF HasOwner
  <2>3. QED
    BY <2>1, <2>2
<1>2. ASSUME NEW r \in Req, pc'[r] = "broken" PROVE retarred'[r]
  <2>1. CASE pc[r] = "broken"
    <3>1. retarred[r]
      BY <2>1 DEF Survivor, At
    <3>2. CASE \E c \in Req : TarCreate(c)
      BY <2>1, <3>1, <3>2 DEF TarCreate, At
    <3>3. CASE \A c \in Req : ~TarCreate(c)
      BY <3>1, <3>3, RobbedFrame
    <3>4. QED
      BY <3>2, <3>3
  <2>2. CASE pc[r] # "broken"
    <3>1. BuildFails(r) /\ Spoiled(r)
      BY <1>2, <2>2, PlaceFrame
    <3>2. QED
      BY <3>1, Complete DEF BuildFails, built
  <2>3. QED
    BY <2>1, <2>2
<1>3. QED
  BY <1>1, <1>2 DEF Survivor, At

-----------------------------------------------------------------------------
(* The versions of the nodes.                                              *)

LEMMA MovedFrame ==
  ASSUME TypeOK, [Next]_vars, NEW r \in Req, ~moved'[r]
  PROVE  ~moved[r] /\ (pc[r] = "resolve" => file' = file)
<1>1. CASE \E q \in Req : Repo(q)
  BY <1>1 DEF Repo, CloneBegin, CloneEnd, PullBegin, FileChanges, At, TypeOK
<1>2. QED
  BY Cases, <1>1, NamesFrame, MovesFrame, TarsFrame, ImagesFrame DEF Commit, vars, repo

(* A handler that resolves its versions keeps them, or adds the next one   *)
(* according to the products file.                                         *)
LEMMA NodesFrame ==
  ASSUME TypeOK, PhaseOK, [Next]_vars, NEW r \in Req, nodes'[r] # nodes[r]
  PROVE  \/ Resolve(r) /\ pc' = pc
         \/ Len(nodes'[r]) = 1 /\ pc'[r] # "resolve"
<1>1. PICK q \in Req : Names(q)
  BY Cases, RepoFrame, MovesFrame, TarsFrame, ImagesFrame DEF Commit, vars
<1>2. CASE Resolve(q)
  BY <1>2, ResolveStep DEF TypeOK, Goto
<1>3. CASE BuildImage(q)
  <2>1. PICK nv \in NodeVersion :
            /\ nodes' = [nodes EXCEPT ![q] = <<nv>>]
            /\ Goto(q, "pull") \/ Goto(q, "check")
    BY <1>3, BuildStep
  <2>2. q = r /\ nodes'[r] = <<nv>>
    BY <2>1 DEF TypeOK
  <2>3. QED
    BY <2>1, <2>2 DEF Goto, TypeOK
<1>4. QED
  BY <1>1, <1>2, <1>3 DEF Names

LEMMA ResolvedStep ==
  ASSUME TypeOK, PhaseOK, ResolvedNow, [Next]_vars
  PROVE  ResolvedNow'
<1> DEFINE Says(q, i) == parseServerVersion(aliasServerVersion(q.nodes[i][1], Current), q.nodes[i][2])
<1> SUFFICES ASSUME NEW r \in Req, pc'[r] = "resolve", ~moved'[r],
                    NEW i \in 1..Len(nodes'[r])
             PROVE  nodes'[r][i] = Says(req[r], i)'
  BY DEF ResolvedNow, At
<1>1. req' = req /\ nodes[r] \in Seq(NodeVersion) /\ Len(nodes[r]) \in Nat
  BY Kept DEF TypeOK
<1>2. CASE pc[r] # "resolve"
  <2>1. nodes'[r] = <<>>
    BY <1>2, PlaceFrame DEF PhaseOK
  <2>2. QED
    BY <2>1
<1>3. CASE pc[r] = "resolve"
  <2>1. Current' = Current /\ ~moved[r]
    BY <1>3, MovedFrame DEF Current
  <2>2. \A j \in 1..Len(nodes[r]) : nodes[r][j] = Says(req[r], j)
    BY <1>3, <2>1 DEF ResolvedNow, At
  <2>3. CASE nodes'[r] = nodes[r]
    BY <1>1, <2>1, <2>2, <2>3
  <2>4. CASE nodes'[r] # nodes[r]
    <3>1. Resolve(r) /\ pc' = pc
      BY <2>4, NodesFrame
    <3>2. PICK nv \in NodeVersion :
            /\ nodes' = [nodes EXCEPT ![r] = Append(@, nv)]
            /\ nv = Says(req[r], Len(nodes[r]) + 1)
      BY <2>4, <3>1, ResolveStep DEF asked, Goto, TypeOK
    <3>3. nodes'[r] = Append(nodes[r], nv)
      BY <3>2 DEF TypeOK
    <3>4. CASE i = Len(nodes[r]) + 1
      <4>1. nodes'[r][i] = nv
        BY <1>1, <3>3, <3>4
      <4>2. Says(req[r], i)' = Says(req[r], i)
        BY <1>1, <2>1
      <4>3. QED
        BY <3>2, <3>4, <4>1, <4>2
    <3>5. CASE i # Len(nodes[r]) + 1
      <4>1. i \in 1..Len(nodes[r]) /\ nodes'[r][i] = nodes[r][i]
        BY <1>1, <3>3, <3>5
      <4>2. QED
        BY <1>1, <2>1, <2>2, <4>1
    <3>6. QED
      BY <3>4, <3>5
  <2>5. QED
    BY <2>3, <2>4
<1>4. QED
  BY <1>2, <1>3

LEMMA SameStep ==
  ASSUME TypeOK, PhaseOK, ResolvedNow, SameVersionAtRest, [Next]_vars
  PROVE  SameVersionAtRest'
<1> SUFFICES ASSUME NEW r \in Req, Uniform(r)', ~moved'[r], NEW i \in 1..Len(nodes'[r])
             PROVE  nodes'[r][i] = nodes'[r][1]
  BY DEF SameVersionAtRest, first
<1>1. req' = req /\ ~moved[r] /\ Uniform(r)
  BY Kept, MovedFrame DEF Uniform
<1>2. CASE nodes'[r] = nodes[r]
  BY <1>1, <1>2 DEF SameVersionAtRest, first
<1>3. CASE Len(nodes'[r]) = 1
  BY <1>3
<1>4. CASE Resolve(r) /\ pc' = pc
  <2>1. pc'[r] = "resolve"
    BY <1>4 DEF Resolve, At
  <2>2. /\ nodes'[r] \in Seq(NodeVersion) /\ req[r].nodes \in Seq(Known \X BOOLEAN)
        /\ Len(nodes'[r]) <= Len(req[r].nodes)
    BY <1>1, TypeStep, ProvisionAssumption DEF TypeOK
  <2>3. req[r].nodes[i] = req[r].nodes[1] /\ 1 \in 1..Len(nodes'[r])
    BY <1>1, <2>2 DEF Uniform
  <2>4. QED
    BY <1>1, <2>1, <2>3, ResolvedStep DEF ResolvedNow, At
<1>5. QED
  BY <1>2, <1>3, <1>4, NodesFrame

-----------------------------------------------------------------------------

LEMMA InvInit == Init => Inv
<1> SUFFICES ASSUME Init PROVE Inv
  OBVIOUS
<1> USE ProvisionAssumption DEF Init
<1>1. TypeOK
  BY DEF TypeOK, Place
<1>2. PhaseOK /\ TarOwned /\ Survivor /\ Built /\ ResolvedNow /\ Published
  BY DEF PhaseOK, Imaging, TarOwned, Survivor, Built, ResolvedNow, Published, At
<1>3. SameVersionAtRest
  BY DEF SameVersionAtRest
<1>4. QED
  BY <1>1, <1>2, <1>3 DEF Inv

(* The inductive invariant of image provisioning: tar files, images and    *)
(* resolved versions stay tied to the requests at work on them.            *)
THEOREM InvAlways == Spec => []Inv
<1>1. Inv /\ [Next]_vars => Inv'
  BY TypeStep, PhaseStep, TarStep, SurvivorStep, PublishedStep, ResolvedStep, SameStep DEF Inv
<1>2. QED
  BY InvInit, <1>1, PTL DEF Spec

(* The context that imageBuild sends is complete unless a later build of   *)
(* the same version has re-created the tar file, for any number of builds. *)
THEOREM ContextIntactAlways == Spec => []ContextIntact
<1>1. Inv => ContextIntact
  BY Complete DEF ContextIntact, Inv
<1>2. QED
  BY InvAlways, <1>1, PTL

(* However many builds of one version share a tar file, they do not all    *)
(* fail because of each other: imageBuild leaves the file behind, so the   *)
(* last one to create it has it whole.                                     *)
THEOREM OneSurvivesAlways == Spec => []OneSurvives
<1>1. Inv => OneSurvives
  BY DEF Inv, Survivor, HasOwner, OneSurvives
<1>2. QED
  BY InvAlways, <1>1, PTL

(* ensureImageExists leaves the image on the docker host and, if there is  *)
(* a registry, there too.                                                  *)
THEOREM PublishedAlways == Spec => []Published
<1>1. Inv => Published
  BY DEF Inv
<1>2. QED
  BY InvAlways, <1>1, PTL

(* Nodes that are asked for alike get one version unless the products file *)
(* changed meanwhile (HttpCreateCluster, aliasServerVersion), whatever the *)
(* products files say and however many nodes there are.                    *)
THEOREM SameVersionAlways == Spec => []SameVersionAtRest
<1>1. Inv => SameVersionAtRest
  BY DEF Inv
<1>2. QED
  BY InvAlways, <1>1, PTL

(* Then the image of the first node, the only one that allocateCluster     *)
(* makes sure of, does for all of them.                                    *)
THEOREM ImagesReadyAlways == Spec => []ImagesReady
<1>1. Inv => ImagesReady
  <2> SUFFICES ASSUME Inv, NEW r \in Req, At(r, "start"), Uniform(r), ~moved[r],
                      NEW i \in 1..Len(nodes[r])
               PROVE  toImageName(nodes[r][i]) \in images
    BY DEF ImagesReady, Missing
  <2>1. nodes[r][i] = first(r)
    BY DEF Inv, SameVersionAtRest
  <2>2. QED
    BY <2>1 DEF Inv, Published, At
<1>2. QED
  BY InvAlways, <1>1, PTL
=============================================================================
