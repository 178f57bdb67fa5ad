------------------------------ MODULE Provision ------------------------------
(***************************************************************************)
(* From the versions a request asks for to images its nodes can start      *)
(* from: HttpCreateCluster and HttpBuildImage up to ensureImageExists      *)
(* (daemon/restserver.go, alias.go, clusters.go, images.go).  Concurrent   *)
(* requests share the clone of the alias repository, the tar files in /tmp *)
(* and the images.  Docker, the registry, git and the build server are     *)
(* external: a call to them may fail at any time.                          *)
(***************************************************************************)
EXTENDS Versions

CONSTANTS
  Req,        \* requests
  Known,      \* versions that requests and products files name
  Request,    \* what requests ask for: op, nodes (a version and UseCommunityEdition each)
  Products,   \* successive contents of the products file upstream
  Builds,     \* URLs the build server has
  Chunk       \* a tar file is written and read in chunks 1..Chunk

ASSUME ProvisionAssumption ==
  /\ Request \subseteq [op : {"create", "build"}, nodes : Seq(Known \X BOOLEAN)]
  /\ \A q \in Request : Len(q.nodes) > 0
  /\ Len(Products) \in Nat \ {0} /\ DOMAIN Products = 1..Len(Products)
  /\ \A i \in DOMAIN Products : \A n \in DOMAIN Products[i] :
       Products[i][n] \in [{"release", "stable"} -> Known \cup {NoVersion}]
  /\ NoVersion \notin Known /\ Chunk \in Nat \ {0}

NoProducts == [n \in {} |-> n]

VARIABLES
  req,        \* what each request asks for
  pc,         \* where each handler is
  nodes,      \* clusterOpts.Nodes: the versions resolved so far
  dockerRegistry, \* a registry is configured
  upstream,   \* the present products file upstream
  clone,      \* the local clone: none, cloning, ready
  file,       \* its products file: 0 if there is none
  tar,        \* the chunks in each tar file
  pos,        \* chunks of the tar that imageBuild has written, or sent to docker;
              \* -1 until it has created the file
  images,     \* images on the docker host
  registry,   \* images in the registry
  moved,      \* history: the products file changed under the request
  retarred    \* history: another build re-created the tar that this one uses

repo  == <<upstream, clone, file, moved>>
built == <<tar, pos, images, registry, retarred>>
vars  == <<req, pc, nodes, dockerRegistry, repo, built>>

Place == {"new", "cloning", "pulling", "resolve", "pull", "check", "tar", "send",
          "push", "start", "ok", "err", "broken"}

TarFile == {<<v.nums, v.tag>> : v \in Known}

Init ==
  /\ req \in [Req -> Request]
  /\ pc = [r \in Req |-> "new"]
  /\ nodes = [r \in Req |-> <<>>]
  /\ dockerRegistry \in BOOLEAN
  /\ upstream = 1
  /\ \/ clone = "none" /\ file = 0
     \/ clone = "ready" /\ file = 1
  /\ tar = [f \in TarFile |-> {}]
  /\ pos = [r \in Req |-> -1]
  /\ images = {} /\ registry = {}
  /\ moved = [r \in Req |-> FALSE]
  /\ retarred = [r \in Req |-> FALSE]

At(r, l)   == pc[r] = l
Goto(r, l) == pc' = [pc EXCEPT ![r] = l]
first(r)   == nodes[r][1]

-----------------------------------------------------------------------------
(* GetConfigRepo.  Its error is logged and nothing else.                   *)

(* Whoever is at work on its versions sees the file change.                *)
FileChanges(f) ==
  /\ file' = f
  /\ moved' = [r \in Req |-> moved[r] \/ (f # file /\ At(r, "resolve"))]

CloneBegin(r) ==
  /\ At(r, "new") /\ req[r].op = "create" /\ clone = "none"
  /\ clone' = "cloning" /\ Goto(r, "cloning")
  /\ UNCHANGED <<req, nodes, dockerRegistry, upstream, file, moved, built>>

(* A failed clone is removed again.                                        *)
CloneEnd(r) ==
  /\ At(r, "cloning") /\ Goto(r, "resolve")
  /\ \/ clone' = "ready" /\ FileChanges(upstream)
     \/ clone' = "none" /\ FileChanges(0)
  /\ UNCHANGED <<req, nodes, dockerRegistry, upstream, built>>

(* The directory is there: pull.  The clone may be incomplete, the pull    *)
(* may fail or find nothing new.                                           *)
PullNothing(r) ==
  /\ At(r, "new") /\ req[r].op = "create" /\ clone # "none"
  /\ Goto(r, "resolve")
  /\ UNCHANGED <<req, nodes, dockerRegistry, repo, built>>

(* The new file is written: emptied first, then filled.  A pull that finds *)
(* enough of a clone that is still being made may get as far.              *)
PullBegin(r) ==
  /\ At(r, "new") /\ req[r].op = "create" /\ clone # "none" /\ file # upstream
  /\ Goto(r, "pulling") /\ FileChanges(upstream)
  /\ UNCHANGED <<req, nodes, dockerRegistry, upstream, clone, built>>

PullEnd(r) ==
  /\ At(r, "pulling") /\ Goto(r, "resolve")
  /\ UNCHANGED <<req, nodes, dockerRegistry, repo, built>>

(* External: someone commits to the alias repository.                      *)
Commit ==
  /\ upstream < Len(Products) /\ upstream' = upstream + 1
  /\ UNCHANGED <<req, pc, nodes, dockerRegistry, clone, file, moved, built>>

-----------------------------------------------------------------------------
(* The versions of the nodes, one after the other.                         *)

(* Mutant: every node asks the alias repository itself.                    *)
GetProductsMapFresh == {Products[upstream]}

(* GetProductsMap reads the file each time.  While a pull writes it, it    *)
(* may be found empty; a file that is not there is an empty map.           *)
GetProductsMap ==
  {IF file = 0 THEN NoProducts ELSE Products[file]}
    \cup {NoProducts : r \in {q \in Req : At(q, "pulling")}}

Resolved(r) == Len(nodes[r]) = Len(req[r].nodes)

asked(r) == req[r].nodes[Len(nodes[r]) + 1]

(* parseServerVersion; its error, and its panic, which net/http recovers,  *)
(* end the request.                                                        *)
Append1(r, v, ce) ==
  LET nv == parseServerVersion(v, ce)
  IN  IF v = NoVersion \/ nv.flavor \in {"error", "panic"}
      THEN Goto(r, "err") /\ nodes' = nodes
      ELSE nodes' = [nodes EXCEPT ![r] = Append(@, nv)] /\ pc' = pc

Resolve(r) ==
  /\ At(r, "resolve") /\ ~Resolved(r)
  /\ \E p \in GetProductsMap : Append1(r, aliasServerVersion(asked(r)[1], p), asked(r)[2])
  /\ UNCHANGED <<req, dockerRegistry, repo, built>>

(* HttpBuildImage knows no aliases.                                        *)
BuildImage(r) ==
  /\ At(r, "new") /\ req[r].op = "build"
  /\ LET nv == parseServerVersion(asked(r)[1], asked(r)[2])
     IN  IF nv.flavor \in {"error", "panic"}
         THEN Goto(r, "err") /\ nodes' = nodes
         ELSE /\ nodes' = [nodes EXCEPT ![r] = <<nv>>]
              /\ Goto(r, IF dockerRegistry THEN "pull" ELSE "check")
  /\ UNCHANGED <<req, dockerRegistry, repo, built>>

-----------------------------------------------------------------------------
(* ensureImageExists, for the first node.                                  *)

(* Before that, allocateCluster may refuse the request, or fail to         *)
(* register it (see ClusterLifecycle).                                     *)
EnsureImageExists(r) ==
  /\ At(r, "resolve") /\ Resolved(r)
  /\ Goto(r, IF dockerRegistry THEN "pull" ELSE "check") \/ Goto(r, "err")
  /\ UNCHANGED <<req, nodes, dockerRegistry, repo, built>>

Done(r) == IF req[r].op = "build" THEN "ok" ELSE "start"

(* Mutant: the events of the pull are not read.                            *)
ImagePullUnread(r) ==
  /\ At(r, "pull")
  /\ \/ /\ toImageName(first(r)) \in registry
        /\ images' = images \cup {toImageName(first(r))}
     \/ images' = images
  /\ Goto(r, Done(r))
  /\ UNCHANGED <<req, nodes, dockerRegistry, repo, tar, pos, registry, retarred>>

(* "assume that pull failed because the image didn't exist on the          *)
(* registry".                                                              *)
ImagePull(r) ==
  /\ At(r, "pull")
  /\ \/ /\ toImageName(first(r)) \in registry
        /\ images' = images \cup {toImageName(first(r))}
        /\ Goto(r, Done(r))
     \/ Goto(r, "check") /\ images' = images
  /\ UNCHANGED <<req, nodes, dockerRegistry, repo, tar, pos, registry, retarred>>

CheckBuildExists(r) ==
  /\ At(r, "check")
  /\ \/ toURL(first(r)) \in Builds /\ Goto(r, "tar")
     \/ Goto(r, "err")
  /\ UNCHANGED <<req, nodes, dockerRegistry, repo, built>>

(* The requests at work on the same tar file.                              *)
SameTar(r) ==
  {q \in Req \ {r} : pc[q] \in {"tar", "send"} /\ tarPath(first(q)) = tarPath(first(r))}

(* imageBuild: tar.Create truncates the file; a writer that is still at    *)
(* work goes on at its own offset.                                         *)
TarCreate(r) ==
  /\ At(r, "tar") /\ pos[r] = -1
  /\ tar' = [tar EXCEPT ![tarPath(first(r))] = {}]
  /\ pos' = [pos EXCEPT ![r] = 0]
  /\ retarred' = [q \in Req |-> IF q = r THEN FALSE ELSE retarred[q] \/ q \in SameTar(r)]
  /\ UNCHANGED <<req, pc, nodes, dockerRegistry, repo, images, registry>>

TarAdd(r) ==
  /\ At(r, "tar") /\ pos[r] \in 0..(Chunk - 1)
  /\ tar' = [tar EXCEPT ![tarPath(first(r))] = @ \cup {pos[r] + 1}]
  /\ pos' = [pos EXCEPT ![r] = @ + 1]
  /\ UNCHANGED <<req, pc, nodes, dockerRegistry, repo, images, registry, retarred>>

TarFails(r) ==
  /\ At(r, "tar") /\ Goto(r, "err")
  /\ UNCHANGED <<req, nodes, dockerRegistry, repo, built>>

(* Mutant: the file is opened before it is closed, without its last block. *)
TarCloseEarly(r) ==
  /\ At(r, "tar") /\ pos[r] = Chunk - 1
  /\ Goto(r, "send") /\ pos' = [pos EXCEPT ![r] = 0]
  /\ UNCHANGED <<req, nodes, dockerRegistry, repo, tar, images, registry, retarred>>

TarClose(r) ==
  /\ At(r, "tar") /\ pos[r] = Chunk
  /\ Goto(r, "send") /\ pos' = [pos EXCEPT ![r] = 0]
  /\ UNCHANGED <<req, nodes, dockerRegistry, repo, tar, images, registry, retarred>>

(* docker.ImageBuild streams the file.                                     *)
SendContext(r) ==
  /\ At(r, "send") /\ pos[r] < Chunk
  /\ pos[r] + 1 \in tar[tarPath(first(r))]
  /\ pos' = [pos EXCEPT ![r] = @ + 1]
  /\ UNCHANGED <<req, pc, nodes, dockerRegistry, repo, tar, images, registry, retarred>>

(* The end of the file, or a hole, before the context is complete: the     *)
(* Dockerfile or something it copies is missing, and docker reports it.    *)
Spoiled(r) ==
  /\ At(r, "send") /\ pos[r] < Chunk
  /\ pos[r] + 1 \notin tar[tarPath(first(r))]

(* Mutant: a build that fails empties the tar file to free its space.      *)
BuildFailsEmptying(r) ==
  /\ At(r, "send") /\ Goto(r, IF Spoiled(r) THEN "broken" ELSE "err")
  /\ tar' = [tar EXCEPT ![tarPath(first(r))] = {}]
  /\ UNCHANGED <<req, nodes, dockerRegistry, repo, pos, images, registry, retarred>>

(* The error of a build, because of its context or for any other reason.   *)
(* Either way the request fails with it, and the tar file stays.           *)
BuildFails(r) ==
  /\ At(r, "send") /\ Goto(r, IF Spoiled(r) THEN "broken" ELSE "err")
  /\ UNCHANGED <<req, nodes, dockerRegistry, repo, built>>

ImageBuild(r) ==
  /\ At(r, "send") /\ pos[r] = Chunk
  /\ images' = images \cup {toImageName(first(r))}
  /\ Goto(r, IF dockerRegistry THEN "push" ELSE Done(r))
  /\ UNCHANGED <<req, nodes, dockerRegistry, repo, tar, pos, registry, retarred>>

(* Mutant: the events of the push are not read.                            *)
ImagePushUnread(r) ==
  /\ At(r, "push")
  /\ registry' \in {registry, registry \cup {toImageName(first(r))}}
  /\ Goto(r, Done(r))
  /\ UNCHANGED <<req, nodes, dockerRegistry, repo, tar, pos, images, retarred>>

(* The push may fail, and may have taken effect all the same.              *)
ImagePush(r) ==
  /\ At(r, "push")
  /\ \/ registry' = registry \cup {toImageName(first(r))} /\ Goto(r, Done(r))
     \/ /\ registry' \in {registry, registry \cup {toImageName(first(r))}}
        /\ Goto(r, "err")
  /\ UNCHANGED <<req, nodes, dockerRegistry, repo, tar, pos, images, retarred>>

(* allocateNode for all nodes: docker creates a container only from an     *)
(* image that it has.                                                      *)
Missing(r) == {i \in 1..Len(nodes[r]) : toImageName(nodes[r][i]) \notin images}

StartNodes(r) ==
  /\ At(r, "start")
  /\ \/ Missing(r) = {} /\ Goto(r, "ok")
     \/ Goto(r, "err")
  /\ UNCHANGED <<req, nodes, dockerRegistry, repo, built>>

-----------------------------------------------------------------------------

Handler(r) ==
  \/ CloneBegin(r) \/ CloneEnd(r) \/ PullNothing(r) \/ PullBegin(r) \/ PullEnd(r)
  \/ Resolve(r) \/ BuildImage(r) \/ EnsureImageExists(r)
  \/ ImagePull(r) \/ CheckBuildExists(r)
  \/ TarCreate(r) \/ TarAdd(r) \/ TarFails(r) \/ TarClose(r)
  \/ SendContext(r) \/ BuildFails(r) \/ ImageBuild(r) \/ ImagePush(r)
  \/ StartNodes(r)

Next == Commit \/ \E r \in Req : Handler(r)

Spec == Init /\ [][Next]_vars

-----------------------------------------------------------------------------

NodeVersion == {parseServerVersion(v, ce) : v \in Known, ce \in BOOLEAN}

TypeOK ==
  /\ req \in [Req -> Request]
  /\ pc \in [Req -> Place]
  /\ nodes \in [Req -> Seq(NodeVersion)]
  /\ \A r \in Req : Len(nodes[r]) <= Len(req[r].nodes)
  /\ dockerRegistry \in BOOLEAN
  /\ upstream \in DOMAIN Products /\ file \in {0} \cup DOMAIN Products
  /\ clone \in {"none", "cloning", "ready"}
  /\ tar \in [TarFile -> SUBSET (1..Chunk)]
  /\ pos \in [Req -> -1..Chunk]
  /\ moved \in [Req -> BOOLEAN] /\ retarred \in [Req -> BOOLEAN]

(* All nodes are asked for alike.                                          *)
Uniform(r) == \A i \in 1..Len(req[r].nodes) : req[r].nodes[i] = req[r].nodes[1]

(* The context that docker gets is complete, unless a later build of the   *)
(* same version, of either edition, has re-created the tar file meanwhile. *)
(* An earlier one that is still writing does no harm.                      *)
ContextIntact == \A r \in Req : Spoiled(r) => retarred[r]

(* Builds of one version that get in each other's way do not all fail for  *)
(* it: where the context of one is broken, there is another that created   *)
(* the same tar file and whose own context is not broken.  It has          *)
(* succeeded, is still at work, or has failed for another reason.          *)
OneSurvives ==
  \A r \in Req : At(r, "broken") =>
    \E q \in Req \ {r} : /\ pos[q] >= 0 /\ ~At(q, "broken")
                         /\ tarPath(first(q)) = tarPath(first(r))

(* A request that got an image left it where the next one looks for it: on *)
(* the docker host and, if one is configured, in the registry.             *)
Published ==
  \A r \in Req : pc[r] \in {"start", "ok"} =>
    /\ toImageName(first(r)) \in images
    /\ dockerRegistry => toImageName(first(r)) \in registry

(* All nodes of a cluster that is asked for with one version get the same  *)
(* version, unless the products file changed between two of them.          *)
SameVersionAtRest ==
  \A r \in Req : Uniform(r) /\ ~moved[r] =>
    \A i \in 1..Len(nodes[r]) : nodes[r][i] = first(r)

(* The image of the first node then does for all of them.                  *)
ImagesReady ==
  \A r \in Req : At(r, "start") /\ Uniform(r) /\ ~moved[r] => Missing(r) = {}

-----------------------------------------------------------------------------
(* The inductive invariant.                                                *)

Imaging == {"pull", "check", "tar", "send", "push", "start", "ok"}

(* The versions are resolved in order, and all of them before any image is *)
(* looked for.                                                             *)
PhaseOK ==
  \A r \in Req : /\ pc[r] \in {"new", "cloning", "pulling"} => nodes[r] = <<>>
                 /\ pc[r] \in Imaging => Len(nodes[r]) > 0
                 /\ At(r, "send") => pos[r] >= 0
                 /\ pc[r] \in {"new", "cloning", "pulling", "resolve", "pull", "check"} =>
                      pos[r] = -1 /\ ~retarred[r]
                 /\ pos[r] >= 0 \/ retarred[r] => Len(nodes[r]) > 0

(* What imageBuild has written is in the tar file, unless another build of *)
(* the version has re-created it.                                          *)
TarOwned ==
  \A r \in Req : ~retarred[r] =>
    /\ At(r, "tar") => 1..pos[r] \subseteq tar[tarPath(first(r))]
    /\ At(r, "send") => 1..Chunk \subseteq tar[tarPath(first(r))]

(* The last build that created the tar file is still its owner.            *)
HasOwner(r) ==
  \E q \in Req \ {r} : /\ pos[q] >= 0 /\ ~retarred[q]
                       /\ tarPath(first(q)) = tarPath(first(r))

Survivor ==
  \A r \in Req : /\ At(r, "broken") => retarred[r]
                 /\ retarred[r] => HasOwner(r)

(* Only an image that was built is pushed.                                 *)
Built == \A r \in Req : At(r, "push") => toImageName(first(r)) \in images

Current == IF file = 0 THEN NoProducts ELSE Products[file]

(* While a request resolves its versions, each one is what the products    *)
(* file says, unless that has changed since the request began.             *)
ResolvedNow ==
  \A r \in Req : At(r, "resolve") /\ ~moved[r] =>
    \A i \in 1..Len(nodes[r]) :
      nodes[r][i] = parseServerVersion(aliasServerVersion(req[r].nodes[i][1], Current),
                                       req[r].nodes[i][2])

(* What ensureImageExists, the tar writers and the alias look-ups have     *)
(* left of a request so far: the place it is at decides which files,       *)
(* images and versions there are.  Inductive.                              *)
Inv ==
  /\ TypeOK /\ PhaseOK /\ TarOwned /\ Survivor /\ Built /\ ResolvedNow
  /\ Published /\ SameVersionAtRest

=============================================================================
