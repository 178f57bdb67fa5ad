------------------------- MODULE ClusterSetupProofs -------------------------
(***************************************************************************)
(* What ClusterSetup promises, for any number of nodes, handlers and       *)
(* setups: that Inv is an invariant, and what follows from it.             *)
(*                                                                         *)
(* A step is one handler's, a goroutine's or a server's.  The proofs       *)
(* rest on two views of it: HandlerStep, what a step does to one handler   *)
(* h, and Kept, what it leaves of the things that a setup of h has built,  *)
(* unless it spoils them.                                                  *)
(***************************************************************************)
EXTENDS ClusterSetup, SequenceTheorems, TLAPS

Begins(h)   == \E q \in Config : SetupCluster(h, q)
Ejects(h)   == (\E n \in Aux : RestCallToAux(h, n)) \/ RestCallToAuxTimeout(h)
Waits(h)    == (\E n \in Aux : PollJoinReadyAll(h, n)) \/ PollJoinReadyAllTimeout(h)
Clears(h)   == \/ StartCluster(h) \/ StopRebalance(h) \/ ClearSingleCluster(h)
               \/ FailOverAndEjectAll(h) \/ Ejects(h) \/ ResetMaster(h)
Prepares(h) == GetVersion(h) \/ Configure(h) \/ Waits(h)
Joins(h)    == \/ AddNodes(h) \/ Rebalance(h) \/ PollRebalance(h) \/ PollRebalanceFails(h)
               \/ ParseRebalanceProgressPanics(h)
Finishes(h) == \/ SetupBucket(h) \/ WaitForBucketReady(h) \/ WaitForBucketReadyFails(h)
               \/ EnableDeveloperPreview(h)

LEMMA Cases ==
  ASSUME [Next]_vars
  PROVE  \/ \E h \in Handler : \/ Begins(h) \/ Clears(h) \/ NewSessionFails(h)
                               \/ Prepares(h) \/ Joins(h) \/ Finishes(h)
         \/ Goroutine
         \/ Server
         \/ UNCHANGED vars
  BY DEF Next, Progress, Begins, Ejects, Waits, Clears, Prepares, Joins, Finishes

-----------------------------------------------------------------------------
(* Sequences of settings. *)

LEMMA PlanTyped ==
  ASSUME NEW q
  PROVE  Plan(q) \in Seq(Setting) /\ Plan(q) # <<>>
<1> DEFINE a == <<"quota">>
           b == IF q.rename THEN <<"rename">> ELSE <<>>
           c == <<"services", "quota">>
           d == IF q.storage THEN <<"storage">> ELSE <<>>
           e == <<"provision">>
           f == IF q.modern /\ q.user # "empty" THEN <<"user">> ELSE <<>>
<1>1. a \in Seq(Setting) /\ a # <<>> /\ c \in Seq(Setting) /\ e \in Seq(Setting)
  BY DEF Setting
<1>2. b \in Seq(Setting)
  <2>1. <<"rename">> \in Seq(Setting) /\ <<>> \in Seq(Setting)
    BY DEF Setting
  <2>2. QED
    BY <2>1, Zenon
<1>3. d \in Seq(Setting)
  <2>1. <<"storage">> \in Seq(Setting) /\ <<>> \in Seq(Setting)
    BY DEF Setting
  <2>2. QED
    BY <2>1, Zenon
<1>4. f \in Seq(Setting)
  <2>1. <<"user">> \in Seq(Setting) /\ <<>> \in Seq(Setting)
    BY DEF Setting
  <2>2. QED
    BY <2>1, Zenon
<1>5. Plan(q) = a \o b \o c \o d \o e \o f
  BY DEF Plan
<1> HIDE DEF a, b, c, d, e, f
<1>6. a \o b \in Seq(Setting) /\ a \o b # <<>>
  BY <1>1, <1>2, ConcatProperties, ConcatEqualIffEmpty
<1>7. a \o b \o c \in Seq(Setting) /\ a \o b \o c # <<>>
  BY <1>1, <1>6, ConcatProperties, ConcatEqualIffEmpty
<1>8. a \o b \o c \o d \in Seq(Setting) /\ a \o b \o c \o d # <<>>
  BY <1>3, <1>7, ConcatProperties, ConcatEqualIffEmpty
<1>9. a \o b \o c \o d \o e \in Seq(Setting) /\ a \o b \o c \o d \o e # <<>>
  BY <1>1, <1>8, ConcatProperties, ConcatEqualIffEmpty
<1>10. QED
  BY <1>4, <1>5, <1>9, ConcatProperties, ConcatEqualIffEmpty

(* Making the first call of a plan leaves the rest.                        *)
LEMMA TailOfPlan ==
  ASSUME NEW p \in Seq(Setting), p # <<>>
  PROVE  /\ Tail(p) \in Seq(Setting) /\ Head(p) \in Setting
         /\ Elems(p) \subseteq {Head(p)} \cup Elems(Tail(p))
         /\ Len(p) > 1 <=> Tail(p) # <<>>
         /\ Elems(<<>>) = {}
<1>1. /\ Tail(p) \in Seq(Setting) /\ Head(p) \in Setting
      /\ Len(p) \in Nat \ {0} /\ Len(Tail(p)) = Len(p) - 1
  BY HeadTailProperties, EmptySeq
<1>2. ASSUME NEW i \in 1..Len(p)
      PROVE  p[i] \in {Head(p)} \cup Elems(Tail(p))
  <2>1. CASE i = 1
    BY <2>1
  <2>2. CASE i # 1
    <3>1. /\ i - 1 \in 1..Len(Tail(p))
          /\ Tail(p)[i - 1] = p[i]
      BY <1>1, <1>2, <2>2
    <3>2. QED
      BY <3>1 DEF Elems
  <2>3. QED
    BY <2>1, <2>2
<1>3. Elems(p) \subseteq {Head(p)} \cup Elems(Tail(p))
  BY <1>2 DEF Elems
<1>4. Len(p) > 1 <=> Tail(p) # <<>>
  <2>1. Tail(p) # <<>> <=> Len(Tail(p)) # 0
    BY <1>1, EmptySeq
  <2>2. QED
    BY <1>1, <2>1
<1>5. Elems(<<>>) = {}
  BY DEF Elems
<1>6. QED
  BY <1>1, <1>3, <1>4, <1>5

-----------------------------------------------------------------------------
(* Types. *)

LEMMA HandlerTypeStep ==
  ASSUME HandlerType, [Next]_vars
  PROVE  HandlerType'
<1> USE SetupAssumption
<1>1. ASSUME NEW h \in Handler, Begins(h)
      PROVE  HandlerType'
  BY <1>1 DEF Begins, SetupCluster, Goto, HandlerType, Place, Replied, Clearing, Building
<1>2. ASSUME NEW h \in Handler, Clears(h)
      PROVE  HandlerType'
  <2>1. pc' \in [Handler -> Place] /\ setups' = setups
    BY <1>2 DEF Clears, StartCluster, StopRebalance, ClearSingleCluster, FailOverAndEjectAll,
          Ejects, RestCallToAux, RestCallToAuxTimeout, ResetMaster, Goto, Fails, manager,
          HandlerType, Place, Replied, Clearing, Building
  <2>2. clean' \in [Handler -> BOOLEAN]
    BY <1>2 DEF Clears, StartCluster, StopRebalance, ClearSingleCluster, FailOverAndEjectAll,
          Ejects, RestCallToAux, RestCallToAuxTimeout, ResetMaster, DeleteBuckets, Spoil,
          HandlerType
  <2>3. QED
    BY <2>1, <2>2 DEF HandlerType
<1>3. ASSUME NEW h \in Handler, NewSessionFails(h)
      PROVE  HandlerType'
  BY <1>3 DEF NewSessionFails, manager, HandlerType, Place, Replied
<1>4. ASSUME NEW h \in Handler, Prepares(h)
      PROVE  HandlerType'
  BY <1>4 DEF Prepares, GetVersion, Configure, Waits, PollJoinReadyAll, PollJoinReadyAllTimeout,
        Goto, Fails, manager, HandlerType, Place, Replied, Building
<1>5. ASSUME NEW h \in Handler, Joins(h)
      PROVE  HandlerType'
  BY <1>5 DEF Joins, AddNodes, Added, Rebalance, PollRebalance, PollRebalanceFails,
        ParseRebalanceProgressPanics, RebalanceLoop, Goto, Fails, manager, HandlerType, Place,
        Replied, Building
<1>6. ASSUME NEW h \in Handler, Finishes(h)
      PROVE  HandlerType'
  BY <1>6 DEF Finishes, SetupBucket, WaitForBucketReady, WaitForBucketReadyFails, AfterBucket,
        EnableDeveloperPreview, Goto, Fails, manager, HandlerType, Place, Replied, Building
<1>7. CASE Goroutine
  BY <1>7 DEF Goroutine, FailOver, Eject, PollJoinReady, Spoil, manager, HandlerType
<1>8. CASE Server
  BY <1>8 DEF Server, BecomeReady, RebalanceEnds, BucketProceeds, Left, Spoil, manager, HandlerType
<1>9. CASE UNCHANGED vars
  BY <1>9 DEF vars, manager, HandlerType
<1>10. QED
  BY Cases, <1>1, <1>2, <1>3, <1>4, <1>5, <1>6, <1>7, <1>8, <1>9

LEMMA GoroutineTypeStep ==
  ASSUME TypeOK, [Next]_vars
  PROVE  GoroutineType'
<1> USE DEF TypeOK
<1>1. ASSUME NEW h \in Handler, Begins(h) \/ Joins(h) \/ Finishes(h)
      PROVE  GoroutineType'
  BY <1>1 DEF Begins, SetupCluster, Joins, AddNodes, Rebalance, PollRebalance, PollRebalanceFails,
        ParseRebalanceProgressPanics, Finishes, SetupBucket, WaitForBucketReady,
        WaitForBucketReadyFails, EnableDeveloperPreview, gor, GoroutineType
<1>2. ASSUME NEW h \in Handler, Clears(h)
      PROVE  GoroutineType'
  <2>1. CASE FailOverAndEjectAll(h)
    <3>1. mgr[h].poolsNodes \in [Aux -> {"none", "failover", "eject"}]
      BY DEF Manager
    <3>2. QED
      BY <2>1, <3>1 DEF FailOverAndEjectAll, GoroutineType
  <2>2. CASE Ejects(h)
    <3>1. poll' = poll /\ (kick' = kick \/ \E m \in Aux : Kick(run(h), m, "done"))
      BY <2>2 DEF Ejects, RestCallToAux, RestCallToAuxTimeout, gor
    <3>2. CASE kick' = kick
      BY <3>1, <3>2 DEF GoroutineType
    <3>3. ASSUME NEW m \in Aux, Kick(run(h), m, "done")
          PROVE  GoroutineType'
      BY <3>1, <3>3 DEF Kick, GoroutineType
    <3>4. QED
      BY <3>1, <3>2, <3>3
  <2>3. QED
    BY <1>2, <2>1, <2>2 DEF Clears, StartCluster, StopRebalance, ClearSingleCluster, ResetMaster,
          gor, GoroutineType
<1>3. ASSUME NEW h \in Handler, NewSessionFails(h)
      PROVE  GoroutineType'
  BY <1>3 DEF NewSessionFails, GoroutineType
<1>4. ASSUME NEW h \in Handler, Prepares(h)
      PROVE  GoroutineType'
  BY <1>4 DEF Prepares, GetVersion, Configure, Waits, PollJoinReadyAll, PollJoinReadyAllTimeout,
        gor, GoroutineType
<1>5. CASE Goroutine
  <2>1. ASSUME NEW s \in Run, NEW n \in Aux, FailOver(s, n) \/ Eject(s, n)
        PROVE  GoroutineType'
    <3>1. poll' = poll /\ \E k \in {"eject", "good", "bad"} : Kick(s, n, k)
      BY <2>1 DEF FailOver, Eject
    <3>2. QED
      BY <3>1 DEF Kick, GoroutineType
  <2>2. ASSUME NEW s \in Run, NEW n \in Aux, PollJoinReady(s, n)
        PROVE  GoroutineType'
    BY <2>2 DEF PollJoinReady, GoroutineType
  <2>3. QED
    BY <1>5, <2>1, <2>2 DEF Goroutine
<1>6. CASE Server \/ UNCHANGED vars
  BY <1>6 DEF Server, BecomeReady, RebalanceEnds, BucketProceeds, Left, vars, gor, GoroutineType
<1>7. QED
  BY Cases, <1>1, <1>2, <1>3, <1>4, <1>5, <1>6

LEMMA ServerTypeStep ==
  ASSUME TypeOK, Counted, [Next]_vars
  PROVE  ServerType'
<1>1. ASSUME NEW h \in Handler, Begins(h) \/ NewSessionFails(h)
      PROVE  ServerType'
  BY <1>1 DEF Begins, SetupCluster, NewSessionFails, server, TypeOK, ServerType
<1>2. ASSUME NEW h \in Handler, Clears(h)
      PROVE  ServerType'
  BY <1>2 DEF Clears, StartCluster, StopRebalance, ClearSingleCluster, FailOverAndEjectAll,
        DeleteBuckets, Ejects, RestCallToAux, RestCallToAuxTimeout, ResetMaster, server, TypeOK,
        ServerType
<1>3. ASSUME NEW h \in Handler, Prepares(h)
      PROVE  ServerType'
  <2>1. CASE Configure(h)
    <3>1. Head(mgr[h].plan) \in Setting
      BY <2>1, TailOfPlan DEF Configure, At, Counted, TypeOK, Manager
    <3>2. QED
      BY <2>1, <3>1 DEF Configure, TypeOK, ServerType
  <2>2. CASE ~Configure(h)
    BY <1>3, <2>2 DEF Prepares, GetVersion, Waits, PollJoinReadyAll, PollJoinReadyAllTimeout,
          server, TypeOK, ServerType
  <2>3. QED
    BY <2>1, <2>2
<1>4. ASSUME NEW h \in Handler, Joins(h)
      PROVE  ServerType'
  <2>1. CASE AddNodes(h)
    BY <2>1 DEF AddNodes, AddNode, At, Counted, TypeOK, ServerType
  <2>2. CASE ~AddNodes(h)
    BY <1>4, <2>2 DEF Joins, Rebalance, PollRebalance, PollRebalanceFails,
          ParseRebalanceProgressPanics, server, TypeOK, ServerType
  <2>3. QED
    BY <2>1, <2>2
<1>5. ASSUME NEW h \in Handler, Finishes(h)
      PROVE  ServerType'
  BY <1>5 DEF Finishes, SetupBucket, WaitForBucketReady, WaitForBucketReadyFails,
        EnableDeveloperPreview, server, TypeOK, ServerType, Setting
<1>6. CASE Goroutine
  <2>1. PICK s \in Run, n \in Aux : FailOver(s, n) \/ Eject(s, n) \/ PollJoinReady(s, n)
    BY <1>6 DEF Goroutine
  <2>2. CASE FailOver(s, n)
    BY <2>2 DEF FailOver, TypeOK, ServerType
  <2>3. CASE Eject(s, n)
    BY <2>3 DEF Eject, TypeOK, ServerType
  <2>4. CASE PollJoinReady(s, n)
    BY <2>4 DEF PollJoinReady, server, TypeOK, ServerType
  <2>5. QED
    BY <2>1, <2>2, <2>3, <2>4
<1>7. CASE Server
  BY <1>7 DEF Server, BecomeReady, RebalanceEnds, BucketProceeds, Left, TypeOK, ServerType
<1>8. CASE UNCHANGED vars
  BY <1>8 DEF vars, server, TypeOK, ServerType
<1>9. QED
  BY Cases, <1>1, <1>2, <1>3, <1>4, <1>5, <1>6, <1>7, <1>8

(* Only a handler changes its manager.                                     *)
LEMMA ManagerTypeStep ==
  ASSUME TypeOK, Counted, [Next]_vars
  PROVE  mgr' \in [Handler -> Manager]
<1> USE SetupAssumption
<1>1. ASSUME NEW h \in Handler, Begins(h)
      PROVE  mgr' \in [Handler -> Manager]
  <2>1. PICK q \in Config : SetupCluster(h, q)
    BY <1>1 DEF Begins
  <2>2. New(setups + 1, q) \in Manager
    BY <2>1, EmptySeq DEF SetupCluster, New, Manager, numRetry, TypeOK, HandlerType
  <2>3. QED
    BY <2>1, <2>2 DEF SetupCluster, TypeOK
<1>2. ASSUME NEW h \in Handler, StartCluster(h)
      PROVE  mgr' \in [Handler -> Manager]
  <2>1. ASSUME NEW e \in BOOLEAN
        PROVE  [mgr EXCEPT ![h].existing = e] \in [Handler -> Manager]
    BY <2>1 DEF TypeOK, Manager
  <2>2. ("provision" \in applied) \in BOOLEAN
    OBVIOUS
  <2>3. QED
    BY <1>2, <2>1, <2>2 DEF StartCluster, TypeOK
<1>3. ASSUME NEW h \in Handler, NEW p \in Seq(Setting)
      PROVE  [mgr EXCEPT ![h].plan = p] \in [Handler -> Manager]
  BY <1>3 DEF TypeOK, Manager
<1>4. ASSUME NEW h \in Handler, Prepares(h)
      PROVE  mgr' \in [Handler -> Manager]
  <2>1. CASE GetVersion(h)
    <3>1. Plan(conf(h)) \in Seq(Setting)
      BY PlanTyped
    <3>2. QED
      BY <1>3, <2>1, <3>1 DEF GetVersion, TypeOK
  <2>2. CASE Configure(h)
    <3>1. Tail(mgr[h].plan) \in Seq(Setting)
      BY <2>2, TailOfPlan DEF Configure, At, Counted, TypeOK, Manager
    <3>2. mgr' = mgr \/ mgr' = [mgr EXCEPT ![h].plan = Tail(mgr[h].plan)]
      BY <2>2 DEF Configure
    <3>3. [mgr EXCEPT ![h].plan = Tail(mgr[h].plan)] \in [Handler -> Manager]
      BY <1>3, <3>1
    <3>4. QED
      BY <3>2, <3>3 DEF TypeOK
  <2>3. CASE Waits(h)
    BY <2>3 DEF Waits, PollJoinReadyAll, PollJoinReadyAllTimeout, manager, TypeOK
  <2>4. QED
    BY <1>4, <2>1, <2>2, <2>3 DEF Prepares
<1>5. ASSUME NEW h \in Handler, Joins(h)
      PROVE  mgr' \in [Handler -> Manager]
  <2>1. ASSUME NEW k \in 2..(N + 1), NEW b \in BOOLEAN
        PROVE  [mgr EXCEPT ![h].next = k, ![h].again = b] \in [Handler -> Manager]
    <3>1. mgr[h] \in Manager
      BY DEF TypeOK
    <3>2. [mgr[h] EXCEPT !.next = k, !.again = b] \in Manager
      BY <2>1, <3>1 DEF Manager
    <3>3. [mgr EXCEPT ![h].next = k, ![h].again = b]
            = [mgr EXCEPT ![h] = [mgr[h] EXCEPT !.next = k, !.again = b]]
      BY DEF TypeOK
    <3>4. QED
      BY <3>2, <3>3 DEF TypeOK
  <2>2. ASSUME NEW b \in BOOLEAN
        PROVE  [mgr EXCEPT ![h].again = b] \in [Handler -> Manager]
    BY <2>2 DEF TypeOK, Manager
  <2>3. ASSUME NEW i \in 0..numRetry
        PROVE  [mgr EXCEPT ![h].round = i] \in [Handler -> Manager]
    BY <2>3 DEF TypeOK, Manager
  <2>4. CASE AddNodes(h)
    <3>1. mgr[h].next + 1 \in 2..(N + 1)
      BY <2>4 DEF AddNodes, At, Counted, Aux
    <3>2. QED
      BY <2>1, <2>2, <2>4, <3>1 DEF AddNodes, Added, TypeOK
  <2>5. CASE PollRebalance(h) \/ PollRebalanceFails(h)
    <3>1. mgr[h].round + 1 \in 0..numRetry
      <4>1. mgr[h].round \in 0..numRetry
        BY DEF TypeOK, Manager
      <4>2. mgr[h].round < numRetry
        BY <2>5 DEF PollRebalance, PollRebalanceFails, ParseRebalanceProgressPanics, At, Counted,
              Joining
      <4>3. QED
        BY <4>1, <4>2 DEF numRetry
    <3>2. QED
      BY <2>3, <2>5, <3>1 DEF PollRebalance, PollRebalanceFails, ParseRebalanceProgressPanics,
            RebalanceLoop, TypeOK
  <2>6. QED
    BY <1>5, <2>4, <2>5 DEF Joins, Rebalance, ParseRebalanceProgressPanics, manager, TypeOK
<1>6. ASSUME NEW h \in Handler, Clears(h), ~StartCluster(h), ~ClearSingleCluster(h)
      PROVE  mgr' = mgr
  BY <1>6 DEF Clears, StopRebalance, FailOverAndEjectAll, Ejects, RestCallToAux,
        RestCallToAuxTimeout, ResetMaster, manager
<1>7. ASSUME NEW h \in Handler, NewSessionFails(h) \/ Finishes(h)
      PROVE  mgr' = mgr
  BY <1>7 DEF NewSessionFails, Finishes, SetupBucket, WaitForBucketReady, WaitForBucketReadyFails,
        EnableDeveloperPreview, manager
<1>8. CASE Goroutine \/ Server \/ UNCHANGED vars
  BY <1>8 DEF Goroutine, FailOver, Eject, PollJoinReady, Server, BecomeReady, RebalanceEnds,
        BucketProceeds, Left, vars, manager, TypeOK
<1>9. ASSUME NEW h \in Handler, ClearSingleCluster(h)
      PROVE  mgr' \in [Handler -> Manager]
  <2>1. ASSUME NEW f \in [Aux -> {"none", "failover", "eject"}]
        PROVE  [mgr EXCEPT ![h].poolsNodes = f] \in [Handler -> Manager]
    <3>1. mgr[h] \in Manager
      BY DEF TypeOK
    <3>2. [mgr[h] EXCEPT !.poolsNodes = f] \in Manager
      BY <2>1, <3>1 DEF Manager
    <3>3. QED
      BY <3>2 DEF TypeOK
  <2>2. [n \in Aux |-> failOverAndEject(n)] \in [Aux -> {"none", "failover", "eject"}]
    BY DEF failOverAndEject
  <2>3. QED
    BY <1>9, <2>1, <2>2 DEF ClearSingleCluster, TypeOK
<1>10. QED
  BY Cases, <1>1, <1>2, <1>4, <1>5, <1>6, <1>7, <1>8, <1>9 DEF TypeOK

-----------------------------------------------------------------------------
(* What a step does to one handler. *)

LEMMA HandlerStep ==
  ASSUME TypeOK, [Next]_vars, NEW h \in Handler
  PROVE  \/ Begins(h) \/ Clears(h) \/ Prepares(h) \/ Joins(h) \/ Finishes(h)
         \/ mgr'[h] = mgr[h] /\ (pc'[h] = pc[h] \/ (pc'[h] = "dead" /\ pc[h] \notin Replied))
<1> USE DEF TypeOK, HandlerType
<1>1. ASSUME NEW g \in Handler, g # h, Begins(g)
      PROVE  mgr'[h] = mgr[h] /\ pc'[h] = pc[h]
  BY <1>1 DEF Begins, SetupCluster, Goto
<1>2. ASSUME NEW g \in Handler, g # h, Clears(g)
      PROVE  mgr'[h] = mgr[h] /\ pc'[h] = pc[h]
  BY <1>2 DEF Clears, StartCluster, StopRebalance, ClearSingleCluster, FailOverAndEjectAll, Ejects,
        RestCallToAux, RestCallToAuxTimeout, ResetMaster, Goto, Fails, manager
<1>3. ASSUME NEW g \in Handler, NewSessionFails(g)
      PROVE  mgr' = mgr /\ (pc'[h] = pc[h] \/ (pc'[h] = "dead" /\ pc[h] \notin Replied))
  BY <1>3 DEF NewSessionFails, manager
<1>4. ASSUME NEW g \in Handler, g # h, Prepares(g)
      PROVE  mgr'[h] = mgr[h] /\ pc'[h] = pc[h]
  BY <1>4 DEF Prepares, GetVersion, Configure, Waits, PollJoinReadyAll, PollJoinReadyAllTimeout,
        Goto, Fails, manager
<1>5. ASSUME NEW g \in Handler, g # h, Joins(g)
      PROVE  mgr'[h] = mgr[h] /\ pc'[h] = pc[h]
  BY <1>5 DEF Joins, AddNodes, Added, Rebalance, PollRebalance, PollRebalanceFails,
        ParseRebalanceProgressPanics, RebalanceLoop, Goto, Fails, manager
<1>6. ASSUME NEW g \in Handler, g # h, Finishes(g)
      PROVE  mgr'[h] = mgr[h] /\ pc'[h] = pc[h]
  BY <1>6 DEF Finishes, SetupBucket, WaitForBucketReady, WaitForBucketReadyFails, AfterBucket,
        EnableDeveloperPreview, Goto, Fails, manager
<1>7. CASE Goroutine \/ Server \/ UNCHANGED vars
  BY <1>7 DEF Goroutine, FailOver, Eject, PollJoinReady, Server, BecomeReady, RebalanceEnds,
        BucketProceeds, Left, vars, manager
<1>8. QED
  BY Cases, <1>1, <1>2, <1>3, <1>4, <1>5, <1>6, <1>7

(* A manager keeps its setup and what that asks for, and counts where the  *)
(* code counts.                                                            *)
LEMMA ManagerStep ==
  ASSUME TypeOK, [Next]_vars, NEW h \in Handler, ~Begins(h)
  PROVE  /\ run(h)' = run(h) /\ conf(h)' = conf(h)
         /\ ~AddNodes(h) => mgr'[h].next = mgr[h].next
         /\ ~PollRebalance(h) /\ ~PollRebalanceFails(h) => mgr'[h].round = mgr[h].round
<1>0. mgr \in [Handler -> Manager]
  BY DEF TypeOK
<1>1. CASE Clears(h)
  <2>1. \/ mgr' = mgr
        \/ \E e : mgr' = [mgr EXCEPT ![h].existing = e]
        \/ \E f : mgr' = [mgr EXCEPT ![h].poolsNodes = f]
    BY <1>1 DEF Clears, StartCluster, StopRebalance, ClearSingleCluster, FailOverAndEjectAll,
          Ejects, RestCallToAux, RestCallToAuxTimeout, ResetMaster, manager
  <2>2. QED
    BY <1>0, <2>1 DEF Manager, run, conf
<1>2. CASE Prepares(h)
  <2>1. mgr' = mgr \/ \E p : mgr' = [mgr EXCEPT ![h].plan = p]
    BY <1>2 DEF Prepares, GetVersion, Configure, Waits, PollJoinReadyAll, PollJoinReadyAllTimeout,
          manager
  <2>2. QED
    BY <1>0, <2>1 DEF Manager, run, conf
<1>3. CASE AddNodes(h)
  <2>1. \/ mgr' = mgr
        \/ mgr' = [mgr EXCEPT ![h].again = TRUE]
        \/ mgr' = [mgr EXCEPT ![h].next = mgr[h].next + 1, ![h].again = FALSE]
    BY <1>0, <1>3 DEF AddNodes, Added
  <2>2. QED
    BY <1>0, <1>3, <2>1 DEF Manager, run, conf
<1>4. CASE PollRebalance(h) \/ PollRebalanceFails(h)
  <2>1. mgr' = mgr \/ \E i : mgr' = [mgr EXCEPT ![h].round = i]
    BY <1>0, <1>4 DEF PollRebalance, PollRebalanceFails, ParseRebalanceProgressPanics, RebalanceLoop
  <2>2. QED
    BY <1>0, <1>4, <2>1 DEF Manager, run, conf
<1>5. CASE Rebalance(h) \/ ParseRebalanceProgressPanics(h) \/ Finishes(h)
  BY <1>5 DEF Rebalance, ParseRebalanceProgressPanics, Finishes, SetupBucket, WaitForBucketReady,
        WaitForBucketReadyFails, EnableDeveloperPreview, manager, run, conf
<1>6. QED
  BY HandlerStep, <1>1, <1>2, <1>3, <1>4, <1>5 DEF Joins, run, conf

(* A request that is accepted begins a setup of its own.                   *)
LEMMA BeginsStep ==
  ASSUME TypeOK, NEW h \in Handler, Begins(h)
  PROVE  /\ pc[h] \in Replied /\ pc'[h] \in {"info", "err"} /\ clean'[h]
         /\ \A g \in Handler \ {h} : clean'[g] = clean[g] /\ pc'[g] = pc[g] /\ mgr'[g] = mgr[g]
         /\ setups' = setups + 1 /\ run(h)' = setups + 1
         /\ mgr'[h].next = 2 /\ mgr'[h].round = 0
         /\ UNCHANGED <<poll, kick, applied, member, ready, rebal, rebalErr, bucket, leaving>>
<1>1. PICK q \in Config : SetupCluster(h, q)
  BY DEF Begins
<1>2. mgr'[h] = New(setups + 1, q)
  BY <1>1 DEF SetupCluster, TypeOK
<1>3. /\ run(h)' = setups + 1 /\ mgr'[h].next = 2 /\ mgr'[h].round = 0
  BY <1>2 DEF run, New
<1>4. pc[h] \in Replied /\ pc'[h] \in {"info", "err"} /\ clean'[h]
  BY <1>1 DEF SetupCluster, Goto, TypeOK, HandlerType
<1>5. \A g \in Handler \ {h} : clean'[g] = clean[g] /\ pc'[g] = pc[g] /\ mgr'[g] = mgr[g]
  BY <1>1 DEF SetupCluster, Goto, TypeOK, HandlerType
<1>6. QED
  BY <1>1, <1>3, <1>4, <1>5 DEF SetupCluster, gor, server

LEMMA SetupsStep ==
  ASSUME TypeOK, [Next]_vars, \A h \in Handler : ~Begins(h)
  PROVE  setups' = setups
<1>1. ASSUME NEW h \in Handler, Clears(h) \/ NewSessionFails(h) \/ Prepares(h)
      PROVE  setups' = setups
  BY <1>1 DEF Clears, StartCluster, StopRebalance, ClearSingleCluster, FailOverAndEjectAll, Ejects,
        RestCallToAux, RestCallToAuxTimeout, ResetMaster, NewSessionFails, Prepares, GetVersion,
        Configure, Waits, PollJoinReadyAll, PollJoinReadyAllTimeout, manager
<1>2. ASSUME NEW h \in Handler, Joins(h) \/ Finishes(h)
      PROVE  setups' = setups
  BY <1>2 DEF Joins, AddNodes, Rebalance, PollRebalance, PollRebalanceFails,
        ParseRebalanceProgressPanics, Finishes, SetupBucket, WaitForBucketReady,
        WaitForBucketReadyFails, EnableDeveloperPreview, manager
<1>3. CASE Goroutine \/ Server \/ UNCHANGED vars
  BY <1>3 DEF Goroutine, FailOver, Eject, PollJoinReady, Server, BecomeReady, RebalanceEnds,
        BucketProceeds, Left, vars, manager
<1>4. QED
  BY Cases, <1>1, <1>2, <1>3

(* A reply is final until the next request.                                *)
LEMMA RepliedStep ==
  ASSUME TypeOK, [Next]_vars, NEW h \in Handler, ~Begins(h), pc[h] \in Replied
  PROVE  pc'[h] = pc[h]
<1>1. ~Clears(h)
  BY DEF Clears, StartCluster, StopRebalance, ClearSingleCluster, FailOverAndEjectAll, Ejects,
        RestCallToAux, RestCallToAuxTimeout, ResetMaster, At, Fails, Replied
<1>2. ~Prepares(h)
  BY DEF Prepares, GetVersion, Configure, Waits, PollJoinReadyAll, PollJoinReadyAllTimeout, At,
        Fails, Replied
<1>3. ~Joins(h) /\ ~Finishes(h)
  BY DEF Joins, AddNodes, Rebalance, PollRebalance, PollRebalanceFails,
        ParseRebalanceProgressPanics, Finishes, SetupBucket, WaitForBucketReady,
        WaitForBucketReadyFails, EnableDeveloperPreview, At, Fails, Replied
<1>4. QED
  BY HandlerStep, <1>1, <1>2, <1>3

-----------------------------------------------------------------------------
(* The goroutines. *)

(* What may happen to a goroutine that ejects a node.                      *)
LEMMA KickStep ==
  ASSUME TypeOK, OneHandler, [Next]_vars, NEW s \in Run, NEW n \in Aux,
         kick'[s][n] # kick[s][n]
  PROVE  \/ kick'[s][n] = "none"
         \/ Kicking(s, n)
         \/ \E g \in Handler : At(g, "eject") /\ s = run(g) /\ kick'[s][n] = "done"
         \/ \E g \in Handler : At(g, "drop") /\ s = run(g) /\ pc'[g] = "eject"
<1> USE DEF TypeOK, HandlerType, GoroutineType
<1>1. ASSUME NEW g \in Handler, Clears(g)
      PROVE  \/ kick'[s][n] = "none"
             \/ At(g, "eject") /\ s = run(g) /\ kick'[s][n] = "done"
             \/ At(g, "drop") /\ s = run(g) /\ pc'[g] = "eject"
  <2>1. CASE FailOverAndEjectAll(g)
    <3>1. run(g) \in Run
      BY <2>1 DEF FailOverAndEjectAll, At, OneHandler, Run, Manager, run
    <3>2. /\ kick' = [kick EXCEPT ![run(g)] = mgr[g].poolsNodes]
          /\ At(g, "drop")
          /\ Goto(g, IF \A m \in Aux : mgr[g].poolsNodes[m] = "none" THEN "leave" ELSE "eject")
      BY <2>1 DEF FailOverAndEjectAll
    <3>3. s = run(g) /\ kick'[s][n] = mgr[g].poolsNodes[n]
      BY <3>1, <3>2
    <3>4. CASE \A m \in Aux : mgr[g].poolsNodes[m] = "none"
      BY <3>3, <3>4
    <3>5. CASE ~\A m \in Aux : mgr[g].poolsNodes[m] = "none"
      BY <3>2, <3>3, <3>5 DEF Goto
    <3>6. QED
      BY <3>4, <3>5
  <2>2. CASE Ejects(g)
    <3>1. PICK m \in Aux : At(g, "eject") /\ Kick(run(g), m, "done")
      BY <2>2 DEF Ejects, RestCallToAux, RestCallToAuxTimeout, gor
    <3>2. QED
      BY <3>1 DEF Kick
  <2>3. QED
    BY <1>1, <2>1, <2>2 DEF Clears, StartCluster, StopRebalance, ClearSingleCluster, ResetMaster,
          gor
<1>2. ASSUME NEW g \in Handler, NewSessionFails(g)
      PROVE  kick'[s][n] = "none"
  BY <1>2 DEF NewSessionFails
<1>3. ASSUME NEW g \in Handler, Begins(g) \/ Prepares(g) \/ Joins(g) \/ Finishes(g)
      PROVE  FALSE
  BY <1>3 DEF Begins, SetupCluster, Prepares, GetVersion, Configure, Waits, PollJoinReadyAll,
        PollJoinReadyAllTimeout, Joins, AddNodes, Rebalance, PollRebalance, PollRebalanceFails,
        ParseRebalanceProgressPanics, Finishes, SetupBucket, WaitForBucketReady,
        WaitForBucketReadyFails, EnableDeveloperPreview, gor
<1>4. CASE Goroutine
  <2>1. PICK t \in Run, m \in Aux : FailOver(t, m) \/ Eject(t, m)
    BY <1>4 DEF Goroutine, PollJoinReady
  <2>2. /\ Kicking(t, m)
        /\ \E k \in {"eject", "good", "bad"} : Kick(t, m, k)
    BY <2>1 DEF FailOver, Eject, Kicking
  <2>3. QED
    BY <2>2 DEF Kick
<1>5. CASE Server \/ UNCHANGED vars
  BY <1>5 DEF Server, BecomeReady, RebalanceEnds, BucketProceeds, Left, vars, gor
<1>6. QED
  BY Cases, <1>1, <1>2, <1>3, <1>4, <1>5

LEMMA OneHandlerStep ==
  ASSUME TypeOK, OneHandler, [Next]_vars
  PROVE  OneHandler'
<1>0. setups \in Nat /\ \A h \in Handler : run(h) \in 0..setups
  BY DEF OneHandler, TypeOK, HandlerType
<1>1. ASSUME NEW g \in Handler, Begins(g)
      PROVE  OneHandler'
  <2>1. /\ setups' = setups + 1 /\ run(g)' = setups + 1 /\ kick' = kick
        /\ \A h \in Handler \ {g} : run(h)' = run(h) /\ pc'[h] = pc[h]
    BY <1>1, BeginsStep DEF run
  <2>2. \A h \in Handler : run(h)' \in 0..setups' /\ (pc'[h] # "idle" => run(h)' # 0)
    BY <1>0, <2>1 DEF OneHandler
  <2>3. \A h, k \in Handler : run(h)' = run(k)' /\ run(h)' # 0 => h = k
    BY <1>0, <2>1 DEF OneHandler
  <2>4. \A s \in Run, n \in Aux : s > setups' => kick'[s][n] = "none"
    BY <1>0, <2>1, SetupAssumption DEF OneHandler, Run
  <2>5. QED
    BY <2>2, <2>3, <2>4 DEF OneHandler
<1>2. CASE \A h \in Handler : ~Begins(h)
  <2>1. setups' = setups /\ \A h \in Handler : run(h)' = run(h)
    BY <1>2, SetupsStep, ManagerStep
  <2>2. \A h \in Handler : pc[h] = "idle" => pc'[h] = "idle"
    BY <1>2, RepliedStep DEF Replied
  <2>3. ASSUME NEW s \in Run, NEW n \in Aux, s > setups
        PROVE  kick'[s][n] = "none"
    <3>1. kick[s][n] = "none" /\ \A g \in Handler : s # run(g)
      BY <1>0, <2>3 DEF OneHandler, Run
    <3>2. QED
      BY <3>1, KickStep DEF Kicking
  <2>4. QED
    BY <2>1, <2>2, <2>3 DEF OneHandler
<1>3. QED
  BY <1>1, <1>2

(* The last report ends the wait for the nodes that are ejected.           *)
LEMMA EjectEnds ==
  ASSUME TypeOK, OneHandler, [Next]_vars, NEW h \in Handler, At(h, "eject"),
         pc'[h] \in Place \ {"eject", "err", "dead"}
  PROVE  /\ pc'[h] = "leave"
         /\ \A n \in Aux : kick'[run(h)][n] \in {"none", "done"}
<1>1. ~Begins(h) /\ ~Prepares(h)
  BY BeginsStep DEF At, Replied, Prepares, GetVersion, Configure, Waits, PollJoinReadyAll,
       PollJoinReadyAllTimeout, Fails
<1>2. ~Joins(h) /\ ~Finishes(h)
  BY DEF At, Joins, AddNodes, Rebalance, PollRebalance, PollRebalanceFails,
        ParseRebalanceProgressPanics, Finishes, SetupBucket, WaitForBucketReady,
        WaitForBucketReadyFails, EnableDeveloperPreview, Fails
<1>3. PICK m \in Aux : RestCallToAux(h, m)
  BY HandlerStep, <1>1, <1>2 DEF At, Clears, StartCluster, StopRebalance, ClearSingleCluster,
        FailOverAndEjectAll, Ejects, RestCallToAuxTimeout, ResetMaster, Fails, Goto, TypeOK,
        HandlerType
<1>4. /\ pc'[h] = "leave" /\ \A k \in Aux \ {m} : kick[run(h)][k] \in {"none", "done"}
  BY <1>3 DEF RestCallToAux, Goto, TypeOK, HandlerType
<1>5. run(h) \in Run
  BY DEF At, OneHandler, TypeOK, Manager, Run, run
<1>6. QED
  BY <1>3, <1>4, <1>5 DEF RestCallToAux, Kick, TypeOK, GoroutineType

LEMMA EjectedFirstStep ==
  ASSUME TypeOK, OneHandler, EjectedFirst, [Next]_vars
  PROVE  EjectedFirst'
<1> DEFINE Past == (Clearing \cup Building \cup {"ok"}) \ {"eject"}
<1> SUFFICES ASSUME NEW h \in Handler, pc'[h] \in Past, NEW n \in Aux
             PROVE  kick'[run(h)'][n] \notin {"failover", "eject"}
  BY DEF EjectedFirst, Kicking, run
<1>1. CASE Begins(h)
  <2>1. kick' = kick /\ run(h)' = setups + 1 /\ setups' = setups + 1
    BY <1>1, BeginsStep
  <2>2. setups + 1 \in Run /\ setups \in Nat
    BY <2>1, HandlerTypeStep, SetupAssumption DEF TypeOK, HandlerType, Run
  <2>3. kick[setups + 1][n] = "none"
    BY <2>2 DEF OneHandler
  <2>4. QED
    BY <2>1, <2>3 DEF Kicking
<1>2. CASE ~Begins(h)
  <2>1. run(h)' = run(h)
    BY <1>2, ManagerStep
  <2>2. pc[h] \in Past \/ (At(h, "eject") /\ pc'[h] = "leave")
    <3>1. CASE pc[h] \in Replied
      BY <1>2, <3>1, RepliedStep
    <3>2. CASE At(h, "eject")
      <4>1. pc'[h] \in Place \ {"eject", "err", "dead"}
        BY DEF Place, Replied, Clearing, Building
      <4>2. QED
        BY <3>2, <4>1, EjectEnds
    <3>3. QED
      BY <3>1, <3>2 DEF TypeOK, HandlerType, Place, At
  <2>3. CASE At(h, "eject") /\ pc'[h] = "leave"
    BY <2>1, <2>3, EjectEnds DEF Kicking, Place, Clearing
  <2>4. CASE pc[h] \in Past
    <3>1. run(h) \in Run /\ run(h) # 0
      BY <2>4 DEF OneHandler, TypeOK, Manager, Run, run, Clearing, Building
    <3>2. ~Kicking(run(h), n)
      BY <2>4 DEF EjectedFirst
    <3>3. ASSUME NEW g \in Handler, At(g, "drop"), run(h) = run(g), pc'[g] = "eject"
          PROVE  FALSE
      BY <3>1, <3>3 DEF OneHandler
    <3>4. QED
      BY <2>1, <3>1, <3>2, <3>3, KickStep DEF Kicking
  <2>5. QED
    BY <2>2, <2>3, <2>4
<1>3. QED
  BY <1>1, <1>2

(* What may happen to a goroutine that waits for a node to be ready.       *)
LEMMA PollStep ==
  ASSUME TypeOK, OneHandler, Counted, [Next]_vars, NEW s \in Run, NEW n \in Aux,
         poll'[s][n] # poll[s][n]
  PROVE  \/ poll'[s][n] = "none"
         \/ \E g \in Handler : /\ At(g, "poll") /\ s = run(g) /\ poll'[s][n] = "done"
                               /\ pc'[g] # "err" => poll[s][n] = "good"
         \/ /\ poll[s][n] = "ask" /\ poll'[s][n] \in {"good", "bad"}
            /\ poll'[s][n] = "good" => ready[n] /\ ready' = ready
         \/ \E g \in Handler : /\ At(g, "configure") /\ s = run(g) /\ pc'[g] = "poll"
                               /\ poll'[s][n] = "ask"
<1> USE DEF TypeOK, HandlerType, GoroutineType
<1>1. ASSUME NEW g \in Handler, Prepares(g)
      PROVE  \/ /\ At(g, "poll") /\ s = run(g) /\ poll'[s][n] = "done"
                /\ pc'[g] # "err" => poll[s][n] = "good"
             \/ /\ At(g, "configure") /\ s = run(g) /\ pc'[g] = "poll"
                /\ poll'[s][n] = "ask"
  <2>1. CASE Configure(g)
    <3>1. run(g) \in Run
      BY <2>1 DEF Configure, At, OneHandler, Run, Manager, run
    <3>2. /\ poll' = [poll EXCEPT ![run(g)] = [m \in Aux |-> "ask"]]
          /\ At(g, "configure") /\ Goto(g, IF Aux = {} THEN "rebalance" ELSE "poll")
      BY <2>1 DEF Configure
    <3>3. QED
      BY <3>1, <3>2 DEF Goto
  <2>2. CASE Waits(g)
    <3>1. PICK m \in Aux : PollJoinReadyAll(g, m)
      BY <2>2 DEF Waits, PollJoinReadyAllTimeout, gor
    <3>2. /\ At(g, "poll") /\ poll' = [poll EXCEPT ![run(g)][m] = "done"]
          /\ pc'[g] # "err" => poll[run(g)][m] = "good"
      BY <3>1 DEF PollJoinReadyAll, Goto
    <3>3. s = run(g) /\ n = m
      BY <3>2
    <3>4. QED
      BY <3>2, <3>3
  <2>3. QED
    BY <1>1, <2>1, <2>2 DEF Prepares, GetVersion, gor
<1>2. ASSUME NEW g \in Handler, NewSessionFails(g)
      PROVE  poll'[s][n] = "none"
  BY <1>2 DEF NewSessionFails
<1>3. ASSUME NEW g \in Handler, Begins(g) \/ Clears(g)
      PROVE  FALSE
  BY <1>3 DEF Begins, SetupCluster, Clears, StartCluster, StopRebalance, ClearSingleCluster,
        FailOverAndEjectAll, Ejects, RestCallToAux, RestCallToAuxTimeout, ResetMaster, gor
<1>4. ASSUME NEW g \in Handler, Joins(g) \/ Finishes(g)
      PROVE  FALSE
  BY <1>4 DEF Joins, AddNodes, Rebalance, PollRebalance, PollRebalanceFails,
        ParseRebalanceProgressPanics, Finishes, SetupBucket, WaitForBucketReady,
        WaitForBucketReadyFails, EnableDeveloperPreview, gor
<1>5. CASE Goroutine
  <2>1. PICK t \in Run, m \in Aux : PollJoinReady(t, m)
    BY <1>5 DEF Goroutine, FailOver, Eject
  <2>2. poll[t][m] = "ask" /\ ready' = ready
    BY <2>1 DEF PollJoinReady, server
  <2>3. PICK r \in {"good", "bad"} : (r = "good" => ready[m]) /\ poll' = [poll EXCEPT ![t][m] = r]
    BY <2>1 DEF PollJoinReady
  <2>4. t = s /\ m = n
    BY <2>3
  <2>5. QED
    BY <2>2, <2>3, <2>4
<1>6. CASE Server \/ UNCHANGED vars
  BY <1>6 DEF Server, BecomeReady, RebalanceEnds, BucketProceeds, Left, vars, gor
<1>7. QED
  BY Cases, <1>1, <1>2, <1>3, <1>4, <1>5, <1>6

(* Where a handler may be once it polls no more, and how it got there.     *)
After == {"add"} \cup Joining \cup Final

LEMMA AfterEntered ==
  ASSUME TypeOK, [Next]_vars, NEW h \in Handler, pc[h] \notin After, pc'[h] \in After
  PROVE  \/ /\ At(h, "poll") /\ pc'[h] = "add" /\ UNCHANGED <<mgr, ready, clean, applied, member>>
            /\ \E m \in Aux : /\ poll[run(h)][m] = "good"
                              /\ poll' = [poll EXCEPT ![run(h)][m] = "done"]
                              /\ \A k \in Aux \ {m} : poll[run(h)][k] = "done"
         \/ Configure(h) /\ Aux = {} /\ pc'[h] = "rebalance"
<1> USE DEF TypeOK, HandlerType
<1>1. ~Begins(h) /\ ~Clears(h)
  <2>1. ASSUME Begins(h) PROVE FALSE
    BY <2>1, BeginsStep DEF After, Joining, Final
  <2>2. ASSUME Clears(h) PROVE FALSE
    BY <2>2 DEF Clears, StartCluster, StopRebalance, ClearSingleCluster, FailOverAndEjectAll,
          Ejects, RestCallToAux, RestCallToAuxTimeout, ResetMaster, Goto, Fails, After, Joining,
          Final
  <2>3. QED
    BY <2>1, <2>2
<1>2. ~Joins(h) /\ ~Finishes(h)
  BY DEF Joins, AddNodes, Rebalance, PollRebalance, PollRebalanceFails,
        ParseRebalanceProgressPanics, Finishes, SetupBucket, WaitForBucketReady,
        WaitForBucketReadyFails, EnableDeveloperPreview, At, Fails, After, Joining, Final
<1>3. Prepares(h)
  BY HandlerStep, <1>1, <1>2 DEF After, Joining, Final
<1>4. CASE Configure(h)
  BY <1>4 DEF Configure, Goto, Fails, After, Joining, Final
<1>5. CASE Waits(h)
  <2>1. PICK m \in Aux : PollJoinReadyAll(h, m)
    BY <1>5 DEF Waits, PollJoinReadyAllTimeout, Fails, Goto, After, Joining, Final
  <2>2. /\ poll[run(h)][m] # "bad" /\ pc'[h] = "add"
        /\ \A k \in Aux \ {m} : poll[run(h)][k] = "done"
    BY <2>1 DEF PollJoinReadyAll, Goto, After, Joining, Final
  <2>3. QED
    BY <2>1, <2>2 DEF PollJoinReadyAll, manager, server
<1>6. CASE GetVersion(h)
  BY <1>6 DEF GetVersion, Goto, Fails, After, Joining, Final
<1>7. QED
  BY <1>3, <1>4, <1>5, <1>6 DEF Prepares

(* No goroutine of a setup that polls no more is left.                     *)
Drained ==
  \A h \in Handler : pc[h] \in After =>
    \A n \in Aux : poll[run(h)][n] \notin {"ask", "good", "bad"}

LEMMA DrainedStep ==
  ASSUME TypeOK, OneHandler, Counted, Drained, [Next]_vars
  PROVE  Drained'
<1> SUFFICES ASSUME NEW h \in Handler, pc'[h] \in After, NEW n \in Aux
             PROVE  poll'[run(h)'][n] \notin {"ask", "good", "bad"}
  BY DEF Drained, run
<1>1. ~Begins(h)
  BY BeginsStep DEF After, Joining, Final
<1>2. run(h)' = run(h)
  BY <1>1, ManagerStep
<1>3. pc[h] # "idle"
  BY <1>1, RepliedStep DEF Replied, After, Joining, Final
<1>4. run(h) \in Run /\ run(h) # 0
  BY <1>3 DEF OneHandler, TypeOK, Manager, Run, run
<1>5. CASE pc[h] \in After
  <2>1. poll[run(h)][n] \notin {"ask", "good", "bad"}
    BY <1>5 DEF Drained
  <2>2. ASSUME NEW g \in Handler, At(g, "configure"), run(h) = run(g)
        PROVE  FALSE
    BY <1>4, <1>5, <2>2 DEF OneHandler, At, After, Joining, Final
  <2>3. QED
    BY <1>2, <1>4, <2>1, <2>2, PollStep
<1>6. CASE pc[h] \notin After
  BY <1>2, <1>4, <1>6, AfterEntered DEF TypeOK, GoroutineType
<1>7. QED
  BY <1>5, <1>6

-----------------------------------------------------------------------------
(* The counters of a manager. *)

LEMMA ConfigureStep ==
  ASSUME TypeOK, Counted, NEW h \in Handler, Configure(h), pc'[h] \notin {"err", "panic"}
  PROVE  /\ At(h, "configure") /\ applied' = applied \cup {Head(mgr[h].plan)}
         /\ mgr'[h].plan = Tail(mgr[h].plan) /\ clean' = clean
         /\ \/ pc'[h] = "configure" /\ Tail(mgr[h].plan) # <<>>
            \/ pc'[h] = "poll" /\ Tail(mgr[h].plan) = <<>>
               /\ \A s \in {run(h)} \cap Run, n \in Aux : poll'[s][n] = "ask"
            \/ pc'[h] = "rebalance" /\ Tail(mgr[h].plan) = <<>> /\ Aux = {}
<1>1. mgr[h].plan \in Seq(Setting) /\ mgr[h].plan # <<>>
  BY DEF TypeOK, Manager, Configure, Counted, At
<1>2. Len(mgr[h].plan) > 1 <=> Tail(mgr[h].plan) # <<>>
  BY <1>1, TailOfPlan
<1>3. /\ At(h, "configure") /\ clean' = clean /\ applied' = applied \cup {Head(mgr[h].plan)}
      /\ mgr' = [mgr EXCEPT ![h].plan = Tail(mgr[h].plan)]
      /\ IF Len(mgr[h].plan) > 1 THEN Goto(h, "configure") /\ poll' = poll
         ELSE /\ Goto(h, IF Aux = {} THEN "rebalance" ELSE "poll")
              /\ poll' = [poll EXCEPT ![run(h)] = [n \in Aux |-> "ask"]]
  BY DEF Configure, Fails, Goto, TypeOK, HandlerType
<1>4. mgr'[h].plan = Tail(mgr[h].plan)
  BY <1>3 DEF TypeOK, Manager
<1>5. CASE Len(mgr[h].plan) > 1
  BY <1>2, <1>3, <1>4, <1>5 DEF Goto, TypeOK, HandlerType
<1>6. CASE ~(Len(mgr[h].plan) > 1)
  <2>1. \A s \in {run(h)} \cap Run, n \in Aux : poll'[s][n] = "ask"
    BY <1>3, <1>6 DEF TypeOK, GoroutineType
  <2>2. pc'[h] = IF Aux = {} THEN "rebalance" ELSE "poll"
    BY <1>3, <1>6 DEF Goto, TypeOK, HandlerType
  <2>3. QED
    BY <1>2, <1>3, <1>4, <1>6, <2>1, <2>2
<1>7. QED
  BY <1>5, <1>6

(* One attempt to add a node ends with the node added, or with an error or *)
(* another attempt.                                                        *)
LEMMA AddNodesStep ==
  ASSUME TypeOK, Counted, NEW h \in Handler, AddNodes(h)
  PROVE  /\ At(h, "add") /\ mgr[h].next \in Aux /\ mgr'[h].round = mgr[h].round
         /\ \/ pc'[h] = "err"
            \/ pc'[h] = "add" /\ mgr'[h].next = mgr[h].next
            \/ /\ member'[mgr[h].next] = "added" /\ mgr'[h].next = mgr[h].next + 1
               /\ pc'[h] = IF mgr[h].next = N THEN "rebalance" ELSE "add"
<1>1. At(h, "add") /\ mgr[h].next \in Aux
  BY DEF AddNodes, Counted, At
<1>2. CASE AddNode(mgr[h].next, TRUE) /\ Added(h)
  <2>1. member'[mgr[h].next] = "added"
    BY <1>1, <1>2 DEF AddNode, TypeOK, ServerType
  <2>2. mgr'[h].next = mgr[h].next + 1 /\ mgr'[h].round = mgr[h].round
    BY <1>2 DEF Added, TypeOK, Manager
  <2>3. pc'[h] = IF mgr[h].next = N THEN "rebalance" ELSE "add"
    BY <1>2 DEF Added, Goto, TypeOK, HandlerType
  <2>4. QED
    BY <1>1, <2>1, <2>2, <2>3
<1>3. CASE mgr' = [mgr EXCEPT ![h].again = TRUE] /\ pc' = pc
  BY <1>1, <1>3 DEF At, TypeOK, Manager
<1>4. CASE Goto(h, "err") /\ mgr' = mgr
  BY <1>1, <1>4 DEF Goto, TypeOK, HandlerType
<1>5. QED
  BY <1>2, <1>3, <1>4 DEF AddNodes

(* A rebalance that fails is counted.                                      *)
LEMMA RebalanceLoopStep ==
  ASSUME TypeOK, Counted, NEW h \in Handler, NEW failed \in BOOLEAN,
         At(h, "pollRebalance"), RebalanceLoop(h, failed)
  PROVE  /\ ~failed => mgr'[h].round = mgr[h].round /\ pc'[h] = "bucket"
         /\ failed => /\ mgr'[h].round = mgr[h].round + 1
                      /\ pc'[h] = IF mgr[h].round + 1 < numRetry THEN "rebalance" ELSE "bucket"
<1>1. CASE failed
  BY <1>1 DEF RebalanceLoop, Goto, TypeOK, HandlerType, Manager
<1>2. CASE ~failed
  BY <1>2 DEF RebalanceLoop, Goto, TypeOK, HandlerType
<1>3. QED
  BY <1>1, <1>2

LEMMA CountedStep ==
  ASSUME TypeOK, Counted, [Next]_vars
  PROVE  Counted'
<1> USE SetupAssumption
<1> SUFFICES ASSUME NEW h \in Handler
             PROVE  /\ pc'[h] = "configure" => mgr'[h].plan # <<>>
                    /\ pc'[h] \in Clearing \cup {"version", "configure", "poll"} => mgr'[h].next = 2
                    /\ pc'[h] = "add" => mgr'[h].next \in Aux
                    /\ pc'[h] \in Clearing \cup {"version", "configure", "poll", "add"}
                         => mgr'[h].round = 0
                    /\ pc'[h] \in Joining => mgr'[h].round < numRetry
  BY DEF Counted, At
<1>0. /\ At(h, "configure") => mgr[h].plan # <<>>
      /\ pc[h] \in Clearing \cup {"version", "configure", "poll"} => mgr[h].next = 2
      /\ At(h, "add") => mgr[h].next \in Aux
      /\ pc[h] \in Clearing \cup {"version", "configure", "poll", "add"} => mgr[h].round = 0
      /\ pc[h] \in Joining => mgr[h].round < numRetry
  BY DEF Counted
<1>1. CASE Begins(h)
  BY <1>1, BeginsStep DEF Clearing, Joining
<1>2. CASE Clears(h)
  <2>1. pc[h] \in Clearing /\ pc'[h] \in Clearing \cup {"version", "err", "panic"}
    BY <1>2 DEF Clears, StartCluster, StopRebalance, ClearSingleCluster, FailOverAndEjectAll,
          Ejects, RestCallToAux, RestCallToAuxTimeout, ResetMaster, At, Fails, Goto, TypeOK,
          HandlerType, Clearing
  <2>2. ~Begins(h) /\ ~AddNodes(h) /\ ~PollRebalance(h) /\ ~PollRebalanceFails(h)
    BY <2>1, BeginsStep DEF Replied, Clearing, AddNodes, PollRebalance, PollRebalanceFails,
          ParseRebalanceProgressPanics, At
  <2>3. mgr'[h].next = 2 /\ mgr'[h].round = 0
    BY <1>0, <2>1, <2>2, ManagerStep
  <2>4. QED
    BY <2>1, <2>3 DEF Clearing, Joining
<1>3. CASE Prepares(h)
  <2>1. pc[h] \in {"version", "configure", "poll"}
    BY <1>3 DEF Prepares, GetVersion, Configure, Waits, PollJoinReadyAll, PollJoinReadyAllTimeout,
          At, Fails
  <2>2. ~Begins(h) /\ ~AddNodes(h) /\ ~PollRebalance(h) /\ ~PollRebalanceFails(h)
    BY <2>1, BeginsStep DEF Replied, AddNodes, PollRebalance, PollRebalanceFails,
          ParseRebalanceProgressPanics, At
  <2>3. mgr'[h].next = 2 /\ mgr'[h].round = 0
    BY <1>0, <2>1, <2>2, ManagerStep
  <2>4. CASE GetVersion(h)
    <3>1. pc'[h] = "configure" => mgr'[h].plan = Plan(conf(h))
      BY <2>4 DEF GetVersion, Fails, Goto, TypeOK, HandlerType, Manager
    <3>2. pc'[h] \in {"configure", "err"}
      BY <2>4 DEF GetVersion, Fails, Goto, TypeOK, HandlerType
    <3>3. Plan(conf(h)) # <<>>
      BY PlanTyped
    <3>4. QED
      BY <2>3, <3>1, <3>2, <3>3 DEF Clearing, Joining
  <2>5. CASE Configure(h)
    <3>1. CASE pc'[h] \in {"err", "panic"}
      BY <3>1 DEF Clearing, Joining
    <3>2. CASE pc'[h] \notin {"err", "panic"}
      <4>1. /\ pc'[h] \in {"configure", "poll", "rebalance"}
            /\ pc'[h] = "configure" => mgr'[h].plan # <<>>
        BY <2>5, <3>2, ConfigureStep
      <4>2. QED
        BY <2>3, <4>1 DEF Clearing, Joining, numRetry
    <3>3. QED
      BY <3>1, <3>2
  <2>6. CASE Waits(h)
    <3>1. \/ pc'[h] = "err"
          \/ pc'[h] \in {"add", "poll"} /\ \E m \in Aux : TRUE
      BY <2>6 DEF Waits, PollJoinReadyAll, PollJoinReadyAllTimeout, Fails, Goto, TypeOK, HandlerType
    <3>2. (\E m \in Aux : TRUE) => 2 \in Aux
      BY DEF Aux
    <3>3. QED
      BY <2>3, <3>1, <3>2 DEF Clearing, Joining
  <2>7. QED
    BY <1>3, <2>4, <2>5, <2>6 DEF Prepares
<1>4. CASE AddNodes(h)
  <2>1. mgr[h].next \in Aux /\ mgr'[h].round = 0
    BY <1>0, <1>4, AddNodesStep DEF At
  <2>2. mgr[h].next # N => mgr[h].next + 1 \in Aux
    BY <2>1 DEF Aux
  <2>3. QED
    BY <1>4, <2>1, <2>2, AddNodesStep DEF Clearing, Joining, numRetry
<1>5. CASE PollRebalance(h) \/ PollRebalanceFails(h)
  <2>1. PICK failed \in BOOLEAN : RebalanceLoop(h, failed) /\ At(h, "pollRebalance")
    BY <1>5 DEF PollRebalance, PollRebalanceFails, ParseRebalanceProgressPanics, TypeOK, ServerType
  <2>2. QED
    BY <2>1, RebalanceLoopStep DEF Clearing, Joining
<1>6. CASE Rebalance(h) \/ ParseRebalanceProgressPanics(h)
  BY <1>0, <1>6 DEF Rebalance, ParseRebalanceProgressPanics, At, Fails, Goto, TypeOK, HandlerType,
        manager, Clearing, Joining
<1>7. CASE Finishes(h)
  <2>1. pc'[h] \in {"waitBucket", "preview", "ok", "err", "panic"}
    BY <1>7 DEF Finishes, SetupBucket, WaitForBucketReady, WaitForBucketReadyFails, AfterBucket,
          EnableDeveloperPreview, Fails, Goto, TypeOK, HandlerType
  <2>2. QED
    BY <2>1 DEF Clearing, Joining
<1>8. CASE mgr'[h] = mgr[h] /\ (pc'[h] = pc[h] \/ pc'[h] = "dead")
  BY <1>0, <1>8 DEF At, Clearing, Joining
<1>9. QED
  BY HandlerStep, <1>1, <1>2, <1>3, <1>4, <1>5, <1>6, <1>7, <1>8 DEF Joins

-----------------------------------------------------------------------------
(* What a step leaves of a setup that it does not spoil. *)

LEMMA CleanStep ==
  ASSUME TypeOK, [Next]_vars, NEW h \in Handler, ~Begins(h), clean'[h]
  PROVE  clean[h]
<1> USE DEF TypeOK, HandlerType
<1>1. ASSUME NEW g \in Handler, Begins(g)
      PROVE  clean[h]
  BY <1>1, BeginsStep
<1>2. ASSUME NEW g \in Handler, Clears(g)
      PROVE  clean[h]
  BY <1>2 DEF Clears, StartCluster, StopRebalance, ClearSingleCluster, FailOverAndEjectAll,
        DeleteBuckets, Ejects, RestCallToAux, RestCallToAuxTimeout, ResetMaster, Spoil
<1>3. ASSUME NEW g \in Handler, NewSessionFails(g) \/ Prepares(g) \/ Finishes(g)
      PROVE  clean[h]
  BY <1>3 DEF NewSessionFails, Prepares, GetVersion, Configure, Waits, PollJoinReadyAll,
        PollJoinReadyAllTimeout, Finishes, SetupBucket, WaitForBucketReady,
        WaitForBucketReadyFails, EnableDeveloperPreview
<1>4. ASSUME NEW g \in Handler, Joins(g)
      PROVE  clean[h]
  BY <1>4 DEF Joins, AddNodes, Rebalance, PollRebalance, PollRebalanceFails,
        ParseRebalanceProgressPanics
<1>5. CASE Goroutine \/ Server \/ UNCHANGED vars
  BY <1>5 DEF Goroutine, FailOver, Eject, PollJoinReady, Server, BecomeReady, RebalanceEnds,
        BucketProceeds, Left, Spoil, vars
<1>6. QED
  BY Cases, <1>1, <1>2, <1>3, <1>4, <1>5

(* Once a setup has begun to configure, what it has built can only grow.   *)
Late == {"configure", "poll"} \cup After

LEMMA Kept ==
  ASSUME TypeOK, OneHandler, Counted, EjectedFirst, [Next]_vars,
         NEW h \in Handler, pc[h] \in Late, pc'[h] \in Late, clean'[h]
  PROVE  /\ applied \subseteq applied'
         /\ \A n \in Aux : (Joined(n) => Joined(n)') /\ (member[n] = "active" => member'[n] = "active")
         /\ \A n \in Aux : ready[n] => ready'[n]
         /\ bucket # "none" => bucket' # "none"
         /\ /\ At(h, "pollRebalance") /\ rebal' = "idle" /\ ~rebalErr'
            => \/ rebal = "idle" /\ ~rebalErr
               \/ \A n \in Aux : Joined(n) => member'[n] = "active"
<1> DEFINE Grows == /\ applied \subseteq applied'
                    /\ \A n \in Aux : /\ member[n] \in {"added", "active"} => member'[n] \in {"added", "active"}
                                      /\ member[n] = "active" => member'[n] = "active"
                    /\ \A n \in Aux : ready[n] => ready'[n]
                    /\ bucket # "none" => bucket' # "none"
           Rests == /\ At(h, "pollRebalance") /\ rebal' = "idle" /\ ~rebalErr'
                    => \/ rebal = "idle" /\ ~rebalErr
                       \/ \A n \in Aux : member[n] \in {"added", "active"} => member'[n] = "active"
<1> SUFFICES Grows /\ Rests
  BY DEF Joined
<1>0. /\ run(h) \in Run /\ run(h) # 0 /\ pc[h] \notin Clearing \cup {"version"}
      /\ \A n \in Aux : ~Kicking(run(h), n)
      /\ \A g \in Handler : pc[g] \in Clearing => run(g) # run(h)
  BY DEF OneHandler, EjectedFirst, TypeOK, Manager, Run, run, Late, After, Joining, Final, Clearing,
       Building
<1>1. ASSUME NEW s, Spoil(s), s # run(h)
      PROVE  FALSE
  BY <1>0, <1>1 DEF Spoil
<1>2. ASSUME NEW g \in Handler, Begins(g)
      PROVE  Grows /\ Rests
  BY <1>2, BeginsStep
<1>3. ASSUME NEW g \in Handler, Clears(g)
      PROVE  Grows /\ Rests
  <2>1. run(g) # run(h)
    <3>1. pc[g] \in Clearing
      BY <1>3 DEF Clears, StartCluster, StopRebalance, ClearSingleCluster, FailOverAndEjectAll,
            Ejects, RestCallToAux, RestCallToAuxTimeout, ResetMaster, At, Fails, Clearing
    <3>2. QED
      BY <1>0, <3>1
  <2>2. CASE StopRebalance(g)
    BY <1>1, <2>1, <2>2 DEF StopRebalance, TypeOK, ServerType
  <2>3. CASE FailOverAndEjectAll(g)
    BY <1>1, <2>1, <2>3 DEF FailOverAndEjectAll, DeleteBuckets
  <2>4. QED
    BY <1>3, <2>2, <2>3 DEF Clears, StartCluster, ClearSingleCluster, Ejects, RestCallToAux,
          RestCallToAuxTimeout, ResetMaster, server
<1>4. ASSUME NEW g \in Handler, NewSessionFails(g)
      PROVE  Grows /\ Rests
  BY <1>4 DEF NewSessionFails, server
<1>5. ASSUME NEW g \in Handler, Prepares(g)
      PROVE  Grows /\ Rests
  BY <1>5 DEF Prepares, GetVersion, Configure, Waits, PollJoinReadyAll, PollJoinReadyAllTimeout,
        server
<1>6. ASSUME NEW g \in Handler, Joins(g)
      PROVE  Grows /\ Rests
  <2>1. CASE AddNodes(g)
    <3>1. member' = member \/ \E k \in Aux : member[k] # "active" /\ member' = [member EXCEPT ![k] = "added"]
      BY <2>1, AddNodesStep DEF AddNodes, AddNode
    <3>2. QED
      BY <2>1, <3>1 DEF AddNodes, TypeOK, ServerType
  <2>2. CASE Rebalance(g)
    <3>1. UNCHANGED <<rebal, rebalErr>> \/ rebal' = "running"
      BY <2>2 DEF Rebalance
    <3>2. QED
      BY <2>2, <3>1 DEF Rebalance
  <2>3. CASE PollRebalance(g) \/ PollRebalanceFails(g) \/ ParseRebalanceProgressPanics(g)
    <3>1. UNCHANGED <<applied, member, ready, rebal, rebalErr, bucket>>
      BY <2>3 DEF PollRebalance, PollRebalanceFails, ParseRebalanceProgressPanics, server
    <3>2. QED
      BY <3>1
  <2>4. QED
    BY <1>6, <2>1, <2>2, <2>3 DEF Joins
<1>7. ASSUME NEW g \in Handler, Finishes(g)
      PROVE  Grows /\ Rests
  BY <1>7 DEF Finishes, SetupBucket, WaitForBucketReady, WaitForBucketReadyFails,
        EnableDeveloperPreview, server
<1>8. CASE Goroutine
  <2>1. ASSUME NEW s \in Run, NEW n \in Aux, FailOver(s, n) \/ Eject(s, n)
        PROVE  Grows /\ Rests
    <3>1. s # run(h)
      BY <1>0, <2>1 DEF FailOver, Eject, Kicking
    <3>2. QED
      BY <1>1, <2>1, <3>1 DEF FailOver, Eject
  <2>2. ASSUME NEW s \in Run, NEW n \in Aux, PollJoinReady(s, n)
        PROVE  Grows /\ Rests
    BY <2>2 DEF PollJoinReady, server
  <2>3. QED
    BY <1>8, <2>1, <2>2 DEF Goroutine
<1>9. CASE Server
  <2>1. CASE Left
    BY <1>0, <1>1, <2>1 DEF Left
  <2>2. CASE \E n \in Aux : BecomeReady(n)
    BY <2>2 DEF BecomeReady, TypeOK, ServerType
  <2>3. CASE RebalanceEnds
    BY <2>3 DEF RebalanceEnds, TypeOK, ServerType
  <2>4. CASE BucketProceeds
    BY <2>4 DEF BucketProceeds
  <2>5. QED
    BY <1>9, <2>1, <2>2, <2>3, <2>4 DEF Server
<1>10. CASE UNCHANGED vars
  BY <1>10 DEF vars, server
<1>11. QED
  BY Cases, <1>2, <1>3, <1>4, <1>5, <1>6, <1>7, <1>8, <1>9, <1>10

(* The moves of one handler that Configured, Reported, Grown and Created   *)
(* are about.                                                              *)
LEMMA Moves ==
  ASSUME TypeOK, Counted, [Next]_vars, NEW h \in Handler, pc'[h] \in Late
  PROVE  /\ ~Begins(h)
         /\ pc[h] \notin Late => pc'[h] = "configure" /\ mgr'[h].plan = Plan(conf(h))
         /\ At(h, "configure") => \/ Configure(h)
                                  \/ pc'[h] = "configure" /\ mgr'[h] = mgr[h]
         /\ pc[h] \in After => pc'[h] \in After
         /\ At(h, "poll") => pc'[h] \in {"poll", "add"}
<1> USE DEF TypeOK, HandlerType
<1>1. ~Begins(h)
  BY BeginsStep DEF Late, After, Joining, Final
<1>2. ~Clears(h)
  BY DEF Clears, StartCluster, StopRebalance, ClearSingleCluster, FailOverAndEjectAll, Ejects,
        RestCallToAux, RestCallToAuxTimeout, ResetMaster, Goto, Fails, Late, After, Joining, Final
<1>3. CASE GetVersion(h)
  <2>1. /\ At(h, "version") /\ pc'[h] = "configure"
        /\ mgr' = [mgr EXCEPT ![h].plan = Plan(conf(h))]
    BY <1>3 DEF GetVersion, Fails, Goto, Late, After, Joining, Final
  <2>2. mgr'[h].plan = Plan(conf(h))
    BY <2>1 DEF Manager
  <2>3. QED
    BY <1>1, <2>1, <2>2 DEF At, Late, After, Joining, Final
<1>4. CASE Configure(h)
  <2>1. At(h, "configure")
    BY <1>4 DEF Configure
  <2>2. QED
    BY <1>1, <1>4, <2>1 DEF At, Late, After, Joining, Final
<1>5. CASE Waits(h)
  <2>1. At(h, "poll") /\ pc'[h] \in {"poll", "add"}
    BY <1>5 DEF Waits, PollJoinReadyAll, PollJoinReadyAllTimeout, Fails, Goto, Late, After, Joining,
         Final
  <2>2. QED
    BY <1>1, <2>1 DEF At, Late, After, Joining, Final
<1>6. CASE Joins(h) \/ Finishes(h)
  <2>1. pc[h] \in After
    BY <1>6 DEF Joins, AddNodes, Rebalance, PollRebalance, PollRebalanceFails,
          ParseRebalanceProgressPanics, Finishes, SetupBucket, WaitForBucketReady,
          WaitForBucketReadyFails, EnableDeveloperPreview, At, Fails, After, Joining, Final
  <2>2. CASE Joins(h)
    BY <2>2, <1>1, <2>1 DEF Joins, AddNodes, Added, Rebalance, PollRebalance, PollRebalanceFails,
          ParseRebalanceProgressPanics, RebalanceLoop, At, Goto, Fails, Late, After, Joining, Final
  <2>3. CASE Finishes(h)
    BY <2>3, <1>1, <2>1 DEF Finishes, SetupBucket, WaitForBucketReady, WaitForBucketReadyFails,
         AfterBucket, EnableDeveloperPreview, At, Goto, Fails, Late, After, Joining, Final
  <2>4. QED
    BY <1>6, <2>2, <2>3
<1>7. CASE mgr'[h] = mgr[h] /\ pc'[h] = pc[h]
  BY <1>1, <1>7 DEF At, Late, After, Joining, Final
<1>8. QED
  BY HandlerStep, <1>1, <1>2, <1>3, <1>4, <1>5, <1>6, <1>7 DEF Prepares, Late, After, Joining, Final

LEMMA FinalMoves ==
  ASSUME TypeOK, Counted, [Next]_vars, NEW h \in Handler
  PROVE  /\ pc'[h] = "ok" /\ pc[h] # "ok" /\ conf(h).preview => "preview" \in applied'
         /\ pc'[h] \in {"waitBucket", "preview", "ok"} /\ pc[h] \notin {"waitBucket", "preview", "ok"}
              /\ conf(h).bucket = "named" => bucket' # "none"
<1> USE DEF TypeOK, HandlerType
<1>1. CASE pc'[h] \notin {"waitBucket", "preview", "ok"} \/ pc'[h] = pc[h]
  BY <1>1
<1>2. CASE pc'[h] \in {"waitBucket", "preview", "ok"} /\ pc'[h] # pc[h]
  <2>1. ~Begins(h) /\ ~Clears(h)
    <3>1. ASSUME Begins(h) PROVE FALSE
      BY <1>2, <3>1, BeginsStep
    <3>2. ASSUME Clears(h) PROVE FALSE
      BY <1>2, <3>2 DEF Clears, StartCluster, StopRebalance, ClearSingleCluster,
            FailOverAndEjectAll, Ejects, RestCallToAux, RestCallToAuxTimeout, ResetMaster, Goto,
            Fails
    <3>3. QED
      BY <3>1, <3>2
  <2>2. ~Prepares(h) /\ ~Joins(h)
    <3>1. ASSUME Prepares(h) PROVE FALSE
      BY <1>2, <3>1 DEF Prepares, GetVersion, Configure, Waits, PollJoinReadyAll,
           PollJoinReadyAllTimeout, Goto, Fails
    <3>2. ASSUME Joins(h) PROVE FALSE
      BY <1>2, <3>2 DEF Joins, AddNodes, Added, Rebalance, PollRebalance, PollRebalanceFails,
            ParseRebalanceProgressPanics, RebalanceLoop, Goto, Fails
    <3>3. QED
      BY <3>1, <3>2
  <2>3. Finishes(h)
    BY HandlerStep, <1>2, <2>1, <2>2
  <2>4. CASE SetupBucket(h)
    BY <1>2, <2>4 DEF SetupBucket, AfterBucket, At, Goto, Fails
  <2>5. CASE WaitForBucketReady(h) \/ WaitForBucketReadyFails(h)
    BY <1>2, <2>5 DEF WaitForBucketReady, WaitForBucketReadyFails, AfterBucket, At, Goto, Fails
  <2>6. CASE EnableDeveloperPreview(h)
    BY <1>2, <2>6 DEF EnableDeveloperPreview, At, Goto, Fails
  <2>7. QED
    BY <2>3, <2>4, <2>5, <2>6 DEF Finishes
<1>3. QED
  BY <1>1, <1>2

-----------------------------------------------------------------------------
(* What a setup that nothing has spoilt has achieved. *)

LEMMA ConfiguredStep ==
  ASSUME TypeOK, OneHandler, Counted, EjectedFirst, [Next]_vars,
         NEW h \in Handler, clean[h] => Configured(h), clean'[h]
  PROVE  Configured(h)'
<1>1. CASE pc'[h] \notin Late
  BY <1>1 DEF Configured, At, Late, After, Final
<1>2. CASE pc'[h] \in Late
  <2>1. ~Begins(h) /\ clean[h] /\ conf(h)' = conf(h)
    BY <1>2, Moves, CleanStep, ManagerStep
  <2>2. Configured(h)
    BY <2>1
  <2>3. pc[h] \in Late => applied \subseteq applied'
    BY <1>2, Kept
  <2>4. ASSUME pc'[h] = "configure"
        PROVE  Elems(Plan(conf(h))) \subseteq applied' \cup Elems(mgr'[h].plan)
    <3>1. CASE pc[h] \notin Late
      BY <1>2, <3>1, Moves
    <3>2. CASE Configure(h)
      <4>1. /\ At(h, "configure") /\ applied' = applied \cup {Head(mgr[h].plan)}
            /\ mgr'[h].plan = Tail(mgr[h].plan)
        BY <2>4, <3>2, ConfigureStep
      <4>2. Elems(mgr[h].plan) \subseteq {Head(mgr[h].plan)} \cup Elems(Tail(mgr[h].plan))
        BY <4>1, TailOfPlan DEF Counted, TypeOK, Manager
      <4>3. QED
        BY <2>2, <4>1, <4>2 DEF Configured
    <3>3. CASE At(h, "configure") /\ mgr'[h] = mgr[h]
      BY <2>2, <2>3, <3>3 DEF Configured, At, Late
    <3>4. QED
      BY <1>2, <2>4, <3>1, <3>2, <3>3, Moves DEF At, Late, After, Joining, Final
  <2>5. ASSUME pc'[h] \in {"poll"} \cup After
        PROVE  Elems(Plan(conf(h))) \subseteq applied'
    <3>1. pc[h] \in Late
      BY <1>2, <2>5, Moves DEF After, Joining, Final
    <3>2. CASE At(h, "configure")
      <4>1. /\ applied' = applied \cup {Head(mgr[h].plan)} /\ Tail(mgr[h].plan) = <<>>
        BY <1>2, <2>5, <3>2, Moves, ConfigureStep DEF After, Joining, Final
      <4>2. Elems(mgr[h].plan) \subseteq {Head(mgr[h].plan)} \cup Elems(Tail(mgr[h].plan))
        BY <3>2, TailOfPlan DEF Counted, TypeOK, Manager
      <4>3. Elems(<<>>) = {}
        BY DEF Elems
      <4>4. QED
        BY <2>2, <3>2, <4>1, <4>2, <4>3 DEF Configured
    <3>3. CASE pc[h] \in {"poll"} \cup After
      BY <2>2, <2>3, <3>1, <3>3 DEF Configured, After
    <3>4. QED
      BY <3>1, <3>2, <3>3 DEF Late, At
  <2>6. ASSUME pc'[h] = "ok", conf(h).preview
        PROVE  "preview" \in applied'
    <3>1. CASE At(h, "ok")
      BY <2>2, <2>3, <2>6, <3>1 DEF Configured, At, Late, After, Final
    <3>2. QED
      BY <2>6, <3>1, FinalMoves DEF At
  <2>7. QED
    BY <2>1, <2>4, <2>5, <2>6 DEF Configured, At, After
<1>3. QED
  BY <1>1, <1>2

LEMMA ReportedStep ==
  ASSUME TypeOK, OneHandler, Counted, EjectedFirst, [Next]_vars,
         NEW h \in Handler, clean[h] => Reported(h), clean'[h]
  PROVE  Reported(h)'
<1> SUFFICES ASSUME NEW n \in Aux,
                    \/ pc'[h] = "poll" /\ poll'[run(h)'][n] \in {"good", "done"}
                    \/ pc'[h] \in After
             PROVE  ready'[n]
  BY DEF Reported, At, run, After
<1>1. pc'[h] \in Late /\ ~Begins(h) /\ clean[h] /\ run(h)' = run(h)
  BY Moves, CleanStep, ManagerStep DEF Late
<1>2. pc[h] \in Late
  BY <1>1, Moves DEF After, Joining, Final
<1>3. /\ run(h) \in Run /\ run(h) # 0
      /\ ready[n] => ready'[n]
      /\ At(h, "poll") /\ poll[run(h)][n] \in {"good", "done"} => ready[n]
      /\ pc[h] \in After => ready[n]
  <2>1. run(h) \in Run /\ run(h) # 0
    BY <1>2 DEF OneHandler, TypeOK, Manager, Run, run, Late, After, Joining, Final
  <2>2. ready[n] => ready'[n]
    BY <1>1, <1>2, Kept
  <2>3. Reported(h)
    BY <1>1
  <2>4. QED
    BY <2>1, <2>2, <2>3 DEF Reported, After
<1>4. CASE pc[h] \in After
  BY <1>3, <1>4
<1>5. CASE At(h, "configure")
  <2>1. Configure(h) /\ pc'[h] \notin {"err", "panic", "configure"}
    BY <1>1, <1>5, Moves DEF After, Joining, Final
  <2>2. pc'[h] = "poll" /\ poll'[run(h)][n] = "ask"
    BY <1>3, <2>1, ConfigureStep
  <2>3. QED
    BY <1>1, <2>2 DEF After, Joining, Final
<1>6. CASE At(h, "poll") /\ pc'[h] = "poll"
  <2>1. poll'[run(h)][n] \in {"good", "done"}
    BY <1>1, <1>6 DEF After, Joining, Final
  <2>2. CASE poll'[run(h)][n] = poll[run(h)][n]
    BY <1>3, <1>6, <2>1, <2>2
  <2>3. CASE poll'[run(h)][n] # poll[run(h)][n]
    <3>1. ASSUME NEW g \in Handler, run(h) = run(g)
          PROVE  g = h
      BY <1>3, <3>1 DEF OneHandler
    <3>2. CASE poll[run(h)][n] = "ask" /\ poll'[run(h)][n] = "good"
      BY <1>3, <2>3, <3>2, PollStep
    <3>3. CASE poll'[run(h)][n] = "done"
      BY <1>3, <1>6, <2>3, <3>1, <3>3, PollStep DEF At
    <3>4. QED
      BY <1>3, <1>6, <2>1, <2>3, <3>2, <3>3, PollStep DEF At
  <2>4. QED
    BY <2>2, <2>3
<1>7. CASE At(h, "poll") /\ pc'[h] \in After
  <2>1. pc[h] \notin After
    BY <1>7 DEF At, After, Joining, Final
  <2>2. poll[run(h)][n] \in {"good", "done"}
    BY <1>7, <2>1, AfterEntered DEF Configure, At
  <2>3. QED
    BY <1>3, <1>7, <2>2
<1>8. QED
  BY <1>2, <1>4, <1>5, <1>6, <1>7 DEF Late, At

(* How a setup gets from adding nodes to the bucket.                       *)
LEMMA JoinMoves ==
  ASSUME TypeOK, Counted, [Next]_vars, NEW h \in Handler, ~Begins(h)
  PROVE  /\ pc'[h] = "add" => \/ At(h, "poll") \/ AddNodes(h)
                              \/ At(h, "add") /\ mgr'[h] = mgr[h]
         /\ pc'[h] = "pollRebalance" /\ pc[h] # "pollRebalance" => rebal' = "running"
         /\ pc'[h] \in Joining \cup Final /\ pc[h] \notin Joining \cup Final
              => AddNodes(h) \/ Aux = {}
         /\ pc'[h] \in Final /\ pc[h] \notin Final
              => \E failed \in BOOLEAN : /\ At(h, "pollRebalance") /\ RebalanceLoop(h, failed)
                                         /\ member' = member
                                         /\ ~failed => rebal = "idle" /\ ~rebalErr
         /\ pc[h] \in Final => mgr'[h].round = mgr[h].round
<1> USE DEF TypeOK, HandlerType, Joining, Final
<1>1. pc[h] \in Final => mgr'[h].round = mgr[h].round
  BY ManagerStep DEF PollRebalance, PollRebalanceFails, ParseRebalanceProgressPanics, At
<1>2. CASE Clears(h)
  <2>1. pc'[h] \in Clearing \cup {"version", "err", "panic"}
    BY <1>2 DEF Clears, StartCluster, StopRebalance, ClearSingleCluster, FailOverAndEjectAll,
          Ejects, RestCallToAux, RestCallToAuxTimeout, ResetMaster, At, Fails, Goto, Clearing
  <2>2. QED
    BY <1>1, <2>1 DEF Clearing
<1>3. CASE Prepares(h)
  <2>1. CASE GetVersion(h)
    BY <1>1, <2>1 DEF GetVersion, Fails, Goto
  <2>2. CASE Configure(h)
    BY <1>1, <2>2 DEF Configure, Fails, Goto
  <2>3. CASE Waits(h)
    BY <1>1, <2>3 DEF Waits, PollJoinReadyAll, PollJoinReadyAllTimeout, At, Fails, Goto
  <2>4. QED
    BY <1>3, <2>1, <2>2, <2>3 DEF Prepares
<1>4. CASE AddNodes(h)
  BY <1>1, <1>4, AddNodesStep DEF At
<1>5. CASE Rebalance(h) \/ ParseRebalanceProgressPanics(h)
  BY <1>1, <1>5 DEF Rebalance, ParseRebalanceProgressPanics, At, Fails, Goto
<1>6. CASE PollRebalance(h) \/ PollRebalanceFails(h)
  <2>1. PICK failed \in BOOLEAN : /\ At(h, "pollRebalance") /\ RebalanceLoop(h, failed)
                                  /\ member' = member
                                  /\ ~failed => rebal = "idle" /\ ~rebalErr
    BY <1>6 DEF PollRebalance, PollRebalanceFails, ParseRebalanceProgressPanics, server, ServerType
  <2>2. pc'[h] \in {"rebalance", "bucket"}
    BY <2>1, RebalanceLoopStep
  <2>3. QED
    BY <1>1, <2>1, <2>2 DEF At
<1>7. CASE Finishes(h)
  <2>1. pc[h] \in Final /\ pc'[h] \in {"waitBucket", "preview", "ok", "err", "panic"}
    BY <1>7 DEF Finishes, SetupBucket, WaitForBucketReady, WaitForBucketReadyFails, AfterBucket,
          EnableDeveloperPreview, At, Fails, Goto
  <2>2. QED
    BY <1>1, <2>1
<1>8. CASE mgr'[h] = mgr[h] /\ (pc'[h] = pc[h] \/ pc'[h] = "dead")
  BY <1>1, <1>8 DEF At
<1>9. QED
  BY HandlerStep, <1>2, <1>3, <1>4, <1>5, <1>6, <1>7, <1>8 DEF Joins

LEMMA GrownStep ==
  ASSUME TypeOK, OneHandler, Counted, EjectedFirst, [Next]_vars,
         NEW h \in Handler, clean[h] => Grown(h), clean'[h]
  PROVE  Grown(h)'
<1> USE SetupAssumption
<1>1. CASE pc'[h] \notin After
  BY <1>1 DEF Grown, At, After, Joining, Final
<1>2. CASE pc'[h] \in After
  <2>1. pc'[h] \in Late /\ ~Begins(h) /\ clean[h] /\ pc[h] \in Late
    BY <1>2, Moves, CleanStep DEF Late, After, Joining, Final
  <2>2. Grown(h)
    BY <2>1
  <2>3. /\ \A n \in Aux : Joined(n) => Joined(n)'
        /\ \A n \in Aux : member[n] = "active" => member'[n] = "active"
    BY <2>1, Kept
  <2>4. ASSUME NEW n \in Aux, pc'[h] = "add", n < mgr'[h].next
        PROVE  Joined(n)'
    <3>1. CASE At(h, "poll")
      <4>1. mgr'[h].next = 2
        BY <2>1, <3>1, ManagerStep DEF AddNodes, At, Counted
      <4>2. QED
        BY <2>4, <4>1 DEF Aux
    <3>2. CASE AddNodes(h)
      <4>1. /\ At(h, "add") /\ mgr[h].next \in Aux
            /\ \/ mgr'[h].next = mgr[h].next
               \/ member'[mgr[h].next] = "added" /\ mgr'[h].next = mgr[h].next + 1
        BY <2>4, <3>2, AddNodesStep
      <4>2. n < mgr[h].next \/ (n = mgr[h].next /\ member'[n] = "added")
        BY <2>4, <4>1 DEF Aux
      <4>3. QED
        BY <2>2, <2>3, <4>1, <4>2 DEF Grown, Joined
    <3>3. CASE At(h, "add") /\ mgr'[h] = mgr[h]
      BY <2>2, <2>3, <2>4, <3>3 DEF Grown
    <3>4. QED
      BY <2>1, <2>4, <3>1, <3>2, <3>3, JoinMoves
  <2>5. ASSUME NEW n \in Aux, pc'[h] \in Joining \cup Final
        PROVE  Joined(n)'
    <3>1. CASE pc[h] \in Joining \cup Final
      BY <2>2, <2>3, <3>1 DEF Grown
    <3>2. CASE pc[h] \notin Joining \cup Final
      <4>1. AddNodes(h)
        BY <2>1, <2>5, <3>2, JoinMoves
      <4>2. At(h, "add") /\ mgr[h].next = N /\ member'[N] = "added" /\ mgr[h].next \in Aux
        BY <2>5, <4>1, AddNodesStep DEF Joining, Final
      <4>3. n < mgr[h].next \/ n = N
        BY <4>2 DEF Aux
      <4>4. QED
        BY <2>2, <2>3, <4>2, <4>3 DEF Grown, Joined
    <3>3. QED
      BY <3>1, <3>2
  <2>6. ASSUME NEW n \in Aux, pc'[h] = "pollRebalance", rebal' = "idle", ~rebalErr'
        PROVE  member'[n] = "active"
    <3>1. At(h, "pollRebalance")
      BY <2>1, <2>6, JoinMoves DEF At
    <3>2. Joined(n)
      BY <2>2, <3>1 DEF Grown, At, Joining
    <3>3. CASE rebal = "idle" /\ ~rebalErr
      BY <2>2, <2>3, <3>1, <3>3 DEF Grown
    <3>4. CASE \A k \in Aux : Joined(k) => member'[k] = "active"
      BY <3>2, <3>4
    <3>5. QED
      BY <2>1, <2>6, <3>1, <3>3, <3>4, Kept
  <2>7. ASSUME NEW n \in Aux, pc'[h] \in Final, mgr'[h].round < numRetry
        PROVE  member'[n] = "active"
    <3>1. CASE pc[h] \in Final
      BY <2>1, <2>2, <2>3, <2>7, <3>1, JoinMoves DEF Grown
    <3>2. CASE pc[h] \notin Final
      <4>1. PICK failed \in BOOLEAN : /\ At(h, "pollRebalance") /\ RebalanceLoop(h, failed)
                                      /\ member' = member
                                      /\ ~failed => rebal = "idle" /\ ~rebalErr
        BY <2>1, <2>7, <3>2, JoinMoves
      <4>2. ~failed
        BY <2>7, <4>1, RebalanceLoopStep DEF Final
      <4>3. QED
        BY <2>2, <4>1, <4>2 DEF Grown
    <3>3. QED
      BY <3>1, <3>2
  <2>8. QED
    BY <2>4, <2>5, <2>6, <2>7 DEF Grown, At
<1>3. QED
  BY <1>1, <1>2

LEMMA CreatedStep ==
  ASSUME TypeOK, OneHandler, Counted, EjectedFirst, [Next]_vars,
         NEW h \in Handler, clean[h] => Created(h), clean'[h]
  PROVE  Created(h)'
<1> SUFFICES ASSUME pc'[h] \in {"waitBucket", "preview", "ok"}, conf(h)'.bucket = "named"
             PROVE  bucket' # "none"
  BY DEF Created, conf
<1>1. pc'[h] \in Late /\ ~Begins(h) /\ clean[h] /\ conf(h)' = conf(h)
  BY Moves, CleanStep, ManagerStep DEF Late, After, Final
<1>2. CASE pc[h] \in {"waitBucket", "preview", "ok"}
  <2>1. bucket # "none"
    BY <1>1, <1>2 DEF Created
  <2>2. QED
    BY <1>1, <1>2, <2>1, Kept DEF Late, After, Final
<1>3. CASE pc[h] \notin {"waitBucket", "preview", "ok"}
  BY <1>1, <1>3, FinalMoves
<1>4. QED
  BY <1>2, <1>3

(* Nothing but Rebalance starts a rebalance, and that spoils what others   *)
(* are ejecting.                                                           *)
LEMMA AtRestStep ==
  ASSUME TypeOK, Counted, [Next]_vars,
         NEW h \in Handler, clean[h] => AtRest(h), clean'[h]
  PROVE  AtRest(h)'
<1> USE DEF TypeOK, HandlerType, ServerType
<1> SUFFICES ASSUME pc'[h] \in {"clear", "drop", "eject"}
             PROVE  rebal' = "idle"
  BY DEF AtRest
<1>1. ~Begins(h)
  BY BeginsStep
<1>2. clean[h]
  BY <1>1, CleanStep
<1>3. ~Prepares(h) /\ ~Joins(h) /\ ~Finishes(h)
  <2>1. ASSUME Prepares(h) PROVE FALSE
    BY <2>1 DEF Prepares, GetVersion, Configure, Waits, PollJoinReadyAll,
         PollJoinReadyAllTimeout, Goto, Fails
  <2>2. ASSUME Joins(h) PROVE FALSE
    BY <2>2 DEF Joins, AddNodes, Added, Rebalance, PollRebalance, PollRebalanceFails,
          ParseRebalanceProgressPanics, RebalanceLoop, At, Goto, Fails
  <2>3. ASSUME Finishes(h) PROVE FALSE
    BY <2>3 DEF Finishes, SetupBucket, WaitForBucketReady, WaitForBucketReadyFails, AfterBucket,
         EnableDeveloperPreview, Goto, Fails
  <2>4. QED
    BY <2>1, <2>2, <2>3
<1>4. CASE StopRebalance(h)
  BY <1>4 DEF StopRebalance, Fails, Goto
<1>5. CASE ~StopRebalance(h)
  <2>1. pc[h] \in {"clear", "drop", "eject"}
    BY HandlerStep, <1>1, <1>3, <1>5 DEF Clears, StartCluster, ClearSingleCluster,
          FailOverAndEjectAll, Ejects, RestCallToAux, RestCallToAuxTimeout, ResetMaster, At, Goto,
          Fails
  <2>2. rebal = "idle"
    BY <1>2, <2>1 DEF AtRest
  <2>3. ASSUME NEW g \in Handler, Joins(g)
        PROVE  rebal' = rebal
    BY <2>1, <2>3 DEF Joins, AddNodes, Rebalance, PollRebalance, PollRebalanceFails,
          ParseRebalanceProgressPanics, server
  <2>4. ASSUME NEW g \in Handler, Begins(g) \/ Clears(g) \/ NewSessionFails(g)
        PROVE  rebal' \in {rebal, "idle"}
    BY <2>4 DEF Begins, SetupCluster, Clears, StartCluster, StopRebalance, ClearSingleCluster,
          FailOverAndEjectAll, Ejects, RestCallToAux, RestCallToAuxTimeout, ResetMaster,
          NewSessionFails, server
  <2>5. ASSUME NEW g \in Handler, Prepares(g) \/ Finishes(g)
        PROVE  rebal' = rebal
    BY <2>5 DEF Prepares, GetVersion, Configure, Waits, PollJoinReadyAll, PollJoinReadyAllTimeout,
         Finishes, SetupBucket, WaitForBucketReady, WaitForBucketReadyFails,
         EnableDeveloperPreview, server
  <2>6. CASE Goroutine \/ Server \/ UNCHANGED vars
    BY <2>2, <2>6 DEF Goroutine, FailOver, Eject, PollJoinReady, Server, BecomeReady,
         RebalanceEnds, BucketProceeds, Left, vars, server
  <2>7. QED
    BY Cases, <2>2, <2>3, <2>4, <2>5, <2>6
<1>6. QED
  BY <1>4, <1>5

-----------------------------------------------------------------------------
(* The theorems. *)

LEMMA JoinersReadyMeans ==
  ASSUME \A h \in Handler : clean[h] => Reported(h)
  PROVE  JoinersReady <=> Drained
<1>1. After = (Building \cup {"ok"}) \ {"version", "configure", "poll"}
  BY DEF After, Joining, Final, Building
<1>2. \A h \in Handler, n \in Aux : pc[h] \in After /\ clean[h] => ready[n]
  BY DEF Reported, After
<1>3. QED
  BY <1>1, <1>2 DEF JoinersReady, Drained

LEMMA InvInit == Init => Inv
<1> SUFFICES ASSUME Init
             PROVE  Inv
  OBVIOUS
<1> USE SetupAssumption
<1>1. PICK q \in Config : mgr = [h \in Handler |-> New(0, q)]
  BY DEF Init
<1>2. New(0, q) \in Manager
  BY EmptySeq DEF New, Manager, numRetry
<1>3. TypeOK
  <2>1. HandlerType
    BY DEF Init, HandlerType, Place, Replied
  <2>2. GoroutineType /\ ServerType
    BY DEF Init, GoroutineType, ServerType
  <2>3. mgr \in [Handler -> Manager]
    BY <1>1, <1>2
  <2>4. QED
    BY <2>1, <2>2, <2>3 DEF TypeOK
<1>4. OneHandler
  BY <1>1 DEF Init, OneHandler, run, New
<1>5. /\ Counted /\ EjectedFirst /\ JoinersReady
      /\ \A h \in Handler : Configured(h) /\ Reported(h) /\ Grown(h) /\ Created(h) /\ AtRest(h)
  BY DEF Init, Counted, EjectedFirst, JoinersReady, Configured, Reported, Grown, Created, AtRest,
       Clearing, Building, Joining, Final, At
<1>6. QED
  BY <1>3, <1>4, <1>5 DEF Inv

LEMMA InvStep == Inv /\ [Next]_vars => Inv'
<1> SUFFICES ASSUME Inv, [Next]_vars
             PROVE  Inv'
  OBVIOUS
<1>1. /\ TypeOK /\ HandlerType /\ GoroutineType /\ OneHandler /\ Counted /\ EjectedFirst
      /\ JoinersReady
  BY DEF Inv, TypeOK
<1>2. \A h \in Handler : clean[h] =>
        Configured(h) /\ Reported(h) /\ Grown(h) /\ Created(h) /\ AtRest(h)
  BY DEF Inv
<1>3. TypeOK'
  BY <1>1, HandlerTypeStep, GoroutineTypeStep, ServerTypeStep, ManagerTypeStep DEF TypeOK
<1>4. OneHandler' /\ Counted' /\ EjectedFirst'
  BY <1>1, OneHandlerStep, CountedStep, EjectedFirstStep
<1>5. \A h \in Handler : clean'[h] =>
        (Configured(h) /\ Reported(h) /\ Grown(h) /\ Created(h) /\ AtRest(h))'
  BY <1>1, <1>2, ConfiguredStep, ReportedStep, GrownStep, CreatedStep, AtRestStep
<1>6. JoinersReady'
  <2>1. Drained'
    BY <1>1, <1>2, JoinersReadyMeans, DrainedStep
  <2>2. \A h \in Handler : clean'[h] => Reported(h)'
    BY <1>5
  <2>3. After = (Building \cup {"ok"}) \ {"version", "configure", "poll"}
    BY DEF After, Joining, Final, Building
  <2>4. \A h \in Handler, n \in Aux : pc'[h] \in After /\ clean'[h] => ready'[n]
    BY <2>2 DEF Reported, After
  <2>5. QED
    BY <2>1, <2>3, <2>4 DEF JoinersReady, Drained
<1>7. QED
  BY <1>3, <1>4, <1>5, <1>6 DEF Inv

(* Inv is an invariant: whatever other handlers, earlier setups and their  *)
(* goroutines do at the same time, a setup that they have not spoilt finds *)
(* everything it has built so far in place.                                *)
THEOREM InvAlways == Spec => []Inv
<1>1. QED
  BY InvInit, InvStep, PTL DEF Spec

(* SetupCluster answers 200 only for a cluster with all the settings asked *)
(* for, all nodes, all of them active unless the loop around Rebalance has *)
(* given up, and the bucket.                                               *)
THEOREM SetupCompleteAlways == Spec => []SetupComplete
<1>1. Inv => SetupComplete
  <2> SUFFICES ASSUME Inv, NEW h \in Handler, At(h, "ok"), clean[h]
               PROVE  /\ Asked(conf(h)) \subseteq applied
                      /\ \A n \in Aux : member[n] \in {"added", "active"}
                      /\ mgr[h].round < numRetry => \A n \in Aux : member[n] = "active"
                      /\ conf(h).bucket = "named" => bucket # "none"
    BY DEF SetupComplete
  <2>1. Configured(h) /\ Grown(h) /\ Created(h)
    BY DEF Inv
  <2>2. Elems(Plan(conf(h))) \subseteq applied /\ (conf(h).preview => "preview" \in applied)
    BY <2>1 DEF Configured, At, Final
  <2>3. Asked(conf(h)) \subseteq applied
    <3>1. CASE conf(h).preview
      BY <2>2, <3>1 DEF Asked
    <3>2. CASE ~conf(h).preview
      BY <2>2, <3>2 DEF Asked
    <3>3. QED
      BY <3>1, <3>2
  <2>4. QED
    BY <2>1, <2>3 DEF Grown, Created, Joined, At, Final
<1>2. QED
  BY InvAlways, <1>1, PTL

(* AddNode is called only for nodes that have said they are ready, and     *)
(* pollJoinReadyAll leaves no goroutine behind when it succeeds.           *)
THEOREM JoinersReadyAlways == Spec => []JoinersReady
<1>1. Inv => JoinersReady
  BY DEF Inv
<1>2. QED
  BY InvAlways, <1>1, PTL

(* When clearSingleCluster has succeeded, none of its failOverAndEject     *)
(* goroutines is still at work.                                            *)
THEOREM EjectedFirstAlways == Spec => []EjectedFirst
<1>1. Inv => EjectedFirst
  BY DEF Inv
<1>2. QED
  BY InvAlways, <1>1, PTL

(* failOverAndEject changes the membership of a node only while no         *)
(* rebalance runs: StartCluster has stopped the one that was running.      *)
THEOREM EjectedAtRestAlways == Spec => EjectedAtRest
<1> DEFINE Quiet == \A h \in Handler, n \in Aux :
                      At(h, "eject") /\ clean[h] /\ kick'[run(h)][n] # kick[run(h)][n]
                        /\ member'[n] # member[n] => rebal = "idle"
<1>1. Inv => Quiet
  BY DEF Inv, AtRest, At
<1>2. Inv /\ [Next]_vars => [Quiet]_vars
  BY <1>1
<1>3. QED
  BY InvAlways, <1>2, PTL DEF Spec, EjectedAtRest

=============================================================================
