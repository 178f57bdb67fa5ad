--------------------------- MODULE RestRetryProofs ---------------------------
(***************************************************************************)
(* The retrying REST client, for any number of calls and any values of the *)
(* parameter retry: the bound on attempts and effects, what an answered    *)
(* call guarantees, and the refinement of RestCalls.                       *)
(***************************************************************************)
EXTENDS RestRetry, FiniteSetTheorems, TLAPS

LEMMA InitInv == Init => Inv
<1> SUFFICES ASSUME Init PROVE Inv
  OBVIOUS
<1> USE RestAssumption
<1>1. TypeOK
  BY DEF Init, TypeOK, Call, Code
<1>2. IsFiniteSet(net)
  BY FS_EmptySet DEF Init
<1>3. \A k \in Call : UnderWay(k) = {}
  BY DEF Init, UnderWay
<1>4. AttemptsBounded
  BY <1>3, FS_EmptySet DEF Init, AttemptsBounded, Call
<1>5. RetryCounted /\ NetSound /\ CallsTracked
  BY DEF Init, RetryCounted, NetSound, CallsTracked, Heard, Call
<1>6. QED
  BY <1>1, <1>2, <1>4, <1>5 DEF Inv

LEMMA TypeStep ==
  ASSUME TypeOK, [Next]_vars
  PROVE  TypeOK'
<1> USE RestAssumption DEF TypeOK, Call, Code
<1>1. CASE Do
  <2>1. sent[call] + 1 \in Nat
    OBVIOUS
  <2>2. sent' \in [Call -> Nat]
    BY <1>1, <2>1 DEF Do
  <2>3. net' \in SUBSET (Call \X Nat)
    BY <1>1, <2>1 DEF Do
  <2>4. QED
    BY <1>1, <2>2, <2>3 DEF Do
<1>2. CASE DoFails \/ RetryOnCode
  <2>1. retry' \in Int /\ pc' \in {"sleep", "err"}
    BY <1>2 DEF DoFails, RetryOnCode, Failed
  <2>u. unsure' \in SUBSET Call
    BY <1>2 DEF DoFails, RetryOnCode
  <2>2. QED
    BY <1>2, <2>1, <2>u DEF DoFails, RetryOnCode, Failed
<1>3. CASE Stop \/ ExpectedCode \/ Sleep \/ NextCall
  <2>1. CASE Stop \/ ExpectedCode \/ Sleep
    BY <2>1 DEF Stop, ExpectedCode, Sleep
  <2>2. CASE NextCall
    BY <2>2 DEF NextCall
  <2>3. QED
    BY <1>3, <2>1, <2>2
<1>4. ASSUME NEW m \in net, Serve(m) PROVE TypeOK'
  <2>1. m[1] \in Call
    OBVIOUS
  <2>2. reply' \in Code \cup {"none"} /\ net' \subseteq net
    BY <1>4 DEF Serve
  <2>3. \/ UNCHANGED <<effects, last>>
        \/ last' = m[1] /\ effects' = [effects EXCEPT ![m[1]] = @ + 1]
    BY <1>4 DEF Serve
  <2>f. effects' \in [Call -> Nat] /\ last' \in 0..Calls
    <3>1. effects \in [Call -> Nat] /\ m[1] \in 0..Calls /\ last \in 0..Calls
      BY <2>1
    <3>2. [effects EXCEPT ![m[1]] = @ + 1] \in [Call -> Nat]
      BY <2>1, <3>1
    <3>3. QED
      BY <2>3, <3>1, <3>2
  <2>4. QED
    BY <1>4, <2>2, <2>f DEF Serve, client
<1>5. ASSUME NEW m \in net, Lose(m) PROVE TypeOK'
  BY <1>5 DEF Lose, client
<1>6. CASE UNCHANGED vars
  BY <1>6 DEF vars
<1>7. QED
  BY <1>1, <1>2, <1>3, <1>4, <1>5, <1>6 DEF Next, Client

LEMMA RetryStep ==
  ASSUME TypeOK, RetryCounted, CallsTracked, [Next]_vars
  PROVE  RetryCounted'
<1> DEFINE n == sent[call]
<1>t. n \in Nat /\ retry \in Int /\ limit \in Int
  BY DEF TypeOK
<1>s. ASSUME UNCHANGED <<call, sent>> PROVE sent'[call'] = n
  BY <1>s
<1>1. CASE Do
  <2>1. /\ pc = "call" /\ pc' = "wait" /\ UNCHANGED <<call, retry, limit>>
        /\ sent'[call'] = n + 1
    BY <1>1 DEF Do, TypeOK
  <2>2. n + retry = limit /\ (retry > 0 \/ n = 0)
    BY <2>1 DEF RetryCounted
  <2>3. QED
    BY <1>t, <2>1, <2>2 DEF RetryCounted
<1>2. CASE DoFails \/ RetryOnCode
  <2>1. /\ pc = "wait" /\ sent'[call'] = n /\ limit' = limit /\ retry' = retry - 1
        /\ pc' = IF retry - 1 > 0 THEN "sleep" ELSE "err"
    BY <1>2, <1>s DEF DoFails, RetryOnCode, Failed
  <2>2. n - 1 + retry = limit /\ n >= 1
    BY <2>1 DEF RetryCounted
  <2>3. QED
    BY <1>t, <2>1, <2>2 DEF RetryCounted
<1>3. CASE Stop \/ ExpectedCode \/ Sleep
  <2>1. sent'[call'] = n /\ UNCHANGED <<limit, retry>>
    BY <1>3, <1>s DEF Stop, ExpectedCode, Sleep
  <2>2. \/ pc = "wait" /\ pc' \in {"ok", "err"}
        \/ pc = "sleep" /\ pc' = "call"
    BY <1>3 DEF Stop, ExpectedCode, Sleep
  <2>3. QED
    BY <1>t, <2>1, <2>2 DEF RetryCounted
<1>4. CASE NextCall
  <2>1. pc' = "call" /\ retry' = limit' /\ limit' \in Int /\ sent'[call'] = 0
    BY <1>4, RestAssumption DEF NextCall, CallsTracked, TypeOK, Call
  <2>2. \A x \in Int : 0 + x = x
    OBVIOUS
  <2>3. QED
    BY <2>1, <2>2 DEF RetryCounted
<1>5. ASSUME \/ UNCHANGED vars
             \/ \E m \in net : Serve(m) \/ Lose(m)
      PROVE  RetryCounted'
  <2>1. UNCHANGED <<pc, limit, retry, call, sent>>
    BY <1>5 DEF Serve, Lose, client, vars
  <2>2. QED
    BY <2>1 DEF RetryCounted
<1>6. QED
  BY <1>1, <1>2, <1>3, <1>4, <1>5 DEF Next, Client

LEMMA NetStep ==
  ASSUME TypeOK, NetSound, CallsTracked, [Next]_vars
  PROVE  NetSound'
<1> USE RestAssumption DEF TypeOK, NetSound, Awaited, Call
<1>1. CASE Do
  <2>1. \A m \in net : m[1] \in unsure
    BY <1>1 DEF Do
  <2>2. ASSUME NEW m \in net' PROVE m \in net \/ m = <<call, sent[call] + 1>>
    BY <1>1 DEF Do
  <2>3. QED
    BY <1>1, <2>1, <2>2 DEF Do
<1>2. CASE DoFails \/ RetryOnCode
  <2>1. CASE DoFails
    BY <2>1 DEF DoFails, Failed
  <2>2. CASE RetryOnCode
    BY <2>2 DEF RetryOnCode, Failed
  <2>3. QED
    BY <1>2, <2>1, <2>2
<1>3. CASE Stop \/ ExpectedCode \/ Sleep \/ NextCall
  <2>1. \A m \in net : m[1] \in unsure
    BY <1>3 DEF Stop, ExpectedCode, Sleep, NextCall
  <2>2. UNCHANGED <<net, sent, unsure>> /\ call' \in Call /\ call' >= call
    BY <1>3 DEF Stop, ExpectedCode, Sleep, NextCall
  <2>3. QED
    BY <2>1, <2>2
<1>4. ASSUME NEW m \in net, Serve(m) \/ Lose(m) PROVE NetSound'
  <2>1. net' = net \ {m} /\ UNCHANGED client
    BY <1>4 DEF Serve, Lose
  <2>2. ASSUME NEW n \in net' PROVE n \in net /\ (Awaited(n) => ~Awaited(m))
    BY <2>1
  <2>3. ASSUME NEW n \in net', Awaited(n) PROVE reply' = reply
    BY <1>4, <2>2, <2>3 DEF Serve, Lose
  <2>4. QED
    BY <2>1, <2>2, <2>3 DEF client
<1>5. CASE UNCHANGED vars
  BY <1>5 DEF vars
<1>6. QED
  BY <1>1, <1>2, <1>3, <1>4, <1>5 DEF Next, Client

(* A request that goes out makes one more under way, one that arrives or   *)
(* is lost makes one less.                                                 *)
LEMMA UnderWayAdd ==
  ASSUME Inv, Do
  PROVE  /\ IsFiniteSet(net')
         /\ \A k \in Call : Cardinality(UnderWay(k)') =
              IF k = call THEN Cardinality(UnderWay(k)) + 1 ELSE Cardinality(UnderWay(k))
<1> DEFINE new == <<call, sent[call] + 1>>
<1>1. net' = net \cup {new}
  BY DEF Do
<1>2. new \notin net
  BY DEF Inv, TypeOK, NetSound, Call
<1>3. IsFiniteSet(net')
  BY <1>1, FS_AddElement DEF Inv
<1>4. ASSUME NEW k \in Call PROVE IsFiniteSet(UnderWay(k)) /\ new \notin UnderWay(k)
  BY <1>2, FS_Subset DEF UnderWay, Inv
<1>5. UnderWay(call)' = UnderWay(call) \cup {new} \/ call' # call
  BY <1>1 DEF UnderWay
<1>6. ASSUME NEW k \in Call
      PROVE UnderWay(k)' = IF k = call THEN UnderWay(k) \cup {new} ELSE UnderWay(k)
  BY <1>1 DEF UnderWay
<1>7. QED
  BY <1>3, <1>4, <1>6, FS_AddElement

LEMMA UnderWayRemove ==
  ASSUME Inv, NEW m \in net, net' = net \ {m}
  PROVE  /\ IsFiniteSet(net')
         /\ \A k \in Call : Cardinality(UnderWay(k)') =
              IF k = m[1] THEN Cardinality(UnderWay(k)) - 1 ELSE Cardinality(UnderWay(k))
<1>1. IsFiniteSet(net')
  BY FS_RemoveElement DEF Inv
<1>2. ASSUME NEW k \in Call PROVE IsFiniteSet(UnderWay(k))
  BY FS_Subset DEF UnderWay, Inv
<1>3. ASSUME NEW k \in Call
      PROVE UnderWay(k)' = IF k = m[1] THEN UnderWay(k) \ {m} ELSE UnderWay(k)
  BY DEF UnderWay
<1>4. m \in UnderWay(m[1])
  BY DEF UnderWay
<1>5. QED
  BY <1>1, <1>2, <1>3, <1>4, FS_RemoveElement

LEMMA AttemptsStep ==
  ASSUME Inv, [Next]_vars
  PROVE  IsFiniteSet(net') /\ AttemptsBounded'
<1>c. ASSUME NEW k \in Call PROVE Cardinality(UnderWay(k)) \in Nat
  BY FS_Subset, FS_CardinalityType DEF UnderWay, Inv
<1> USE RestAssumption DEF AttemptsBounded, TypeOK, Call
<1>1. CASE Do
  <2>1. IsFiniteSet(net')
    BY <1>1, UnderWayAdd
  <2>2. sent'[call'] <= IF limit' > 1 THEN limit' ELSE 1
    BY <1>1 DEF Do, Inv, RetryCounted
  <2>3. \A k \in Call : effects'[k] + Cardinality(UnderWay(k)') <= sent'[k]
    <3>1. \A k \in Call : /\ effects'[k] = effects[k]
                           /\ sent'[k] = IF k = call THEN sent[k] + 1 ELSE sent[k]
      BY <1>1 DEF Do, Inv
    <3>2. \A k \in Call : effects[k] \in Nat /\ sent[k] \in Nat
      BY DEF Inv
    <3>3. \A k \in Call : effects[k] + Cardinality(UnderWay(k)) <= sent[k]
      BY DEF Inv
    <3>4. QED
      BY <1>1, <1>c, <3>1, <3>2, <3>3, UnderWayAdd
  <2>4. QED
    BY <2>1, <2>2, <2>3
<1>2. ASSUME NEW m \in net, Serve(m) \/ Lose(m) PROVE IsFiniteSet(net') /\ AttemptsBounded'
  <2>1. net' = net \ {m} /\ UNCHANGED client
    BY <1>2 DEF Serve, Lose
  <2>2. m[1] \in Call
    BY DEF Inv
  <2>3. \/ effects' = effects
        \/ effects' = [effects EXCEPT ![m[1]] = @ + 1]
    BY <1>2 DEF Serve, Lose
  <2>4. \A k \in Call : effects'[k] <= IF k = m[1] THEN effects[k] + 1 ELSE effects[k]
    <3>1. effects \in [Call -> Nat]
      BY DEF Inv
    <3>2. QED
      BY <2>2, <2>3, <3>1
  <2>5. \A k \in Call : effects'[k] \in Nat
    <3>1. effects \in [Call -> Nat]
      BY DEF Inv
    <3>2. QED
      BY <2>2, <2>3, <3>1
  <2>6. \A k \in Call : effects'[k] + Cardinality(UnderWay(k)') <= sent[k]
    <3>1. \A k \in Call : /\ effects[k] \in Nat /\ sent[k] \in Nat
                           /\ effects[k] + Cardinality(UnderWay(k)) <= sent[k]
      BY DEF Inv
    <3>2. \A k \in Call : Cardinality(UnderWay(k)') =
            IF k = m[1] THEN Cardinality(UnderWay(k)) - 1 ELSE Cardinality(UnderWay(k))
      BY <2>1, UnderWayRemove
    <3>3. QED
      BY <1>c, <2>4, <2>5, <3>1, <3>2
  <2>7. QED
    BY <2>1, <2>6, UnderWayRemove DEF Inv, client
<1>3. CASE NextCall
  <2>1. UNCHANGED <<net, effects, sent>> /\ sent'[call'] = 0
    BY <1>3 DEF NextCall, Inv, CallsTracked
  <2>2. QED
    BY <2>1, <1>3 DEF NextCall, Inv, UnderWay
<1>4. CASE \/ DoFails \/ RetryOnCode \/ Stop \/ ExpectedCode \/ Sleep \/ UNCHANGED vars
  <2>1. UNCHANGED <<net, effects, sent, call, limit>>
    BY <1>4 DEF DoFails, RetryOnCode, Failed, Stop, ExpectedCode, Sleep, vars
  <2>2. QED
    BY <2>1 DEF Inv, UnderWay
<1>5. QED
  BY <1>1, <1>2, <1>3, <1>4 DEF Next, Client

LEMMA TrackedStep ==
  ASSUME TypeOK, NetSound, CallsTracked, [Next]_vars
  PROVE  CallsTracked'
<1> USE RestAssumption DEF TypeOK, Call, CallsTracked, Heard
<1>1. CASE Do
  BY <1>1 DEF Do
<1>2. CASE DoFails
  BY <1>2 DEF DoFails, Failed
<1>3. CASE RetryOnCode
  BY <1>3 DEF RetryOnCode, Failed
<1>4. CASE Stop \/ ExpectedCode \/ Sleep
  <2>1. Heard' = Heard /\ UNCHANGED <<call, sent, effects, unsure, last, reply>>
    BY <1>4 DEF Stop, ExpectedCode, Sleep
  <2>2. pc' = "ok" => reply = "expected"
    BY <1>4 DEF Stop, ExpectedCode, Sleep
  <2>3. QED
    BY <2>1, <2>2
<1>5. CASE NextCall
  <2>1. /\ Heard /\ ~Heard' /\ call' = call + 1 /\ call' \in Call /\ pc' = "call"
        /\ UNCHANGED <<sent, effects, unsure, last>>
    BY <1>5 DEF NextCall
  <2>2. effects[call'] = 0
    BY <2>1
  <2>3. QED
    BY <2>1, <2>2
<1>6. ASSUME NEW m \in net, Serve(m) PROVE CallsTracked'
  <2>1. m[1] \in Call /\ m[1] <= call
    BY DEF NetSound
  <2>2. CASE Awaited(m)
    <3>1. m[1] = call /\ pc = "wait" /\ (call \in unsure \/ reply = "none")
      BY <2>2 DEF NetSound, Awaited
    <3>2. PICK code \in Code :
            /\ reply' = code
            /\ IF code = "expected"
               THEN last' = call /\ effects' = [effects EXCEPT ![call] = @ + 1]
               ELSE UNCHANGED <<effects, last>>
      BY <1>6, <2>2, <3>1 DEF Serve
    <3>3. UNCHANGED client
      BY <1>6 DEF Serve
    <3>4. CASE code = "expected"
      <4>h. Heard'
        BY <3>1, <3>2, <3>3, <3>4 DEF client
      <4>e. effects' = [effects EXCEPT ![call] = @ + 1]
        BY <3>2, <3>4
      <4>1. /\ Heard' /\ effects'[call] = effects[call] + 1
            /\ \A k \in Call : k # call => effects'[k] = effects[k]
        BY <4>h, <4>e
      <4>2. call \notin unsure => effects[call] = 0
        BY <3>1
      <4>3. UNCHANGED <<call, pc, sent, unsure>> /\ pc # "ok" /\ last' = call
        BY <3>1, <3>2, <3>3, <3>4 DEF client
      <4>4. /\ \A k \in Call : k > call => sent[k] = 0 /\ effects[k] = 0 /\ k \notin unsure
            /\ \A k \in Call : k < call => effects[k] > 0
            /\ \A k \in Call : k < call /\ k \notin unsure => effects[k] = 1
        OBVIOUS
      <4>5. effects[call] \in Nat /\ call \in Call /\ call \in Int
        OBVIOUS
      <4> HIDE DEF TypeOK, CallsTracked
      <4>6. effects'[call] > 0 /\ (call \notin unsure => effects'[call] = 1)
        BY <4>1, <4>2, <4>5
      <4>7. QED
        BY <4>1, <4>3, <4>4, <4>5, <4>6 DEF CallsTracked
    <3>5. CASE code # "expected"
      BY <3>1, <3>2, <3>3, <3>5 DEF client
    <3>6. QED
      BY <3>4, <3>5
  <2>3. CASE ~Awaited(m)
    <3>1. m[1] \in unsure
      BY <2>3 DEF NetSound
    <3>2. UNCHANGED client /\ reply' = reply
      BY <1>6, <2>3 DEF Serve
    <3>3. \/ UNCHANGED <<effects, last>>
          \/ effects' = [effects EXCEPT ![m[1]] = @ + 1]
      BY <1>6 DEF Serve
    <3>4. \A k \in Call : effects'[k] = effects[k] \/ (k \in unsure /\ effects'[k] > 0)
      <4>1. effects[m[1]] + 1 > 0
        BY <2>1
      <4>2. QED
        BY <2>1, <3>1, <3>3, <4>1
    <3>5. QED
      BY <3>1, <3>2, <3>4 DEF client
  <2>4. QED
    BY <2>2, <2>3
<1>7. ASSUME NEW m \in net, Lose(m) PROVE CallsTracked'
  BY <1>7 DEF Lose, client
<1>8. CASE UNCHANGED vars
  BY <1>8 DEF vars
<1>9. QED
  BY <1>1, <1>2, <1>3, <1>4, <1>5, <1>6, <1>7, <1>8 DEF Next, Client

(* The attempts, the messages on the network and the servers' effects stay *)
(* tied to the call that is being made.                                    *)
THEOREM InvAlways == Spec => []Inv
<1>1. Inv /\ [Next]_vars => Inv'
  BY TypeStep, RetryStep, NetStep, AttemptsStep, TrackedStep DEF Inv
<1>2. QED
  BY <1>1, InitInv, PTL DEF Spec

(* Whatever the network does, a call is attempted at most retry times, or  *)
(* once, and the server carries it out no more often than that.            *)
THEOREM Bounded == Spec => []AttemptsBounded
<1>1. Inv => AttemptsBounded
  BY DEF Inv
<1>2. QED
  BY <1>1, InvAlways, PTL

(* A call whose every attempt was answered has no aftermath.               *)
THEOREM Settled == Spec => []AnsweredIsSettled
<1>1. Inv => AnsweredIsSettled
  <2> SUFFICES ASSUME Inv, NEW k \in Call, k \notin unsure,
                      k < call \/ (k = call /\ pc \in {"ok", "err"})
               PROVE  /\ effects[k] = IF k < call \/ pc = "ok" THEN 1 ELSE 0
                      /\ UnderWay(k) = {}
    BY DEF AnsweredIsSettled
  <2> USE RestAssumption DEF Inv, TypeOK, Call
  <2>1. effects[k] = IF k < call \/ pc = "ok" THEN 1 ELSE 0
    BY DEF CallsTracked, Heard
  <2>2. \A m \in net : m[1] # k
    BY DEF NetSound, Awaited
  <2>3. QED
    BY <2>1, <2>2 DEF UnderWay
<1>2. QED
  BY <1>1, InvAlways, PTL

(* A row of calls that were all answered takes effect in its order.        *)
THEOREM InOrder == Spec => []LastCallWins
<1>1. Inv => LastCallWins
  BY DEF Inv, LastCallWins, CallsTracked, Heard
<1>2. QED
  BY <1>1, InvAlways, PTL

-----------------------------------------------------------------------------
LEMMA MappedInit == Init => Mapped!Init
BY RestAssumption DEF Init, Mapped!Init, Mapped!Call, Call

(* What the caller knows of call k: the mapping, one call at a time.       *)
LEMMA MappedStep ==
  ASSUME Inv, [Next]_vars
  PROVE  [Mapped!Next]_(Mapped!vars)
<1> DEFINE Out(k) ==
      CASE k < call -> "ok"
        [] k > call \/ (k = call /\ sent[k] = 0) -> "unsent"
        [] OTHER -> IF pc \in {"ok", "err"} THEN pc ELSE "pending"
    Outcome == [k \in Call |-> Out(k)]
    Done == {k \in Call : effects[k] > 0}
<1> USE RestAssumption DEF Call, Mapped!Call
<1>t. call \in Call /\ sent \in [Call -> Nat] /\ effects \in [Call -> Nat]
  BY DEF Inv, TypeOK
<1>c. PICK c \in Call : c = call
  BY <1>t
<1>v. UNCHANGED <<Outcome, Done>> => UNCHANGED Mapped!vars
  BY DEF Mapped!vars
<1>1. CASE Do
  <2>1. CASE sent[call] = 0
    <3>0. \A k \in Call : Out(k)' = IF k = call THEN "pending" ELSE Out(k)
      BY <1>1, <1>t, <2>1 DEF Do
    <3>1. Outcome' = [Outcome EXCEPT ![c] = "pending"] /\ Done' = Done
      BY <1>1, <1>c, <3>0 DEF Do
    <3>2. Outcome[call] = "unsent" /\ \A j \in Call : j < call => Outcome[j] = "ok"
      BY <1>t, <2>1
    <3>3. Mapped!Begin(c)
      BY <1>c, <3>1, <3>2 DEF Mapped!Begin
    <3>4. QED
      BY <3>3 DEF Mapped!Next
  <2>2. CASE sent[call] > 0
    <3>1. UNCHANGED <<Outcome, Done>>
      BY <1>1, <1>t, <2>2 DEF Do
    <3>2. QED
      BY <3>1, <1>v
  <2>3. QED
    BY <1>t, <2>1, <2>2
<1>2. ASSUME NEW o \in {"ok", "err"}, pc = "wait", pc' = o,
             UNCHANGED <<call, sent, effects>>, o = "ok" => effects[call] > 0
      PROVE  Mapped!Next
  <2>1. sent[call] >= 1
    BY <1>2 DEF Inv, RetryCounted
  <2>2. Outcome[call] = "pending" /\ Done' = Done
    BY <1>2, <1>t, <2>1
  <2>0. \A k \in Call : Out(k)' = IF k = call THEN o ELSE Out(k)
    BY <1>2, <1>t, <2>1
  <2>3. Outcome' = [Outcome EXCEPT ![c] = o]
    BY <1>c, <2>0
  <2>4. o = "ok" => call \in Done
    BY <1>2, <1>t
  <2>5. Mapped!Return(c)
    BY <1>c, <2>2, <2>3, <2>4 DEF Mapped!Return
  <2>6. QED
    BY <2>5 DEF Mapped!Next
<1>3. ASSUME pc \in {"wait", "sleep"}, pc' \in {"sleep", "call"},
             UNCHANGED <<call, sent, effects>>
      PROVE  UNCHANGED Mapped!vars
  BY <1>3, <1>t, <1>v
<1>4. CASE DoFails \/ RetryOnCode
  <2>1. /\ pc = "wait" /\ pc' \in {"sleep", "err"}
        /\ UNCHANGED <<call, sent, effects>>
    BY <1>4 DEF DoFails, RetryOnCode, Failed
  <2>2. QED
    BY <1>2, <1>3, <2>1
<1>5. CASE Stop \/ ExpectedCode
  <2>1. /\ pc = "wait" /\ pc' \in {"ok", "err"}
        /\ UNCHANGED <<call, sent, effects>>
        /\ pc' = "ok" => effects[call] > 0
    BY <1>5 DEF Stop, ExpectedCode, Inv, CallsTracked, Heard
  <2>2. QED
    BY <1>2, <2>1
<1>6. CASE Sleep
  BY <1>3, <1>6 DEF Sleep
<1>7. CASE NextCall
  <2>1. /\ pc = "ok" /\ call' = call + 1 /\ call' \in Call /\ sent[call'] = 0
        /\ sent[call] >= 1 /\ UNCHANGED <<sent, effects>>
    BY <1>7, <1>t DEF NextCall, Inv, CallsTracked, RetryCounted
  <2>2. UNCHANGED <<Outcome, Done>>
    BY <1>t, <2>1
  <2>3. QED
    BY <2>2, <1>v
<1>8. ASSUME NEW m \in net, Serve(m) \/ Lose(m) PROVE [Mapped!Next]_(Mapped!vars)
  <2>1. UNCHANGED <<call, sent, pc>>
    BY <1>8 DEF Serve, Lose, client
  <2>2. Outcome' = Outcome
    BY <2>1
  <2>3. m[1] \in Call /\ m[1] <= call /\ sent[m[1]] > 0
    BY <1>t DEF Inv, TypeOK, NetSound
  <2>4. \/ effects' = effects
        \/ effects' = [effects EXCEPT ![m[1]] = @ + 1]
    BY <1>8 DEF Serve, Lose
  <2>5. CASE effects' = effects
    BY <2>2, <2>5, <1>v
  <2>6. CASE effects' = [effects EXCEPT ![m[1]] = @ + 1]
    <3>1. Done' = Done \cup {m[1]}
      BY <1>t, <2>3, <2>6
    <3>2. Outcome[m[1]] # "unsent"
      BY <1>t, <2>3
    <3>3. Mapped!CarryOut(m[1])
      BY <2>2, <3>1, <3>2 DEF Mapped!CarryOut
    <3>4. QED
      BY <2>3, <3>3 DEF Mapped!Next
  <2>7. QED
    BY <2>4, <2>5, <2>6
<1>9. CASE UNCHANGED vars
  BY <1>9, <1>v DEF vars
<1>10. QED
  BY <1>1, <1>4, <1>5, <1>6, <1>7, <1>8, <1>9 DEF Next, Client

(* Attempts, retries and late deliveries implement what RestCalls          *)
(* promises to a caller.                                                   *)
THEOREM RestRefinement == Spec => ImplementsRestCalls
<1>1. Inv /\ [Next]_vars => [Mapped!Next]_(Mapped!vars)
  BY MappedStep
<1>2. QED
  BY <1>1, MappedInit, InvAlways, PTL DEF Spec, ImplementsRestCalls, Mapped!Spec

=============================================================================
