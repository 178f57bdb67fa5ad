------------------------------ MODULE RestRetry ------------------------------
(***************************************************************************)
(* helper.RestRetryer and helper.GetResponse: how one REST call to a       *)
(* Couchbase server becomes a number of attempts, over a network that may  *)
(* lose a request or its answer, or deliver the request after the client   *)
(* has given up on it.  A caller makes a row of calls, as SetupInitialNode *)
(* and its like do, and stops at the first one that fails.                 *)
(***************************************************************************)
EXTENDS Integers, FiniteSets

CONSTANTS
  Calls,      \* number of calls the caller makes
  Retry,      \* the values of RestRetryer's parameter retry
  Repeatable  \* calls that the server accepts again once it has carried them out

Call == 1..Calls

ASSUME RestAssumption ==
  /\ Calls \in Nat \ {0}
  /\ Retry \subseteq Int
  /\ Repeatable \subseteq Call

VARIABLES
  call,     \* the call being made, or the last one
  pc,       \* where RestRetryer is
  limit,    \* the parameter retry of this call
  retry,    \* what is left of it
  sent,     \* attempts made for each call
  reply,    \* the answer to the present attempt, on its way to the client
  net,      \* requests on their way to the server
  effects,  \* how often the server has carried out each call
  last,     \* the call that the server carried out last
  unsure    \* history: calls with an attempt whose fate the client did not learn

client == <<call, pc, limit, retry, sent, unsure>>
vars   == <<call, pc, limit, retry, sent, reply, net, effects, last, unsure>>

(* ExpectedCode, RetryOnCode, and any other. *)
Code == {"expected", "retryOn", "other"}

Init ==
  /\ call = 1 /\ pc = "call"
  /\ limit \in Retry /\ retry = limit
  /\ sent = [k \in Call |-> 0]
  /\ reply = "none"
  /\ net = {}
  /\ effects = [k \in Call |-> 0]
  /\ last = 0
  /\ unsure = {}

-----------------------------------------------------------------------------
(* The client.                                                             *)

(* GetResponse: client.Do sends the request.                               *)
Do ==
  /\ pc = "call" /\ pc' = "wait"
  /\ sent' = [sent EXCEPT ![call] = @ + 1]
  /\ net' = net \cup {<<call, sent[call] + 1>>}
  /\ reply' = "none"
  /\ UNCHANGED <<call, limit, retry, effects, last, unsure>>

(* Mutant: the test is off by one.                                         *)
FailedOneMore ==
  /\ retry' = retry - 1
  /\ pc' = IF retry - 1 >= 0 THEN "sleep" ELSE "err"
  /\ UNCHANGED <<call, limit, sent, reply, net, effects, last>>

(* An error that is not a stop: retry is decremented before it is tested.  *)
Failed ==
  /\ retry' = retry - 1
  /\ pc' = IF retry - 1 > 0 THEN "sleep" ELSE "err"
  /\ UNCHANGED <<call, limit, sent, reply, net, effects, last>>

(* Mutant: a client without a timeout.                                     *)
DoFailsUntimed ==
  /\ pc = "wait" /\ reply # "none"
  /\ unsure' = unsure \cup {call}
  /\ Failed

(* client.Do fails, on a broken connection or after RestTimeout, or the    *)
(* body cannot be read.  The client does not know what became of the       *)
(* request.                                                                *)
DoFails ==
  /\ pc = "wait"
  /\ unsure' = unsure \cup {call}
  /\ Failed

RetryOnCode ==
  /\ pc = "wait" /\ reply = "retryOn"
  /\ Failed /\ UNCHANGED unsure

(* Mutant: the code to retry on counts as a success.                       *)
ExpectedCodeLoose ==
  /\ pc = "wait" /\ reply \in {"expected", "retryOn"} /\ pc' = "ok"
  /\ UNCHANGED <<call, limit, retry, sent, reply, net, effects, last, unsure>>

(* Any other code: a stop, which is not retried.                           *)
Stop ==
  /\ pc = "wait" /\ reply = "other" /\ pc' = "err"
  /\ UNCHANGED <<call, limit, retry, sent, reply, net, effects, last, unsure>>

ExpectedCode ==
  /\ pc = "wait" /\ reply = "expected" /\ pc' = "ok"
  /\ UNCHANGED <<call, limit, retry, sent, reply, net, effects, last, unsure>>

(* time.Sleep(restInterval), then the recursive call.                      *)
Sleep ==
  /\ pc = "sleep" /\ pc' = "call"
  /\ UNCHANGED <<call, limit, retry, sent, reply, net, effects, last, unsure>>

(* Mutant: the error of a call is not looked at.                           *)
NextCallUnchecked ==
  /\ pc \in {"ok", "err"} /\ call < Calls
  /\ call' = call + 1 /\ pc' = "call"
  /\ limit' \in Retry /\ retry' = limit'
  /\ reply' = "none"
  /\ UNCHANGED <<sent, net, effects, last, unsure>>

(* The caller goes on.                                                     *)
NextCall ==
  /\ pc = "ok" /\ call < Calls
  /\ call' = call + 1 /\ pc' = "call"
  /\ limit' \in Retry /\ retry' = limit'
  /\ reply' = "none"
  /\ UNCHANGED <<sent, net, effects, last, unsure>>

-----------------------------------------------------------------------------
(* The server and the network (external).                                  *)

(* The client is still waiting for the answer to this request.             *)
Awaited(m) == pc = "wait" /\ m = <<call, sent[call]>>

Accepts(k) == k \in Repeatable \/ effects[k] = 0

(* The server takes up a request, in time or late: it carries it out, is   *)
(* not ready, or refuses it.                                               *)
Serve(m) ==
  /\ m \in net /\ net' = net \ {m}
  /\ \E code \in Code :
       /\ reply' = IF Awaited(m) THEN code ELSE reply
       /\ IF code = "expected"
          THEN /\ Accepts(m[1]) /\ last' = m[1]
               /\ effects' = [effects EXCEPT ![m[1]] = @ + 1]
          ELSE UNCHANGED <<effects, last>>
  /\ UNCHANGED client

Lose(m) ==
  /\ m \in net /\ net' = net \ {m}
  /\ UNCHANGED <<client, reply, effects, last>>

-----------------------------------------------------------------------------

Client == Do \/ DoFails \/ RetryOnCode \/ Stop \/ ExpectedCode \/ Sleep \/ NextCall

Next == Client \/ \E m \in net : Serve(m) \/ Lose(m)

Spec == Init /\ [][Next]_vars

(* The client alone is fair: its timeout ends every wait.                  *)
FairSpec == Spec /\ WF_vars(Client)

-----------------------------------------------------------------------------

Over == pc = "err" \/ (pc = "ok" /\ call = Calls)

TypeOK ==
  /\ call \in Call
  /\ pc \in {"call", "wait", "sleep", "ok", "err"}
  /\ limit \in Int /\ retry \in Int
  /\ sent \in [Call -> Nat]
  /\ reply \in Code \cup {"none"}
  /\ net \in SUBSET (Call \X Nat)
  /\ effects \in [Call -> Nat]
  /\ last \in 0..Calls
  /\ unsure \in SUBSET Call

UnderWay(k) == {m \in net : m[1] = k}

(* At most retry attempts are made for a call, and always one; no more     *)
(* effects than attempts can come of them, those still under way included. *)
AttemptsBounded ==
  /\ sent[call] <= (IF limit > 1 THEN limit ELSE 1)
  /\ \A k \in Call :
       effects[k] + Cardinality(UnderWay(k)) <= sent[k]

(* A call that was answered each time, with whatever code, has no          *)
(* aftermath: it had its effect exactly once if it succeeded, not at all   *)
(* if it failed, and nothing of it is left in the network.                 *)
AnsweredIsSettled ==
  \A k \in Call : k \notin unsure /\ (k < call \/ (k = call /\ pc \in {"ok", "err"})) =>
    /\ effects[k] = IF k < call \/ pc = "ok" THEN 1 ELSE 0
    /\ UnderWay(k) = {}

(* A row of calls of which every attempt was answered takes effect in      *)
(* order: the server is where the caller believes it is.  A single unknown *)
(* attempt of an earlier call may undo a later one.                        *)
LastCallWins ==
  pc \in {"ok", "err"} /\ unsure = {} => last = IF pc = "ok" THEN call ELSE call - 1

Mapped == INSTANCE RestCalls WITH
  outcome <- [k \in Call |->
                CASE k < call -> "ok"
                  [] k > call \/ (k = call /\ sent[k] = 0) -> "unsent"
                  [] OTHER -> IF pc \in {"ok", "err"} THEN pc ELSE "pending"],
  done <- {k \in Call : effects[k] > 0}

(* Retries, lost answers and late deliveries amount to what RestCalls      *)
(* promises, which is all that the callers' models rely on.                *)
ImplementsRestCalls == Mapped!Spec

(* Every row of calls returns, whatever the network and the server do.     *)
CallsReturn == <>Over

-----------------------------------------------------------------------------
(* The inductive invariant.                                                *)

(* No more attempts than the parameter allows are left.                    *)
RetryCounted ==
  /\ pc \in {"call", "sleep"} =>
       sent[call] + retry = limit /\ (retry > 0 \/ sent[call] = 0)
  /\ pc = "wait" =>
       sent[call] - 1 + retry = limit /\ (retry > 0 \/ sent[call] = 1)
  /\ pc # "call" => sent[call] >= 1

(* Requests under way are attempts that were made; only the present one is *)
(* under way if nothing went unanswered.                                   *)
NetSound ==
  \A m \in net : /\ m[2] \in 1..sent[m[1]]
                 /\ m[1] <= call
                 /\ m[1] \in unsure \/ (Awaited(m) /\ reply = "none")

(* The call that the client awaits or was told of has had its effect.      *)
Heard == pc = "ok" \/ (pc = "wait" /\ reply = "expected")

(* What is known of the calls made so far, the present one included.       *)
CallsTracked ==
  /\ pc = "ok" => reply = "expected"
  /\ \A k \in Call : k > call => sent[k] = 0 /\ effects[k] = 0 /\ k \notin unsure
  /\ \A k \in Call : k < call => effects[k] > 0
  /\ Heard => effects[call] > 0
  /\ call \notin unsure => effects[call] = IF Heard THEN 1 ELSE 0
  /\ \A k \in Call : k < call /\ k \notin unsure => effects[k] = 1
  /\ unsure = {} => last = IF Heard THEN call ELSE call - 1

Inv ==
  /\ TypeOK /\ IsFiniteSet(net)
  /\ RetryCounted /\ NetSound /\ AttemptsBounded /\ CallsTracked

=============================================================================
