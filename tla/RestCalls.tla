------------------------------ MODULE RestCalls ------------------------------
(***************************************************************************)
(* What a caller of helper.RestRetryer may rely on.  A caller makes a row  *)
(* of calls and goes on only after a success.  A call that succeeds has    *)
(* been carried out by the server; a call that fails may have been, and    *)
(* may even be carried out after it failed.                                *)
(***************************************************************************)
EXTENDS Naturals

CONSTANT Calls     \* number of calls the caller makes

VARIABLES
  outcome,   \* what the caller knows of each call
  done       \* the calls that the server has carried out

vars == <<outcome, done>>

Call == 1..Calls

Init == outcome = [k \in Call |-> "unsent"] /\ done = {}

Begin(k) ==
  /\ outcome[k] = "unsent"
  /\ \A j \in Call : j < k => outcome[j] = "ok"
  /\ outcome' = [outcome EXCEPT ![k] = "pending"]
  /\ UNCHANGED done

CarryOut(k) ==
  /\ outcome[k] # "unsent"
  /\ done' = done \cup {k}
  /\ UNCHANGED outcome

Return(k) ==
  /\ outcome[k] = "pending"
  /\ \E o \in {"ok", "err"} : /\ o = "ok" => k \in done
                              /\ outcome' = [outcome EXCEPT ![k] = o]
  /\ UNCHANGED done

Next == \E k \in Call : Begin(k) \/ CarryOut(k) \/ Return(k)

Spec == Init /\ [][Next]_vars
=============================================================================
