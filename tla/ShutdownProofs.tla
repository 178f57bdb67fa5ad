--------------------------- MODULE ShutdownProofs ---------------------------
(* The metadata store outlives the cleanup routine, for any set of         *)
(* handlers.                                                               *)
EXTENDS Shutdown, TLAPS

(* Where the main goroutine is decides which goroutines and which store    *)
(* there are, through every interleaving of interrupt and startup.         *)
THEOREM InvAlways == Spec => []Inv
<1>1. Init => Inv
  BY DEF Init, Inv
<1>2. Inv /\ [Next]_vars => Inv'
  <2> SUFFICES ASSUME Inv, [Next]_vars PROVE Inv'
    OBVIOUS
  <2>1. CASE Open \/ StartCleanup \/ StartWatcher \/ Interrupt
    BY <2>1 DEF Open, StartCleanup, StartWatcher, Interrupt, Inv
  <2>2. CASE ShutdownSig \/ CleanupClosedSig \/ CloseStore \/ Exit
    BY <2>2 DEF ShutdownSig, CleanupClosedSig, CloseStore, Exit, Inv
  <2>3. CASE Serve \/ ListenFails \/ CloseServer \/ UNCHANGED vars
    BY <2>3 DEF Serve, ListenFails, CloseServer, vars, Inv
  <2>4. CASE CleanupStarts \/ CleanupEnds
    BY <2>4 DEF CleanupStarts, CleanupEnds, Inv
  <2>5. ASSUME NEW h \in Handler, Handle(h) \/ HandlerReturns(h) PROVE Inv'
    BY <2>5 DEF Handle, HandlerReturns, Inv
  <2>6. QED
    BY <2>1, <2>2, <2>3, <2>4, <2>5 DEF Next, Main
<1>3. QED
  BY <1>1, <1>2, PTL DEF Spec

(* Neither the cleanup routine nor a new handler meets a closed store,     *)
(* whenever the interrupt arrives: CloseStore follows the acknowledgement. *)
THEOREM StoreOpenAlways == Spec => []StoreOpen
<1>1. Inv => StoreOpen
  BY DEF Inv, StoreOpen
<1>2. QED
  BY <1>1, InvAlways, PTL

=============================================================================
