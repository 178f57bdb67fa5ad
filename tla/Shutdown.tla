------------------------------ MODULE Shutdown ------------------------------
(***************************************************************************)
(* Start and end of the daemon (startDaemon in daemon/daemon.go): the main *)
(* goroutine, the one that waits for the interrupt, the cleanup routine    *)
(* and the request handlers, and what becomes of the metadata store that   *)
(* they share.                                                             *)
(***************************************************************************)
EXTENDS Naturals

CONSTANT Handler   \* requests that arrive

VARIABLES
  main,      \* where startDaemon is
  watcher,   \* the goroutine that waits for the signal
  signalled, \* the buffered channel c holds a signal
  closed,    \* restServer.Close has been called
  cleaner,   \* the cleanup routine
  handler,   \* the handlers
  store      \* the metadata store

vars == <<main, watcher, signalled, closed, cleaner, handler, store>>

Init ==
  /\ main = "open" /\ store = "none"
  /\ watcher = "none" /\ signalled = FALSE /\ closed = FALSE
  /\ cleaner = "none"
  /\ handler = [h \in Handler |-> "none"]

(* openMeta, connectDocker and hasMacvlan0: any of them may end startDaemon *)
(* early, the last two with the store left open.                            *)
Open ==
  /\ main = "open"
  /\ \/ store' = "open" /\ main' \in {"cleanup", "exit"}
     \/ store' = store /\ main' = "exit"
  /\ UNCHANGED <<watcher, signalled, closed, cleaner, handler>>

(* The cleanup routine is started, then signal.Notify and the watcher.     *)
StartCleanup ==
  /\ main = "cleanup" /\ main' = "notify" /\ cleaner' = "select"
  /\ UNCHANGED <<watcher, signalled, closed, handler, store>>

StartWatcher ==
  /\ main = "notify" /\ main' = "serve" /\ watcher' = "wait"
  /\ UNCHANGED <<signalled, closed, cleaner, handler, store>>

(* An interrupt: the channel holds one; before Notify it ends the process. *)
Interrupt ==
  /\ main # "exit"
  /\ IF watcher = "none" THEN main' = "exit" /\ signalled' = signalled
     ELSE ~signalled /\ signalled' = TRUE /\ main' = main
  /\ UNCHANGED <<watcher, closed, cleaner, handler, store>>

CloseServer ==
  /\ main # "exit" /\ watcher = "wait" /\ signalled
  /\ signalled' = FALSE /\ watcher' = "done" /\ closed' = TRUE
  /\ UNCHANGED <<main, cleaner, handler, store>>

(* ListenAndServe returns once the server is closed, at once if it was     *)
(* closed before, or when it cannot listen.                                *)
Serve ==
  /\ main = "serve" /\ closed /\ main' = "signal"
  /\ UNCHANGED <<watcher, signalled, closed, cleaner, handler, store>>

ListenFails ==
  /\ main = "serve" /\ main' = "signal"
  /\ \A h \in Handler : handler[h] = "none"
  /\ UNCHANGED <<watcher, signalled, closed, cleaner, handler, store>>

(* A handler starts while the server listens; nothing ever waits for it.   *)
Handle(h) ==
  /\ main = "serve" /\ ~closed /\ handler[h] = "none"
  /\ handler' = [handler EXCEPT ![h] = "run"]
  /\ UNCHANGED <<main, watcher, signalled, closed, cleaner, store>>

HandlerReturns(h) ==
  /\ main # "exit" /\ handler[h] = "run"
  /\ handler' = [handler EXCEPT ![h] = "none"]
  /\ UNCHANGED <<main, watcher, signalled, closed, cleaner, store>>

(* The select of the cleanup routine: the timer, or the unbuffered         *)
(* shutdownSig on which the main goroutine waits.                          *)
CleanupStarts ==
  /\ main # "exit" /\ cleaner = "select" /\ cleaner' = "clean"
  /\ UNCHANGED <<main, watcher, signalled, closed, handler, store>>

CleanupEnds ==
  /\ main # "exit" /\ cleaner = "clean" /\ cleaner' = "select"
  /\ UNCHANGED <<main, watcher, signalled, closed, handler, store>>

(* Mutants: the main goroutine does not wait for the cleanup routine; the  *)
(* cleanup routine returns without an acknowledgement.                     *)
ShutdownSigUnwaited ==
  /\ main = "signal" /\ main' = "close"
  /\ UNCHANGED <<watcher, signalled, closed, cleaner, handler, store>>

ShutdownSigUnanswered ==
  /\ main = "signal" /\ cleaner = "select"
  /\ main' = "await" /\ cleaner' = "gone"
  /\ UNCHANGED <<watcher, signalled, closed, handler, store>>

ShutdownSig ==
  /\ main = "signal" /\ cleaner = "select"
  /\ main' = "await" /\ cleaner' = "ack"
  /\ UNCHANGED <<watcher, signalled, closed, handler, store>>

CleanupClosedSig ==
  /\ main = "await" /\ cleaner = "ack"
  /\ main' = "close" /\ cleaner' = "gone"
  /\ UNCHANGED <<watcher, signalled, closed, handler, store>>

CloseStore ==
  /\ main = "close" /\ main' = "log" /\ store' = "closed"
  /\ UNCHANGED <<watcher, signalled, closed, cleaner, handler>>

(* "Graceful shutdown completed."; then the process ends.                  *)
Exit ==
  /\ main = "log" /\ main' = "exit"
  /\ UNCHANGED <<watcher, signalled, closed, cleaner, handler, store>>

Main == \/ Open \/ StartCleanup \/ StartWatcher \/ Serve \/ ShutdownSig
        \/ CleanupClosedSig \/ CloseStore \/ Exit

Next ==
  \/ Main \/ ListenFails \/ Interrupt \/ CloseServer
  \/ CleanupStarts \/ CleanupEnds
  \/ \E h \in Handler : Handle(h) \/ HandlerReturns(h)

Spec == Init /\ [][Next]_vars

(* The goroutines run, cleanupClusters returns, and a select that again    *)
(* and again has the shutdown signal to choose eventually chooses it.      *)
FairSpec ==
  /\ Spec
  /\ WF_vars(Main) /\ WF_vars(CloseServer) /\ WF_vars(CleanupEnds)
  /\ SF_vars(ShutdownSig)

-----------------------------------------------------------------------------

(* The cleanup routine never works on a store that has been closed, and    *)
(* every handler starts with an open one.                                  *)
StoreOpen ==
  /\ cleaner \in {"select", "clean", "ack"} => store = "open"
  /\ main = "serve" => store = "open"

(* The two rendezvous of the shutdown cannot block each other: after the   *)
(* interrupt the process ends, wherever the cleanup routine is, and when   *)
(* the signal arrives before the server listens too.                       *)
ShutdownEnds == signalled ~> main = "exit"

-----------------------------------------------------------------------------
(* The inductive invariant: where the main goroutine is decides which      *)
(* goroutines and which store there are.                                   *)
Inv ==
  /\ main = "open" => cleaner = "none"
  /\ main \in {"cleanup", "notify", "serve", "signal", "await", "close"} => store = "open"
  /\ cleaner \in {"select", "clean", "ack"} => store = "open"
  /\ main \in {"close", "log"} => cleaner = "gone"

=============================================================================
