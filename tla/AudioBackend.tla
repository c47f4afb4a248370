---------------------------- MODULE AudioBackend ----------------------------
(***************************************************************************)
(* What an audio backend promises to the engine and to the application     *)
(* (AudioBackend.hpp), whichever system it talks to.  After start() some   *)
(* real-time thread calls the process callback again and again.  stop()    *)
(* returns when no callback is running and none will run.  A backend that  *)
(* fails on its own first sets the flag failed() returns, then sends the   *)
(* process SIGTERM, so that the main thread wakes up and stops it.         *)
(***************************************************************************)
CONSTANT Reports \* the failures a backend may report between start and stop

VARIABLES phase,    \* how far start() or stop() got
          callback, \* TRUE while the process callback runs
          failed,   \* failed()
          report    \* each report: not made, flagged, or signalled too

vars == <<phase, callback, failed, report>>

active == {"starting", "running", "stopping"}
noReport == [r \in Reports |-> "none"]

Init ==
  /\ phase = "idle"
  /\ callback = FALSE
  /\ failed = FALSE
  /\ report = noReport

-----------------------------------------------------------------------------
(* start() forgets an earlier failure before it lets any thread run.       *)
BeginStart ==
  /\ phase \in {"idle", "stopped"}
  /\ phase' = "starting"
  /\ failed' = FALSE
  /\ report' = noReport
  /\ UNCHANGED callback

(* Bug: the failure flag is cleared when the threads already run.          *)
CompleteStartForgetful ==
  /\ phase = "starting"
  /\ phase' = "running"
  /\ failed' = FALSE
  /\ UNCHANGED <<callback, report>>

CompleteStart ==
  /\ phase = "starting"
  /\ phase' = "running"
  /\ UNCHANGED <<callback, failed, report>>

(* No thread of the backend is in the middle of anything.                  *)
quiescent == ~callback /\ \A r \in Reports : report[r] # "flagged"

(* start() throws: whatever it had set up is gone by then.                 *)
AbortStart ==
  /\ phase = "starting"
  /\ quiescent
  /\ phase' = "stopped"
  /\ UNCHANGED <<callback, failed, report>>

BeginStop ==
  /\ phase = "running"
  /\ phase' = "stopping"
  /\ UNCHANGED <<callback, failed, report>>

CompleteStop ==
  /\ phase = "stopping"
  /\ quiescent
  /\ phase' = "stopped"
  /\ UNCHANGED <<callback, failed, report>>

(* The object goes: nobody is left who could call anything.                *)
Retire ==
  /\ phase \in {"idle", "stopped"}
  /\ quiescent
  /\ phase' = "destroyed"
  /\ UNCHANGED <<callback, failed, report>>

-----------------------------------------------------------------------------
BeginCallback ==
  /\ phase \in active
  /\ ~callback
  /\ callback' = TRUE
  /\ UNCHANGED <<phase, failed, report>>

EndCallback ==
  /\ callback
  /\ callback' = FALSE
  /\ UNCHANGED <<phase, failed, report>>

Flag(r) ==
  /\ phase \in active
  /\ report[r] = "none"
  /\ report' = [report EXCEPT ![r] = "flagged"]
  /\ failed' = TRUE
  /\ UNCHANGED <<phase, callback>>

(* kill(getpid(), SIGTERM): what becomes of the signal is the matter of    *)
(* the process.                                                            *)
Signal(r) ==
  /\ report[r] = "flagged"
  /\ report' = [report EXCEPT ![r] = "signalled"]
  /\ UNCHANGED <<phase, callback, failed>>

-----------------------------------------------------------------------------
Next ==
  \/ BeginStart \/ CompleteStart \/ AbortStart
  \/ BeginStop \/ CompleteStop \/ Retire
  \/ BeginCallback \/ EndCallback
  \/ \E r \in Reports : Flag(r) \/ Signal(r)

Spec == Init /\ [][Next]_vars

TypeOK ==
  /\ phase \in active \cup {"idle", "stopped", "destroyed"}
  /\ callback \in BOOLEAN
  /\ failed \in BOOLEAN
  /\ report \in [Reports -> {"none", "flagged", "signalled"}]
=============================================================================
