---------------------------- MODULE Application -----------------------------
(***************************************************************************)
(* The life of the service process: main() and Application::run() with     *)
(* the signal mask (SignalHandler), the worker thread of the meter server  *)
(* and an audio backend that keeps the contract of AudioBackend.  The      *)
(* questions are in which order threads, sockets and objects go away, and  *)
(* how the process ends.                                                   *)
(***************************************************************************)
CONSTANT Reports \* failures the backend may report

VARIABLES
  phase, callback, failed, report, \* the backend, see AudioBackend
  pc,        \* where the main thread is
  unwinding, \* an exception is on its way to main()'s handler
  blocked,   \* SIGINT and SIGTERM are blocked in every thread
  pending,   \* signals sent to the process that nobody took yet
  userSent,  \* bound: each signal is sent by the user at most once
  engine,    \* the AudioEngine object
  socket,    \* MeterServer::socket_
  running,   \* MeterServer::running_
  worker,    \* where MeterServer::serve() is
  result,    \* what run() returned
  status     \* how the process ended

backend == <<phase, callback, failed, report>>
server == <<socket, running, worker>>
mask == <<blocked, pending, userSent>>
ending == <<result, status>>
vars == <<backend, pc, unwinding, mask, engine, server, ending>>

Backend == INSTANCE AudioBackend

Signals == {"INT", "TERM"}

Init ==
  /\ Backend!Init
  /\ pc = "mask"
  /\ unwinding = FALSE
  /\ blocked = FALSE /\ pending = {} /\ userSent = {}
  /\ engine = "none"
  /\ socket = "closed" /\ running = FALSE /\ worker = "none"
  /\ result = "none" /\ status = "none"

-----------------------------------------------------------------------------
(* The main thread *)

(* SignalHandler::SignalHandler                                            *)
BlockSignals ==
  /\ pc = "mask"
  /\ blocked' = TRUE
  /\ pc' = "construct"
  /\ UNCHANGED <<backend, unwinding, pending, userSent, engine, server, ending>>

(* Application::Application: the factory opens the configured backend.     *)
Construct ==
  /\ pc = "construct"
  /\ \/ engine' = "alive" /\ pc' = "startMeters" /\ UNCHANGED unwinding
     \/ unwinding' = TRUE /\ pc' = "unblock" /\ UNCHANGED engine
  /\ UNCHANGED <<backend, mask, server, ending>>

(* MeterServer::start: another service of the same user may own the name.  *)
StartMeters ==
  /\ pc = "startMeters"
  /\ \/ /\ socket' = "open" /\ running' = TRUE /\ worker' = "check"
        /\ pc' = "startEngine" /\ UNCHANGED unwinding
     \/ unwinding' = TRUE /\ pc' = "destroyEngine" /\ UNCHANGED server
  /\ UNCHANGED <<backend, mask, engine, ending>>

StartEngine ==
  /\ pc = "startEngine"
  /\ Backend!BeginStart
  /\ pc' = "starting"
  /\ UNCHANGED <<unwinding, mask, engine, server, ending>>

(* Bug: the meter server has no destructor that stops it.                  *)
EngineStartedLeaky ==
  /\ pc = "starting"
  /\ \/ Backend!CompleteStart /\ pc' = "wait" /\ UNCHANGED unwinding
     \/ Backend!AbortStart /\ unwinding' = TRUE /\ pc' = "destroyEngine"
  /\ UNCHANGED <<mask, engine, server, ending>>

(* A start() that throws leaves run() through the destructor of `meters`.  *)
EngineStarted ==
  /\ pc = "starting"
  /\ \/ Backend!CompleteStart /\ pc' = "wait" /\ UNCHANGED unwinding
     \/ Backend!AbortStart /\ unwinding' = TRUE /\ pc' = "stopMeters"
  /\ UNCHANGED <<mask, engine, server, ending>>

(* SignalHandler::wait: sigwait takes one pending signal, or fails.        *)
Wait ==
  /\ pc = "wait"
  /\ \/ /\ \E s \in pending : pending' = pending \ {s}
        /\ UNCHANGED unwinding
     \/ unwinding' = TRUE /\ UNCHANGED pending
  /\ pc' = "stopEngine"
  /\ UNCHANGED <<backend, blocked, userSent, engine, server, ending>>

StopEngine ==
  /\ pc = "stopEngine"
  /\ Backend!BeginStop
  /\ pc' = "stopping"
  /\ UNCHANGED <<unwinding, mask, engine, server, ending>>

EngineStopped ==
  /\ pc = "stopping"
  /\ Backend!CompleteStop
  /\ pc' = "stopMeters"
  /\ UNCHANGED <<unwinding, mask, engine, server, ending>>

(* Bug: the socket is closed to wake the worker up.                        *)
StopMetersClosing ==
  /\ pc = "stopMeters"
  /\ running' = FALSE
  /\ socket' = "closed"
  /\ pc' = "joinMeters"
  /\ UNCHANGED <<backend, unwinding, mask, engine, worker, ending>>

(* Bug: the worker is joined but not told to leave.                        *)
StopMetersSilently ==
  /\ pc = "stopMeters"
  /\ pc' = "joinMeters"
  /\ UNCHANGED <<backend, unwinding, mask, engine, server, ending>>

(* MeterServer::stop, called by run() and by the destructor                *)
StopMeters ==
  /\ pc = "stopMeters"
  /\ running' = FALSE
  /\ pc' = "joinMeters"
  /\ UNCHANGED <<backend, unwinding, mask, engine, socket, worker, ending>>

JoinMeters ==
  /\ pc = "joinMeters"
  /\ worker = "done"
  /\ socket' = "closed"
  /\ pc' = IF unwinding THEN "destroyEngine" ELSE "verdict"
  /\ UNCHANGED <<backend, unwinding, mask, engine, running, worker, ending>>

(* Bug: run() returns the number of the signal it received.                *)
VerdictSignalNumber ==
  /\ pc = "verdict"
  /\ result' = IF failed THEN "error" ELSE "TERM"
  /\ pc' = "destroyEngine"
  /\ UNCHANGED <<backend, unwinding, mask, engine, server, status>>

Verdict ==
  /\ pc = "verdict"
  /\ result' = IF failed THEN "error" ELSE "ok"
  /\ pc' = "destroyEngine"
  /\ UNCHANGED <<backend, unwinding, mask, engine, server, status>>

(* ~Application: engine_ is declared after backend_ and goes first.        *)
DestroyEngine ==
  /\ pc = "destroyEngine"
  /\ engine' = "destroyed"
  /\ pc' = "unblock"
  /\ UNCHANGED <<backend, unwinding, mask, server, ending>>

(* ~SignalHandler: a signal that is still pending takes its default        *)
(* action, the end of the process.                                         *)
UnblockSignals ==
  /\ pc = "unblock"
  /\ blocked' = FALSE
  /\ IF pending = {}
       THEN pc' = "return" /\ UNCHANGED status
       ELSE pc' = "exit" /\ status' = "killed"
  /\ UNCHANGED <<backend, unwinding, pending, userSent, engine, server, result>>

(* main() returns 1 from its handler, else what run() returned.            *)
Return ==
  /\ pc = "return"
  /\ status' = IF unwinding THEN "error" ELSE result
  /\ pc' = "exit"
  /\ UNCHANGED <<backend, unwinding, mask, engine, server, result>>

Main ==
  \/ BlockSignals \/ Construct \/ StartMeters \/ StartEngine \/ EngineStarted
  \/ StopEngine \/ EngineStopped \/ StopMeters \/ JoinMeters \/ Verdict
  \/ DestroyEngine \/ UnblockSignals \/ Return \/ Wait

-----------------------------------------------------------------------------
(* MeterServer::serve: the worker polls and accepts on the socket, then    *)
(* takes the levels of the engine; when it leaves it disables the meters.  *)
worker_ == <<backend, pc, unwinding, mask, engine, socket, running, ending>>

Serve ==
  /\ pc # "exit"
  /\ \/ worker = "check" /\ worker' = IF running THEN "poll" ELSE "leave"
     \/ worker = "poll"  /\ worker' = "levels"
     \/ worker = "levels" /\ worker' = "check"
     \/ worker = "leave" /\ worker' = "done"
  /\ UNCHANGED worker_

-----------------------------------------------------------------------------
(* The backend's threads and the user *)

process_ == <<pc, unwinding, engine, server, ending>>

RunCallback ==
  /\ pc # "exit"
  /\ Backend!BeginCallback
  /\ UNCHANGED <<process_, mask>>

EndCallback ==
  /\ pc # "exit"
  /\ Backend!EndCallback
  /\ UNCHANGED <<process_, mask>>

FlagFailure(r) ==
  /\ pc # "exit"
  /\ Backend!Flag(r)
  /\ UNCHANGED <<process_, mask>>

(* Bug: the backend sets its flag and does not wake the main thread.       *)
SignalFailureSilently(r) ==
  /\ pc # "exit"
  /\ Backend!Signal(r)
  /\ UNCHANGED <<process_, mask>>

(* SIGTERM is blocked for as long as the backend exists.                   *)
SignalFailure(r) ==
  /\ pc # "exit"
  /\ Backend!Signal(r)
  /\ pending' = pending \cup {"TERM"}
  /\ UNCHANGED <<process_, blocked, userSent>>

UserSignal(s) ==
  /\ pc # "exit"
  /\ s \notin userSent
  /\ userSent' = userSent \cup {s}
  /\ IF blocked
       THEN pending' = pending \cup {s} /\ UNCHANGED <<pc, status>>
       ELSE pc' = "exit" /\ status' = "killed" /\ UNCHANGED pending
  /\ UNCHANGED <<backend, unwinding, blocked, engine, server, result>>

BackendThreads ==
  \/ RunCallback \/ EndCallback
  \/ \E r \in Reports : FlagFailure(r) \/ SignalFailure(r)

Terminated == pc = "exit" /\ UNCHANGED vars

Next ==
  \/ Main \/ Serve \/ BackendThreads
  \/ \E s \in Signals : UserSignal(s)
  \/ Terminated

Spec == Init /\ [][Next]_vars

(* Threads are scheduled; sigwait need not return without a signal.        *)
(* stop() ends the backend's loop before it joins it, so it returns though *)
(* callbacks may go on until then: strong fairness stands for that.        *)
FairSpec ==
  /\ Spec
  /\ WF_vars(Main /\ (pc = "wait" => pending # {}))
  /\ SF_vars(EngineStopped)
  /\ WF_vars(Serve)
  /\ WF_vars(EndCallback)
  /\ \A r \in Reports : WF_vars(SignalFailure(r))

-----------------------------------------------------------------------------
(* Properties *)

TypeOK ==
  /\ Backend!TypeOK
  /\ pc \in {"mask", "construct", "startMeters", "startEngine", "starting",
             "wait", "stopEngine", "stopping", "stopMeters", "joinMeters",
             "verdict", "destroyEngine", "unblock", "return", "exit"}
  /\ unwinding \in BOOLEAN /\ blocked \in BOOLEAN /\ running \in BOOLEAN
  /\ pending \subseteq Signals /\ userSent \subseteq Signals
  /\ engine \in {"none", "alive", "destroyed"}
  /\ socket \in {"open", "closed"}
  /\ worker \in {"none", "check", "poll", "levels", "leave", "done"}
  /\ result \in {"none", "ok", "error"}
  /\ status \in {"none", "ok", "error", "killed"}

(* On every way out of run(), also by an exception, the engine outlives    *)
(* the threads that call it: the backend's callback and the meter worker.  *)
EngineOutlivesUsers ==
  engine # "alive" => ~callback /\ worker \in {"none", "done"}

(* The descriptor the worker polls is closed only after the worker has     *)
(* ended; another file could get its number.                               *)
SocketOutlivesWorker == worker \notin {"none", "done"} => socket = "open"

(* A signal that arrives while signals are blocked ends the service, in    *)
(* whatever phase it arrives.                                              *)
SignalEndsService == blocked /\ pending # {} ~> pc = "exit"

(* A backend failure ends the service, also one during start().            *)
FailureEndsService == failed ~> pc = "exit"

(* README.md:24 promises an orderly shutdown through sigwait, and          *)
(* audiocompd.service:11 restarts the service on failure: a failure the    *)
(* backend reported, with no signal from the user, should end in status 1. *)
FailureExitsWithStatusOne ==
  status # "none" /\ userSent = {} /\ (\E r \in Reports : report[r] # "none")
    => status = "error"
=============================================================================
