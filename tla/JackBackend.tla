---------------------------- MODULE JackBackend -----------------------------
(***************************************************************************)
(* The life of the JACK backend (JackBackend.cpp): the main thread's       *)
(* start(), stop() and destructor against JACK's threads, one of which     *)
(* calls process() and another the shutdown callback, which is registered  *)
(* by the constructor.  Both may report a failure, and reportFailure()     *)
(* clears the flag that stop() looks at.                                   *)
(*                                                                         *)
(* The service starts a backend once.                                      *)
(***************************************************************************)
CONSTANT AutoConnect \* config_.autoConnect
ASSUME AutoConnectAssumption == AutoConnect \in BOOLEAN

Reporters == {"process", "shutdown"}

VARIABLES
  mainPc,         \* where start(), stop() or the destructor is
  active,         \* active_
  failed,         \* failed_
  failureMessage, \* failureMessage_: who wrote it
  client,         \* the client as the library sees it
  server,         \* whether the JACK server is there
  processing,     \* process() is in the engine's callback
  reporting       \* where each reporter is in reportFailure()

failure == <<failed, failureMessage>>
vars == <<mainPc, active, failure, client, server, processing, reporting>>

(* Steps of reportFailure(); the reporter is past it at "done".            *)
inReport == {"message", "flag", "inactive", "signal"}

Init ==
  /\ mainPc = "idle"
  /\ active = FALSE /\ failed = FALSE /\ failureMessage = "none"
  /\ client = "open" /\ server = "up"
  /\ processing = FALSE
  /\ reporting = [r \in Reporters |-> "none"]

(* process() has not returned.                                             *)
inProcess == processing \/ reporting["process"] \in inReport

-----------------------------------------------------------------------------
(* The main thread *)

Start ==
  /\ mainPc = "idle"
  /\ failed' = FALSE
  /\ mainPc' = "clear"
  /\ UNCHANGED <<active, failureMessage, client, server, processing, reporting>>

ClearMessage ==
  /\ mainPc = "clear"
  /\ failureMessage' = "none"
  /\ mainPc' = "activate"
  /\ UNCHANGED <<active, failed, client, server, processing, reporting>>

(* Bug: the result of jack_activate is ignored.                            *)
ActivateUnchecked ==
  /\ mainPc = "activate"
  /\ client' = IF server = "up" THEN "active" ELSE client
  /\ mainPc' = "setActive"
  /\ UNCHANGED <<active, failure, server, processing, reporting>>

(* start() throws when the library refuses, and it does without a server.  *)
Activate ==
  /\ mainPc = "activate"
  /\ \/ server = "up" /\ client' = "active" /\ mainPc' = "setActive"
     \/ UNCHANGED client /\ mainPc' = "aborted"
  /\ UNCHANGED <<active, failure, server, processing, reporting>>

(* Bug: the message is cleared when the callbacks already run.             *)
SetActiveClearing ==
  /\ mainPc = "setActive"
  /\ active' = TRUE
  /\ failureMessage' = "none"
  /\ mainPc' = IF AutoConnect THEN "connect" ELSE "running"
  /\ UNCHANGED <<failed, client, server, processing, reporting>>

SetActive ==
  /\ mainPc = "setActive"
  /\ active' = TRUE
  /\ mainPc' = IF AutoConnect THEN "connect" ELSE "running"
  /\ UNCHANGED <<failure, client, server, processing, reporting>>

(* Bug: start() throws and leaves the client active.                       *)
ConnectLeaky ==
  /\ mainPc = "connect"
  /\ \/ mainPc' = "running"
     \/ mainPc' = "stopped"
  /\ UNCHANGED <<active, failure, client, server, processing, reporting>>

(* autoConnectPorts: a port may be refused; start() then stops and throws. *)
Connect ==
  /\ mainPc = "connect"
  /\ \/ mainPc' = "running"
     \/ mainPc' = "abort"
  /\ UNCHANGED <<active, failure, client, server, processing, reporting>>

(* stop(): active_.exchange(false)                                         *)
Stop ==
  /\ mainPc \in {"running", "abort"}
  /\ active' = FALSE
  /\ mainPc' = IF active THEN "deactivate" ELSE "stopped"
  /\ UNCHANGED <<failure, client, server, processing, reporting>>

(* jack_deactivate returns when process() has.                             *)
Deactivate ==
  /\ mainPc = "deactivate"
  /\ ~inProcess
  /\ client' = "open"
  /\ mainPc' = "stopped"
  /\ UNCHANGED <<active, failure, server, processing, reporting>>

(* Bug: the failed start's client is left to a handle that nobody closes.  *)
CloseLeaky ==
  /\ mainPc \in {"idle", "aborted", "stopped"}
  /\ ~processing /\ \A r \in Reporters : reporting[r] \notin inReport
  /\ client' = IF mainPc = "aborted" THEN "leaked" ELSE "closed"
  /\ mainPc' = "closed"
  /\ UNCHANGED <<active, failure, server, processing, reporting>>

(* The destructor's stop() finds active_ false; jack_client_close ends the *)
(* library's threads.                                                      *)
Close ==
  /\ mainPc \in {"idle", "aborted", "stopped"}
  /\ ~processing /\ \A r \in Reporters : reporting[r] \notin inReport
  /\ client' = "closed"
  /\ mainPc' = "closed"
  /\ UNCHANGED <<active, failure, server, processing, reporting>>

Main ==
  \/ Start \/ ClearMessage \/ Activate \/ SetActive \/ Connect
  \/ Stop \/ Deactivate \/ Close

-----------------------------------------------------------------------------
(* JACK's threads *)

main == <<mainPc, client>>

ProcessBegin ==
  /\ client = "active" /\ server = "up"
  /\ ~processing /\ reporting["process"] = "none"
  /\ processing' = TRUE
  /\ UNCHANGED <<main, active, failure, server, reporting>>

(* The callback returns or, unless it is noexcept, throws: then process()  *)
(* reports it and returns 1, and the library does not call it again.       *)
ProcessEnd ==
  /\ processing
  /\ processing' = FALSE
  /\ \/ UNCHANGED reporting
     \/ reporting' = [reporting EXCEPT !["process"] = "message"]
  /\ UNCHANGED <<main, active, failure, server>>

ServerStops ==
  /\ server = "up"
  /\ server' = "down"
  /\ UNCHANGED <<main, active, failure, processing, reporting>>

(* The shutdown callback has a thread of its own: a process() that is      *)
(* under way goes on.                                                      *)
Shutdown ==
  /\ server = "down"
  /\ client # "closed"
  /\ reporting["shutdown"] = "none"
  /\ reporting' = [reporting EXCEPT !["shutdown"] = "message"]
  /\ UNCHANGED <<main, active, failure, server, processing>>

(* reportFailure, by either thread                                         *)
ReportStep(r, from, to) ==
  /\ reporting[r] = from
  /\ reporting' = [reporting EXCEPT ![r] = to]
  /\ UNCHANGED <<main, server, processing>>

ReportMessage(r) ==
  /\ ReportStep(r, "message", "flag")
  /\ failureMessage' = r
  /\ UNCHANGED <<active, failed>>

ReportFlag(r) ==
  /\ ReportStep(r, "flag", "inactive")
  /\ failed' = TRUE
  /\ UNCHANGED <<active, failureMessage>>

ReportInactive(r) ==
  /\ ReportStep(r, "inactive", "signal")
  /\ active' = FALSE
  /\ UNCHANGED failure

ReportSignal(r) ==
  /\ ReportStep(r, "signal", "done")
  /\ UNCHANGED <<active, failure>>

Report(r) ==
  ReportMessage(r) \/ ReportFlag(r) \/ ReportInactive(r) \/ ReportSignal(r)

Next ==
  \/ Main \/ ProcessBegin \/ ProcessEnd \/ ServerStops \/ Shutdown
  \/ \E r \in Reporters : Report(r)

Spec == Init /\ [][Next]_vars

-----------------------------------------------------------------------------
(* Properties *)

TypeOK ==
  /\ mainPc \in {"idle", "clear", "activate", "setActive", "connect",
                 "running", "abort", "deactivate", "stopped", "aborted",
                 "closed"}
  /\ active \in BOOLEAN /\ failed \in BOOLEAN
  /\ failureMessage \in Reporters \cup {"none"}
  /\ client \in {"open", "active", "closed"}
  /\ server \in {"up", "down"}
  /\ processing \in BOOLEAN
  /\ reporting \in [Reporters -> inReport \cup {"none", "done"}]

started == {"setActive", "connect", "running", "abort", "deactivate", "stopped"}

(* A failure whose signal wakes the service up is still flagged when the   *)
(* service has stopped the backend, though start() clears the flag of a    *)
(* client whose shutdown callback may already have run: it then throws.    *)
NoFailureForgotten ==
  mainPc \in started =>
    \A r \in Reporters : reporting[r] \in {"inactive", "signal", "done"} => failed

(* The same race cannot lose the message: whoever finds failed() after a   *)
(* start that did not throw finds the reporter's text.                     *)
FailureIsExplained == mainPc \in started /\ failed => failureMessage # "none"

(* Every way out of start() and stop() deactivates the client, unless a    *)
(* report has cleared active_ before.                                      *)
StopDeactivates ==
  mainPc = "stopped" /\ client = "active" =>
    \E r \in Reporters : reporting[r] \in {"signal", "done"}

(* After engine.stop() the backend is stopped: process() is not in the     *)
(* engine, which is destroyed next, before the backend closes the client.  *)
(* The test of the engine has a backend stopped by then                    *)
(* (tests/audio/AudioEngineTest.cpp:46).                                   *)
StoppedIsQuiet == mainPc = "stopped" => ~processing
=============================================================================
