---------------------------- MODULE AlsaBackend -----------------------------
(***************************************************************************)
(* The ALSA backend (AlsaBackend.cpp) from its constructor to its          *)
(* destructor: the main thread's start() and stop() against the            *)
(* processing thread's read, compress, write loop.                         *)
(* stop() clears running_ and then drops both devices, which makes a       *)
(* blocked read or write return an error; the loop has to tell that error  *)
(* from a real one.                                                        *)
(*                                                                         *)
(* A device is "closed" (no handle), "open" (not configured), "ready"      *)
(* (prepared or running), in "xrun" (over- or underrun, suspended),        *)
(* "setup" (dropped) or "gone" (unplugged, the handle still there).  The   *)
(* audio is a number of frames of the current period.                      *)
(***************************************************************************)
EXTENDS Integers

CONSTANT PeriodFrames \* config_.periodFrames
ASSUME PeriodAssumption == PeriodFrames \in Nat \ {0}

Devices == {"capture", "playback"}

VARIABLES
  device,         \* state of each PCM device
  mainPc,         \* where the constructor, start(), stop() or closing is
  leaving,        \* the object goes: its destructor or a failed constructor
  running,        \* running_
  failed,         \* failed_
  failureMessage, \* failureMessage_: the device it is about
  threadPc,       \* where processingLoop() is
  frames,         \* frames read in this period
  writtenFrames,  \* frames of it written so far
  failing,        \* the device whose error is being handled
  error,          \* the error code it returned
  report          \* progress of reportFailure()

thread == <<threadPc, frames, writtenFrames, failing, error>>
flags == <<running, failed, failureMessage, report>>
vars == <<device, mainPc, leaving, flags, thread>>

Init ==
  /\ device = [d \in Devices |-> "closed"]
  /\ mainPc = "openCapture" /\ leaving = FALSE
  /\ running = FALSE /\ failed = FALSE /\ failureMessage = "none"
  /\ threadPc = "none" /\ frames = 0 /\ writtenFrames = 0
  /\ failing = "none" /\ error = "none"
  /\ report = "none"

-----------------------------------------------------------------------------
(* The constructor: openDevices() opens and configures one device after    *)
(* the other, and closes what it had opened when a call fails.             *)

(* Bug: closeDevices() is left to the destructor, which does not run.      *)
ThrowLeaking ==
  /\ leaving' = TRUE
  /\ mainPc' = "destroyed"
  /\ UNCHANGED device

Throw ==
  /\ leaving' = TRUE
  /\ mainPc' = "idle"
  /\ UNCHANGED device

OpenDevice(d, here, next) ==
  /\ mainPc = here
  /\ \/ /\ device' = [device EXCEPT ![d] = "open"]
        /\ mainPc' = next
        /\ UNCHANGED leaving
     \/ Throw
  /\ UNCHANGED <<flags, thread>>

ConfigureDevice(d, here, next) ==
  /\ mainPc = here
  /\ \/ /\ device[d] = "open"
        /\ device' = [device EXCEPT ![d] = "ready"]
        /\ mainPc' = next
        /\ UNCHANGED leaving
     \/ Throw
  /\ UNCHANGED <<flags, thread>>

Construct ==
  \/ OpenDevice("capture", "openCapture", "configureCapture")
  \/ ConfigureDevice("capture", "configureCapture", "openPlayback")
  \/ OpenDevice("playback", "openPlayback", "configurePlayback")
  \/ ConfigureDevice("playback", "configurePlayback", "idle")

-----------------------------------------------------------------------------
(* The main thread *)

(* Bug: start() clears the message and not the flag.                       *)
StartHalfCleared ==
  /\ mainPc \in {"idle", "stopped"} /\ ~leaving
  /\ mainPc' = "prepareCapture"
  /\ failureMessage' = "none"
  /\ report' = "none"
  /\ UNCHANGED <<device, leaving, running, failed, thread>>

Start ==
  /\ mainPc \in {"idle", "stopped"} /\ ~leaving
  /\ mainPc' = "prepareCapture"
  /\ failed' = FALSE
  /\ failureMessage' = "none"
  /\ report' = "none"
  /\ UNCHANGED <<device, leaving, running, thread>>

(* snd_pcm_prepare brings a device that is still there back from any       *)
(* state, or fails; then start() throws.                                   *)
PrepareDevice(d, here, next) ==
  /\ mainPc = here
  /\ \/ /\ device[d] # "gone"
        /\ device' = [device EXCEPT ![d] = "ready"]
        /\ mainPc' = next
     \/ /\ mainPc' = "stopped"
        /\ UNCHANGED device
  /\ UNCHANGED <<leaving, flags, thread>>

(* The system may refuse a thread: start() throws with running_ set.       *)
StartThread ==
  /\ mainPc = "startThread"
  /\ running' = TRUE
  /\ \/ threadPc' = "begin" /\ mainPc' = "running"
     \/ mainPc' = "stopped" /\ UNCHANGED threadPc
  /\ UNCHANGED <<device, leaving, failed, failureMessage, frames, writtenFrames,
                 failing, error, report>>

Prepare ==
  \/ PrepareDevice("capture", "prepareCapture", "preparePlayback")
  \/ PrepareDevice("playback", "preparePlayback", "startThread")

Stop ==
  /\ mainPc = "running"
  /\ running' = FALSE
  /\ mainPc' = "dropCapture"
  /\ UNCHANGED <<device, leaving, failed, failureMessage, thread, report>>

Drop(d) ==
  device' = IF device[d] = "gone" THEN device ELSE [device EXCEPT ![d] = "setup"]

(* The destructor calls stop(), which has nothing to wait for and nobody   *)
(* to disturb when no thread runs.                                         *)
Destroy ==
  /\ mainPc \in {"idle", "running", "stopped"} /\ ~leaving
  /\ leaving' = TRUE
  /\ running' = FALSE
  /\ mainPc' = IF mainPc = "running" THEN "dropCapture" ELSE mainPc
  /\ UNCHANGED <<device, failed, failureMessage, thread, report>>

(* Bug: stop() relies on the flag alone.                                   *)
DropCaptureForgotten ==
  /\ mainPc = "dropCapture"
  /\ mainPc' = "dropPlayback"
  /\ UNCHANGED <<device, leaving, flags, thread>>

DropCapture ==
  /\ mainPc = "dropCapture"
  /\ Drop("capture")
  /\ mainPc' = "dropPlayback"
  /\ UNCHANGED <<leaving, flags, thread>>

DropPlayback ==
  /\ mainPc = "dropPlayback"
  /\ Drop("playback")
  /\ mainPc' = "join"
  /\ UNCHANGED <<leaving, flags, thread>>

(* Bug: the thread is detached.                                            *)
JoinDetached ==
  /\ mainPc = "join"
  /\ mainPc' = "stopped"
  /\ UNCHANGED <<device, leaving, flags, thread>>

Join ==
  /\ mainPc = "join"
  /\ threadPc = "ended"
  /\ threadPc' = "none" /\ frames' = 0 /\ writtenFrames' = 0
  /\ failing' = "none" /\ error' = "none"
  /\ mainPc' = "stopped"
  /\ UNCHANGED <<device, leaving, flags>>

(* closeDevices                                                            *)
CloseCapture ==
  /\ mainPc \in {"idle", "stopped"} /\ leaving
  /\ device' = [device EXCEPT !["capture"] = "closed"]
  /\ mainPc' = "closePlayback"
  /\ UNCHANGED <<leaving, flags, thread>>

ClosePlayback ==
  /\ mainPc = "closePlayback"
  /\ device' = [device EXCEPT !["playback"] = "closed"]
  /\ mainPc' = "destroyed"
  /\ UNCHANGED <<leaving, flags, thread>>

Main ==
  \/ Construct \/ Start \/ Prepare \/ StartThread \/ Stop \/ Destroy
  \/ DropCapture \/ DropPlayback \/ Join \/ CloseCapture \/ ClosePlayback

-----------------------------------------------------------------------------
(* The processing thread *)

main_ == <<mainPc, leaving, failed, failureMessage>>

(* The loop's buffers are allocated, or an exception is reported.          *)
Allocate ==
  /\ threadPc = "begin"
  /\ \/ threadPc' = "check" /\ UNCHANGED failing
     \/ threadPc' = "report" /\ failing' = "memory"
  /\ UNCHANGED <<device, running, main_, frames, writtenFrames, error, report>>

Check ==
  /\ threadPc = "check"
  /\ threadPc' = IF running THEN "read" ELSE "ended"
  /\ UNCHANGED <<device, running, main_, frames, writtenFrames, failing, error,
                 report>>

(* Bug: the count of written frames is not reset for a new period.         *)
ReadFramesAppending(n) ==
  /\ threadPc = "read"
  /\ device["capture"] = "ready"
  /\ frames' = n
  /\ threadPc' = "process"
  /\ UNCHANGED <<device, running, main_, writtenFrames, failing, error, report>>

(* snd_pcm_readi blocks until there are frames...                          *)
ReadFrames(n) ==
  /\ threadPc = "read"
  /\ device["capture"] = "ready"
  /\ frames' = n
  /\ writtenFrames' = 0
  /\ threadPc' = "process"
  /\ UNCHANGED <<device, running, main_, failing, error, report>>

ReadNothing ==
  /\ threadPc = "read"
  /\ device["capture"] = "ready"
  /\ threadPc' = "check"
  /\ UNCHANGED <<device, running, main_, frames, writtenFrames, failing, error,
                 report>>

(* ... or the device is not ready.                                         *)
Fails(d, next) ==
  /\ device[d] # "ready"
  /\ failing' = d
  /\ error' = device[d]
  /\ threadPc' = next
  /\ UNCHANGED <<device, running, main_, frames, writtenFrames, report>>

ReadError ==
  /\ threadPc = "read"
  /\ Fails("capture", "readError")

(* Bug: every read error is recovered from or reported.                    *)
ReadErrorCheckDropped ==
  /\ threadPc = "readError"
  /\ threadPc' = "recover"
  /\ UNCHANGED <<device, running, main_, frames, writtenFrames, failing, error,
                 report>>

(* A capture error that stop() caused is none: `running_ && !recover()`.   *)
ReadErrorCheck ==
  /\ threadPc = "readError"
  /\ threadPc' = IF running THEN "recover" ELSE "check"
  /\ UNCHANGED <<device, running, main_, frames, writtenFrames, failing, error,
                 report>>

Process ==
  /\ threadPc = "process"
  /\ threadPc' = "writeCheck"
  /\ UNCHANGED <<device, running, main_, frames, writtenFrames, failing, error,
                 report>>

WriteCheck ==
  /\ threadPc = "writeCheck"
  /\ threadPc' = IF running /\ writtenFrames < frames THEN "write" ELSE "check"
  /\ UNCHANGED <<device, running, main_, frames, writtenFrames, failing, error,
                 report>>

(* snd_pcm_writei blocks until the device has taken some of the frames.    *)
WriteFrames(n) ==
  /\ threadPc = "write"
  /\ device["playback"] = "ready"
  /\ n <= frames - writtenFrames
  /\ writtenFrames' = writtenFrames + n
  /\ threadPc' = "writeCheck"
  /\ UNCHANGED <<device, running, main_, frames, failing, error, report>>

WriteError ==
  /\ threadPc = "write"
  /\ Fails("playback", "recover")

(* Bug: after an underrun the rest of the period is given up.              *)
RecoverSkipping ==
  /\ threadPc = "recover"
  /\ IF error = "xrun" /\ device[failing] # "gone"
       THEN /\ device' = [device EXCEPT ![failing] = "ready"]
            /\ threadPc' = "check"
       ELSE /\ threadPc' = "report"
            /\ UNCHANGED device
  /\ UNCHANGED <<running, main_, frames, writtenFrames, failing, error, report>>

(* snd_pcm_recover prepares the device after an xrun, whatever state it is *)
(* in by now, and hands any other error back.                              *)
Recover ==
  /\ threadPc = "recover"
  /\ IF error = "xrun" /\ device[failing] # "gone"
       THEN /\ device' = [device EXCEPT ![failing] = "ready"]
            /\ threadPc' = IF failing = "capture" THEN "check" ELSE "writeCheck"
       ELSE /\ threadPc' = "report"
            /\ UNCHANGED device
  /\ UNCHANGED <<running, main_, frames, writtenFrames, failing, error, report>>

(* reportFailure, then the thread returns                                  *)
ReportMessage ==
  /\ threadPc = "report"
  /\ failureMessage' = failing
  /\ threadPc' = "reportFlag"
  /\ UNCHANGED <<device, mainPc, leaving, running, failed, frames,
                 writtenFrames, failing, error, report>>

ReportFlag ==
  /\ threadPc = "reportFlag"
  /\ failed' = TRUE
  /\ report' = "flagged"
  /\ threadPc' = "reportStop"
  /\ UNCHANGED <<device, mainPc, leaving, running, failureMessage, frames,
                 writtenFrames, failing, error>>

ReportStop ==
  /\ threadPc = "reportStop"
  /\ running' = FALSE
  /\ threadPc' = "reportSignal"
  /\ UNCHANGED <<device, main_, frames, writtenFrames, failing, error, report>>

ReportSignal ==
  /\ threadPc = "reportSignal"
  /\ report' = "signalled"
  /\ threadPc' = "ended"
  /\ UNCHANGED <<device, running, main_, frames, writtenFrames, failing, error>>

ThreadAlone ==
  \/ Allocate \/ Check \/ ReadError \/ ReadErrorCheck \/ Process \/ WriteCheck
  \/ WriteError \/ Recover
  \/ ReportMessage \/ ReportFlag \/ ReportStop \/ ReportSignal

Thread ==
  \/ ThreadAlone
  \/ ReadNothing
  \/ \E n \in 1..PeriodFrames : ReadFrames(n) \/ WriteFrames(n)

-----------------------------------------------------------------------------
(* The hardware: the application is late, or the device is unplugged.      *)
Hardware ==
  /\ \E d \in Devices :
       \/ device[d] = "ready" /\ device' = [device EXCEPT ![d] = "xrun"]
       \/ /\ device[d] \notin {"gone", "closed"}
          /\ device' = [device EXCEPT ![d] = "gone"]
  /\ UNCHANGED <<mainPc, leaving, flags, thread>>

Terminated == mainPc = "destroyed" /\ UNCHANGED vars

Next == Main \/ Thread \/ Hardware \/ Terminated

Spec == Init /\ [][Next]_vars

(* The threads are scheduled.  Nobody promises that frames arrive or that  *)
(* the playback device takes any, and the main thread stops when it likes. *)
FairSpec ==
  /\ Spec
  /\ WF_vars(DropCapture) /\ WF_vars(DropPlayback) /\ WF_vars(Join)
  /\ WF_vars(ThreadAlone)

-----------------------------------------------------------------------------
(* Properties *)

TypeOK ==
  /\ device \in [Devices -> {"closed", "open", "ready", "xrun", "setup", "gone"}]
  /\ mainPc \in {"openCapture", "configureCapture", "openPlayback",
                 "configurePlayback", "idle", "prepareCapture",
                 "preparePlayback", "startThread", "running", "dropCapture", "dropPlayback", "join", "stopped",
                 "closePlayback", "destroyed"}
  /\ leaving \in BOOLEAN
  /\ running \in BOOLEAN /\ failed \in BOOLEAN
  /\ failureMessage \in Devices \cup {"none", "memory"}
  /\ threadPc \in {"none", "begin", "check", "read", "readError", "process",
                   "writeCheck", "write", "recover", "report", "reportFlag",
                   "reportStop", "reportSignal", "ended"}
  /\ frames \in 0..PeriodFrames
  /\ writtenFrames \in 0..frames
  /\ failing \in Devices \cup {"none", "memory"}
  /\ error \in {"none", "xrun", "setup", "gone"}
  /\ report \in {"none", "flagged", "signalled"}

(* Stopping the service while the loop waits for input is never taken for  *)
(* a failure: the capture device is reported only when it was lost.        *)
CaptureFailureIsReal ==
  failureMessage = "capture" => device["capture"] \in {"gone", "closed"}

(* The same for the playback device: README.md:24 lists the SIGINT and     *)
(* SIGTERM shutdown as a feature, not as a failure of the output.          *)
PlaybackFailureIsReal ==
  failureMessage = "playback" => device["playback"] \in {"gone", "closed"}

(* No period is read while frames of the one before are unwritten, though  *)
(* writes may be short and the playback device may underrun and be         *)
(* recovered in the middle of a period.                                    *)
PeriodFullyWritten ==
  [][\A n \in 1..PeriodFrames : ReadFrames(n) => writtenFrames = frames]_vars

(* Who sees failed() finds the message that explains it.                   *)
FailureIsExplained == failed => failureMessage # "none"

(* No handle outlives the object, whichever call of the constructor failed *)
(* and from whatever state it was destroyed, and none is closed before the *)
(* thread that reads and writes through it has ended.                      *)
HandlesMatchLifetime ==
  /\ mainPc = "destroyed" => \A d \in Devices : device[d] = "closed"
  /\ threadPc \notin {"none", "ended"} =>
       \A d \in Devices : device[d] \notin {"closed", "open"}

(* stop() returns, also when no frame ever arrives again: dropping the     *)
(* devices frees a thread that is blocked in a read or a write.            *)
StopReturns == mainPc = "dropCapture" ~> mainPc = "stopped"

(* The backend keeps the contract the application relies on, across any   *)
(* number of starts and stops.                                             *)
contractPhase ==
  CASE mainPc \in {"prepareCapture", "preparePlayback", "startThread"} -> "starting"
    [] mainPc \in {"dropCapture", "dropPlayback", "join"} -> "stopping"
    [] mainPc \in {"openCapture", "configureCapture", "openPlayback",
                   "configurePlayback"} -> "idle"
    [] mainPc = "closePlayback" -> "destroyed"
    [] OTHER -> mainPc

Contract == INSTANCE AudioBackend
  WITH Reports <- {"processingThread"},
       phase <- contractPhase,
       callback <- threadPc = "process",
       report <- [r \in {"processingThread"} |-> report]

RefinesContract == Contract!Spec
=============================================================================
