-------------------------- MODULE PipeWireBackend ---------------------------
(***************************************************************************)
(* The life of the two streams of the PipeWire backend                     *)
(* (PipeWireBackend.cpp): the main thread's start() and stop(), the thread *)
(* loop that reports stream errors, and the data thread that calls         *)
(* processCapture() and processPlayback().  The loop's lock is held by its *)
(* thread except while it polls; to end, the thread needs the lock too.    *)
(* pw_stream_destroy() waits for a process callback of the stream.         *)
(***************************************************************************)
Streams == {"capture", "playback"}

VARIABLES
  mainPc,         \* where start() or stop() is
  loop,           \* whether loop_'s thread runs
  lock,           \* who holds the lock of loop_
  stream,         \* captureStream_, playbackStream_
  active,         \* active_
  failed,         \* failed_
  failureMessage, \* failureMessage_: the stream it is about
  callback,       \* callback_ holds a function
  loopPc,         \* where the loop's thread is
  failing,        \* the stream whose error it reports
  processing,     \* streams whose process callback runs
  report          \* progress of each stream's reportFailure()

loopThread == <<loopPc, failing, report>>
failure == <<failed, failureMessage>>
vars == <<mainPc, loop, lock, stream, active, failure, callback, loopThread,
          processing>>

noStream == [s \in Streams |-> "none"]
noReport == [s \in Streams |-> "none"]

Init ==
  /\ mainPc = "idle"
  /\ loop = "off" /\ lock = "free"
  /\ stream = noStream
  /\ active = FALSE /\ failed = FALSE /\ failureMessage = "none"
  /\ callback = FALSE
  /\ loopPc = "poll" /\ failing = "none"
  /\ processing = {}
  /\ report = noReport

-----------------------------------------------------------------------------
(* start() *)

Start ==
  /\ mainPc \in {"idle", "stopped"}
  /\ ~active
  /\ callback' = TRUE
  /\ failed' = FALSE
  /\ failureMessage' = "none"
  /\ report' = noReport
  /\ mainPc' = "lock"
  /\ UNCHANGED <<loop, lock, stream, active, loopPc, failing, processing>>

Lock(from, to) ==
  /\ mainPc = from
  /\ lock = "free"
  /\ lock' = "main"
  /\ mainPc' = to
  /\ UNCHANGED <<loop, stream, active, failure, callback, loopThread,
                 processing>>

LockToStart == Lock("lock", "startLoop")

StartLoop ==
  /\ mainPc = "startLoop"
  /\ \/ loop' = "on" /\ mainPc' = "createCapture"
     \/ UNCHANGED loop /\ mainPc' = "abortPlayback"
  /\ UNCHANGED <<lock, stream, active, failure, callback, loopThread,
                 processing>>

(* createStreams: a stream is there and connected, or there, or not.       *)
Create(s, from, to) ==
  /\ mainPc = from
  /\ \/ stream' = [stream EXCEPT ![s] = "connected"] /\ mainPc' = to
     \/ stream' = [stream EXCEPT ![s] = "created"] /\ mainPc' = "abortPlayback"
     \/ UNCHANGED stream /\ mainPc' = "abortPlayback"
  /\ UNCHANGED <<loop, lock, active, failure, callback, loopThread,
                 processing>>

CreateStreams ==
  \/ Create("capture", "createCapture", "createPlayback")
  \/ Create("playback", "createPlayback", "activate")

Activate ==
  /\ mainPc = "activate"
  /\ active' = TRUE
  /\ lock' = "free"
  /\ mainPc' = "running"
  /\ UNCHANGED <<loop, stream, failure, callback, loopThread, processing>>

-----------------------------------------------------------------------------
(* What the error path of start() and stop() share *)

(* Bug: the pointer to the destroyed stream is kept.                       *)
DestroyDangling(s, from, to) ==
  /\ mainPc = from
  /\ s \notin processing
  /\ stream' = [stream EXCEPT ![s] = "dangling"]
  /\ mainPc' = to
  /\ UNCHANGED <<loop, lock, active, failure, callback, loopThread, processing>>

Destroy(s, from, to) ==
  /\ mainPc = from
  /\ s \notin processing
  /\ stream' = [stream EXCEPT ![s] = "none"]
  /\ mainPc' = to
  /\ UNCHANGED <<loop, lock, active, failure, callback, loopThread, processing>>

DestroyStreams ==
  \/ Destroy("playback", "abortPlayback", "abortCapture")
  \/ Destroy("capture", "abortCapture", "abortUnlock")
  \/ Destroy("playback", "stopPlayback", "stopCapture")
  \/ Destroy("capture", "stopCapture", "stopUnlock")

(* pw_thread_loop_stop joins the thread, which takes the lock to leave its *)
(* poll.                                                                   *)
StopLoop(from, to) ==
  /\ mainPc = from
  /\ loop = "on" => lock = "free" /\ loopPc = "poll"
  /\ loop' = "off"
  /\ mainPc' = to
  /\ UNCHANGED <<lock, stream, active, failure, callback, loopThread,
                 processing>>

-----------------------------------------------------------------------------
(* The error path of start() *)

(* Bug: the lock is not given back before the thread is joined.            *)
AbortUnlockForgotten ==
  /\ mainPc = "abortUnlock"
  /\ mainPc' = "abortLoop"
  /\ UNCHANGED <<loop, lock, stream, active, failure, callback, loopThread,
                 processing>>

AbortUnlock ==
  /\ mainPc = "abortUnlock"
  /\ lock' = "free"
  /\ mainPc' = "abortLoop"
  /\ UNCHANGED <<loop, stream, active, failure, callback, loopThread,
                 processing>>

(* ... and callback_ is emptied, once no stream can call it.               *)
ClearCallback(from) ==
  /\ mainPc = from
  /\ callback' = FALSE
  /\ mainPc' = "stopped"
  /\ UNCHANGED <<loop, lock, stream, active, failure, loopThread, processing>>

AbortStart == StopLoop("abortLoop", "abortClear") \/ ClearCallback("abortClear")

-----------------------------------------------------------------------------
(* stop() *)

(* Bug: callback_ is emptied first.                                        *)
StopClearing ==
  /\ mainPc = "running"
  /\ active' = FALSE
  /\ callback' = FALSE
  /\ mainPc' = "stopLoop"
  /\ UNCHANGED <<loop, lock, stream, failure, loopThread, processing>>

(* Bug: active_ alone decides, which a failure report has cleared.         *)
StopWhenActive ==
  /\ mainPc = "running"
  /\ active' = FALSE
  /\ mainPc' = IF active THEN "stopLoop" ELSE "stopped"
  /\ UNCHANGED <<loop, lock, stream, failure, callback, loopThread, processing>>

(* stop() returns at once only when there are no streams either; it then   *)
(* changes nothing.                                                        *)
Stop ==
  /\ mainPc = "running"
  /\ active' = FALSE
  /\ mainPc' = IF active \/ stream # noStream THEN "stopLoop" ELSE "stopped"
  /\ UNCHANGED <<loop, lock, stream, failure, callback, loopThread, processing>>

StopUnlock ==
  /\ mainPc = "stopUnlock"
  /\ lock' = "free"
  /\ mainPc' = "stopClear"
  /\ UNCHANGED <<loop, stream, active, failure, callback, loopThread,
                 processing>>

FinishStop ==
  \/ StopLoop("stopLoop", "stopLock")
  \/ Lock("stopLock", "stopPlayback")
  \/ StopUnlock
  \/ ClearCallback("stopClear")

-----------------------------------------------------------------------------
(* The loop's thread *)

main == <<mainPc, loop, stream, callback, processing>>

(* A stream enters the error state; streamStateChangedCallback is called   *)
(* with the lock held.                                                     *)
StreamError(s) ==
  /\ loop = "on" /\ lock = "free" /\ loopPc = "poll"
  /\ stream[s] = "connected"
  /\ report[s] = "none"
  /\ lock' = "loop"
  /\ loopPc' = "message"
  /\ failing' = s
  /\ UNCHANGED <<main, active, failure, report>>

ReportMessage ==
  /\ loopPc = "message"
  /\ failureMessage' = failing
  /\ loopPc' = "flag"
  /\ UNCHANGED <<main, lock, active, failed, failing, report>>

ReportFlag ==
  /\ loopPc = "flag"
  /\ failed' = TRUE
  /\ report' = [report EXCEPT ![failing] = "flagged"]
  /\ loopPc' = "inactive"
  /\ UNCHANGED <<main, lock, active, failureMessage, failing>>

ReportInactive ==
  /\ loopPc = "inactive"
  /\ active' = FALSE
  /\ loopPc' = "signal"
  /\ UNCHANGED <<main, lock, failure, failing, report>>

ReportSignal ==
  /\ loopPc = "signal"
  /\ report' = [report EXCEPT ![failing] = "signalled"]
  /\ failing' = "none"
  /\ loopPc' = "poll"
  /\ lock' = "free"
  /\ UNCHANGED <<main, active, failure>>

Report == ReportMessage \/ ReportFlag \/ ReportInactive \/ ReportSignal

-----------------------------------------------------------------------------
(* The data thread *)

ProcessBegin(s) ==
  /\ stream[s] = "connected"
  /\ s \notin processing
  /\ processing' = processing \cup {s}
  /\ UNCHANGED <<mainPc, loop, lock, stream, active, failure, callback,
                 loopThread>>

ProcessEnd(s) ==
  /\ s \in processing
  /\ processing' = processing \ {s}
  /\ UNCHANGED <<mainPc, loop, lock, stream, active, failure, callback,
                 loopThread>>

-----------------------------------------------------------------------------
Main ==
  \/ LockToStart \/ StartLoop \/ CreateStreams \/ Activate
  \/ DestroyStreams \/ AbortUnlock \/ AbortStart
  \/ FinishStop

Next ==
  \/ Start \/ Stop \/ Main \/ Report
  \/ \E s \in Streams : StreamError(s) \/ ProcessBegin(s) \/ ProcessEnd(s)

Spec == Init /\ [][Next]_vars

(* Threads are scheduled, and a waiting pw_stream_destroy() keeps the data *)
(* thread from calling the stream again.  When to start and to stop is     *)
(* for the application to say.                                             *)
FairSpec ==
  /\ Spec
  /\ WF_vars(Main) /\ SF_vars(DestroyStreams)
  /\ WF_vars(Report)
  /\ \A s \in Streams : WF_vars(ProcessEnd(s))

-----------------------------------------------------------------------------
(* Properties *)

TypeOK ==
  /\ mainPc \in {"idle", "lock", "startLoop", "createCapture",
                 "createPlayback", "activate", "running", "abortPlayback",
                 "abortCapture", "abortUnlock", "abortLoop", "abortClear",
                 "stopLoop", "stopLock", "stopPlayback", "stopCapture",
                 "stopUnlock", "stopClear", "stopped"}
  /\ loop \in {"off", "on"} /\ lock \in {"free", "main", "loop"}
  /\ stream \in [Streams -> {"none", "created", "connected"}]
  /\ active \in BOOLEAN /\ failed \in BOOLEAN /\ callback \in BOOLEAN
  /\ failureMessage \in Streams \cup {"none"}
  /\ loopPc \in {"poll", "message", "flag", "inactive", "signal"}
  /\ failing \in Streams \cup {"none"}
  /\ processing \subseteq Streams
  /\ report \in [Streams -> {"none", "flagged", "signalled"}]

(* processCapture() calls callback_ without looking: it must hold the      *)
(* engine's function as long as the capture stream can run, also when      *)
(* start() fails half-way or a failure races with stop().                  *)
CallbackOutlivesProcessing == "capture" \in processing => callback

(* start() and stop() come to an end whatever fails and whatever the       *)
(* loop's thread is doing: nobody waits for a lock that its owner, or the  *)
(* join, never gives back.                                                 *)
StartAndStopReturn ==
  mainPc \in {"lock", "stopLoop"} ~> mainPc \in {"running", "stopped"}

(* The backend keeps the contract the application relies on, through       *)
(* failed starts, reports of both streams and restarts.                    *)
contractPhase ==
  CASE mainPc \in {"idle", "running", "stopped"} -> mainPc
    [] mainPc \in {"stopLoop", "stopLock", "stopPlayback", "stopCapture",
                   "stopUnlock", "stopClear"} -> "stopping"
    [] OTHER -> "starting"

Contract == INSTANCE AudioBackend
  WITH Reports <- Streams,
       phase <- contractPhase,
       callback <- "capture" \in processing

RefinesContract == Contract!Spec
=============================================================================
