------------------------ MODULE PipeWireBackendProofs ------------------------
(***************************************************************************)
(* Proofs about the life of the PipeWire backend's streams: the engine's   *)
(* function is there for as long as a stream may call it, and start(),     *)
(* stop() and the error reports of the loop's thread keep the contract of  *)
(* AudioBackend through any number of restarts.                            *)
(***************************************************************************)
EXTENDS PipeWireBackend, TLAPS

Locked == {"startLoop", "createCapture", "createPlayback", "activate",
           "abortPlayback", "abortCapture", "abortUnlock",
           "stopPlayback", "stopCapture", "stopUnlock"}
Looping == {"createCapture", "createPlayback", "activate", "running",
            "abortPlayback", "abortCapture", "abortUnlock", "abortLoop", "stopLoop"}
Capturing == {"createPlayback", "activate", "running", "abortPlayback",
              "abortCapture", "stopLoop", "stopLock", "stopPlayback", "stopCapture"}
Playing == {"activate", "running", "abortPlayback", "stopLoop", "stopLock",
            "stopPlayback"}

(* The loop's thread reports under the lock, and only while it runs.       *)
LoopHoldsLock ==
  /\ loop = "on" => mainPc \in Looping
  /\ loopPc # "poll" => loop = "on" /\ lock = "loop" /\ failing \in Streams
  /\ mainPc \in Locked => lock = "main"

(* A report is half done exactly while the loop's thread is at it.         *)
ReportFollowsLoop ==
  /\ \A s \in Streams :
       report[s] = "flagged" <=> loopPc \in {"inactive", "signal"} /\ failing = s
  /\ loopPc \in {"message", "flag"} => report[failing] = "none"

(* Where start() and stop() are decides which streams there may be.        *)
StreamsFollowMain ==
  /\ stream["capture"] # "none" => mainPc \in Capturing
  /\ stream["playback"] # "none" => mainPc \in Playing
  /\ mainPc \in {"createPlayback", "activate", "running"} =>
       stream["capture"] = "connected"
  /\ mainPc \in {"activate", "running"} => stream["playback"] = "connected"
  /\ \A s \in processing : stream[s] = "connected"

CallbackIsHeld == mainPc \notin {"idle", "stopped"} => callback

StreamInv ==
  LoopHoldsLock /\ ReportFollowsLoop /\ StreamsFollowMain /\ CallbackIsHeld

-----------------------------------------------------------------------------
(* Types *)

Switches == active \in BOOLEAN /\ failed \in BOOLEAN /\ callback \in BOOLEAN

Positions ==
  /\ mainPc \in {"idle", "lock", "startLoop", "createCapture",
                 "createPlayback", "activate", "running", "abortPlayback",
                 "abortCapture", "abortUnlock", "abortLoop", "abortClear",
                 "stopLoop", "stopLock", "stopPlayback", "stopCapture",
                 "stopUnlock", "stopClear", "stopped"}
  /\ loop \in {"off", "on"} /\ lock \in {"free", "main", "loop"}
  /\ stream \in [Streams -> {"none", "created", "connected"}]
  /\ failureMessage \in Streams \cup {"none"}
  /\ loopPc \in {"poll", "message", "flag", "inactive", "signal"}
  /\ failing \in Streams \cup {"none"}
  /\ processing \subseteq Streams
  /\ report \in [Streams -> {"none", "flagged", "signalled"}]

LEMMA TypeParts == TypeOK <=> Switches /\ Positions
BY DEF TypeOK, Switches, Positions

LEMMA SwitchesNext == Switches /\ [Next]_vars => Switches'
<1> USE DEF Switches, failure, loopThread, main
<1>1. ASSUME Switches, Start \/ Stop \/ Main
      PROVE  Switches'
  BY Zenon, <1>1 DEF Start, Stop, Main, LockToStart, Lock, StartLoop, CreateStreams,
    Create, Activate, DestroyStreams, Destroy, AbortUnlock, AbortStart, StopLoop,
    ClearCallback, FinishStop, StopUnlock
<1>2. ASSUME Switches, Report
      PROVE  Switches'
  BY Zenon, <1>2 DEF Report, ReportMessage, ReportFlag, ReportInactive, ReportSignal
<1>3. ASSUME Switches, NEW s \in Streams, StreamError(s) \/ ProcessBegin(s) \/ ProcessEnd(s)
      PROVE  Switches'
  BY Zenon, <1>3 DEF StreamError, ProcessBegin, ProcessEnd
<1>4. ASSUME Switches, UNCHANGED vars
      PROVE  Switches'
  BY Zenon, <1>4 DEF vars
<1> QED
  BY <1>1, <1>2, <1>3, <1>4 DEF Next

-----------------------------------------------------------------------------
(* The steps *)

LEMMA StartKeeps ==
  ASSUME Positions, StreamInv,
         Start \/ LockToStart \/ StartLoop \/ CreateStreams \/ Activate
  PROVE  Positions' /\ StreamInv'
<1> USE DEF Positions, StreamInv, LoopHoldsLock, ReportFollowsLoop, StreamsFollowMain,
            CallbackIsHeld, Streams, Locked, Looping, Capturing, Playing, noReport,
            failure, loopThread
<1>1. CASE Start
  BY <1>1 DEF Start
<1>2. CASE LockToStart
  BY <1>2 DEF LockToStart, Lock
<1>3. CASE StartLoop
  BY <1>3 DEF StartLoop
<1>4. CASE Create("capture", "createCapture", "createPlayback")
  BY <1>4 DEF Create
<1>5. CASE Create("playback", "createPlayback", "activate")
  BY <1>5 DEF Create
<1>6. CASE Activate
  BY <1>6 DEF Activate
<1> QED
  BY <1>1, <1>2, <1>3, <1>4, <1>5, <1>6 DEF CreateStreams

LEMMA StopKeeps ==
  ASSUME Positions, StreamInv,
         Stop \/ DestroyStreams \/ AbortUnlock \/ AbortStart \/ FinishStop
  PROVE  Positions' /\ StreamInv'
<1> USE DEF Positions, StreamInv, LoopHoldsLock, ReportFollowsLoop, StreamsFollowMain,
            CallbackIsHeld, Streams, Locked, Looping, Capturing, Playing, noStream,
            failure, loopThread
<1>1. CASE Stop
  BY <1>1 DEF Stop
<1>2. CASE Destroy("playback", "abortPlayback", "abortCapture")
  BY <1>2 DEF Destroy
<1>3. CASE Destroy("capture", "abortCapture", "abortUnlock")
  BY <1>3 DEF Destroy
<1>4. CASE Destroy("playback", "stopPlayback", "stopCapture")
  BY <1>4 DEF Destroy
<1>5. CASE Destroy("capture", "stopCapture", "stopUnlock")
  BY <1>5 DEF Destroy
<1>6. CASE AbortUnlock
  BY <1>6 DEF AbortUnlock
<1>7. CASE StopLoop("abortLoop", "abortClear") \/ StopLoop("stopLoop", "stopLock")
  BY <1>7 DEF StopLoop
<1>8. CASE ClearCallback("abortClear") \/ ClearCallback("stopClear")
  BY <1>8 DEF ClearCallback
<1>9. CASE Lock("stopLock", "stopPlayback")
  BY <1>9 DEF Lock
<1>10. CASE StopUnlock
  BY <1>10 DEF StopUnlock
<1> QED
  BY <1>1, <1>2, <1>3, <1>4, <1>5, <1>6, <1>7, <1>8, <1>9, <1>10
     DEF DestroyStreams, AbortStart, FinishStop

LEMMA ReportKeeps ==
  ASSUME Positions, StreamInv, Report
  PROVE  Positions' /\ StreamInv'
<1> USE DEF Positions, StreamInv, LoopHoldsLock, ReportFollowsLoop, StreamsFollowMain,
            CallbackIsHeld, Streams, Locked, Looping, Capturing, Playing, failure, main
<1>1. CASE ReportMessage
  BY <1>1 DEF ReportMessage
<1>2. CASE ReportFlag
  BY <1>2 DEF ReportFlag
<1>3. CASE ReportInactive
  BY <1>3 DEF ReportInactive
<1>4. CASE ReportSignal
  BY <1>4 DEF ReportSignal
<1> QED
  BY <1>1, <1>2, <1>3, <1>4 DEF Report

LEMMA StreamKeeps ==
  ASSUME Positions, StreamInv, NEW s \in Streams,
         StreamError(s) \/ ProcessBegin(s) \/ ProcessEnd(s)
  PROVE  Positions' /\ StreamInv'
<1> USE DEF Positions, StreamInv, LoopHoldsLock, ReportFollowsLoop, StreamsFollowMain,
            CallbackIsHeld, Streams, Locked, Looping, Capturing, Playing, failure,
            loopThread, main
<1>1. CASE StreamError(s)
  BY <1>1 DEF StreamError
<1>2. CASE ProcessBegin(s)
  BY <1>2 DEF ProcessBegin
<1>3. CASE ProcessEnd(s)
  BY <1>3 DEF ProcessEnd
<1> QED
  BY <1>1, <1>2, <1>3

-----------------------------------------------------------------------------
(* The invariant and what follows from it *)

Inv == Switches /\ Positions /\ StreamInv

LEMMA InvInit == Init => Inv
<1>1. Init => Switches /\ Positions
  BY DEF Init, Switches, Positions, noStream, noReport
<1>2. Init => StreamInv
  BY DEF Init, StreamInv, LoopHoldsLock, ReportFollowsLoop, StreamsFollowMain,
    CallbackIsHeld, Streams, Locked, noStream, noReport
<1> QED
  BY <1>1, <1>2 DEF Inv

LEMMA InvNext == Inv /\ [Next]_vars => Inv'
<1> SUFFICES ASSUME Inv, [Next]_vars
             PROVE  Inv'
  OBVIOUS
<1>1. Switches'
  BY SwitchesNext DEF Inv
<1>2. CASE Start \/ LockToStart \/ StartLoop \/ CreateStreams \/ Activate
  BY <1>1, <1>2, StartKeeps DEF Inv
<1>3. CASE Stop \/ DestroyStreams \/ AbortUnlock \/ AbortStart \/ FinishStop
  BY <1>1, <1>3, StopKeeps DEF Inv
<1>4. CASE Report
  BY <1>1, <1>4, ReportKeeps DEF Inv
<1>5. ASSUME NEW s \in Streams, StreamError(s) \/ ProcessBegin(s) \/ ProcessEnd(s)
      PROVE  Inv'
  BY <1>1, <1>5, StreamKeeps DEF Inv
<1>6. CASE UNCHANGED vars
  BY <1>1, <1>6 DEF Inv, Positions, StreamInv, LoopHoldsLock, ReportFollowsLoop,
    StreamsFollowMain, CallbackIsHeld, vars, failure, loopThread
<1> QED
  BY <1>2, <1>3, <1>4, <1>5, <1>6 DEF Next, Main

LEMMA SpecImpliesInv == Spec => []Inv
BY InvInit, InvNext, PTL DEF Spec

(* Every variable of the PipeWire backend keeps its type.                  *)
THEOREM TypeCorrect == Spec => []TypeOK
<1>1. Inv => TypeOK
  BY TypeParts DEF Inv
<1> QED
  BY <1>1, SpecImpliesInv, PTL

(* processCapture() never calls an empty callback_, neither when start()   *)
(* fails half-way nor when a failure report races with stop().             *)
THEOREM CallbackIsThere == Spec => []CallbackOutlivesProcessing
<1>1. Inv => CallbackOutlivesProcessing
  BY DEF Inv, StreamInv, StreamsFollowMain, CallbackIsHeld, CallbackOutlivesProcessing,
    Capturing, Positions
<1> QED
  BY <1>1, SpecImpliesInv, PTL

-----------------------------------------------------------------------------
(* The contract *)

Starting == {"lock", "startLoop", "createCapture", "createPlayback", "activate",
             "abortPlayback", "abortCapture", "abortUnlock", "abortLoop", "abortClear"}
Stopping == {"stopLoop", "stopLock", "stopPlayback", "stopCapture", "stopUnlock",
             "stopClear"}

(* contractPhase, before and after a step                                  *)
LEMMA Phases ==
  /\ mainPc \in Starting => contractPhase = "starting"
  /\ mainPc \in Stopping => contractPhase = "stopping"
  /\ mainPc \in {"idle", "running", "stopped"} => contractPhase = mainPc
BY Zenon DEF contractPhase, Starting, Stopping

LEMMA NextPhases ==
  /\ mainPc' \in Starting => contractPhase' = "starting"
  /\ mainPc' \in Stopping => contractPhase' = "stopping"
  /\ mainPc' \in {"idle", "running", "stopped"} => contractPhase' = mainPc'
  /\ UNCHANGED mainPc => UNCHANGED contractPhase
BY Zenon DEF contractPhase, Starting, Stopping

LEMMA ContractInit == Init => Contract!Init
BY Phases DEF Init, Contract!Init, Contract!noReport, noReport

(* A step the application cannot see                                       *)
LEMMA Unseen ==
  ASSUME UNCHANGED <<contractPhase, failed, report>>,
         ("capture" \in processing') = ("capture" \in processing)
  PROVE  UNCHANGED Contract!vars
BY DEF Contract!vars

(* Once the loop's thread is joined and both streams are destroyed nobody  *)
(* is left who could call the engine or report.                            *)
LEMMA JoinedIsQuiescent ==
  ASSUME Inv, mainPc \in {"abortClear", "stopClear"}
  PROVE  Contract!quiescent
<1>1. loopPc = "poll"
  BY DEF Inv, StreamInv, LoopHoldsLock, Looping, Positions
<1>2. "capture" \notin processing
  BY DEF Inv, StreamInv, StreamsFollowMain, Capturing
<1>3. \A s \in Streams : report[s] # "flagged"
  BY <1>1 DEF Inv, StreamInv, ReportFollowsLoop
<1> QED
  BY <1>2, <1>3 DEF Contract!quiescent

LEMMA MainKeepsContract ==
  ASSUME Inv, Start \/ Stop \/ Main
  PROVE  [Contract!Next]_(Contract!vars)
<1> USE DEF failure, loopThread, Starting, Stopping
<1>1. CASE Start
  <2>1. Contract!BeginStart
    BY <1>1, Phases, NextPhases DEF Start, Contract!BeginStart, Contract!noReport,
      noReport
  <2> QED
    BY <2>1 DEF Contract!Next
<1>2. CASE Activate
  <2>1. Contract!CompleteStart
    BY <1>2, Phases, NextPhases DEF Activate, Contract!CompleteStart
  <2> QED
    BY <2>1 DEF Contract!Next
<1>3. CASE Stop
  <2>1. stream # noStream
    BY <1>3 DEF Stop, Inv, StreamInv, StreamsFollowMain, noStream, Streams
  <2>2. mainPc' = "stopLoop"
    BY <1>3, <2>1 DEF Stop
  <2>3. Contract!BeginStop
    BY <1>3, <2>2, Phases, NextPhases DEF Stop, Contract!BeginStop
  <2> QED
    BY <2>3 DEF Contract!Next
<1>4. CASE ClearCallback("abortClear")
  <2>1. Contract!AbortStart
    BY <1>4, JoinedIsQuiescent, Phases, NextPhases DEF ClearCallback,
      Contract!AbortStart
  <2> QED
    BY <2>1 DEF Contract!Next
<1>5. CASE ClearCallback("stopClear")
  <2>1. Contract!CompleteStop
    BY <1>5, JoinedIsQuiescent, Phases, NextPhases DEF ClearCallback,
      Contract!CompleteStop
  <2> QED
    BY <2>1 DEF Contract!Next
<1>6. CASE \/ LockToStart \/ StartLoop \/ CreateStreams \/ DestroyStreams
           \/ AbortUnlock \/ StopLoop("abortLoop", "abortClear")
           \/ StopLoop("stopLoop", "stopLock") \/ Lock("stopLock", "stopPlayback")
           \/ StopUnlock
  <2>1. UNCHANGED <<contractPhase, failed, report, processing>>
    BY <1>6, Phases, NextPhases DEF LockToStart, Lock, StartLoop, CreateStreams,
      Create, DestroyStreams, Destroy, AbortUnlock, StopLoop, StopUnlock
  <2> QED
    BY <2>1, Unseen
<1> QED
  BY <1>1, <1>2, <1>3, <1>4, <1>5, <1>6 DEF Main, AbortStart, FinishStop

LEMMA ReportKeepsContract ==
  ASSUME Inv, Report
  PROVE  [Contract!Next]_(Contract!vars)
<1> USE DEF main, failure
<1>1. UNCHANGED <<contractPhase, processing>>
  BY NextPhases DEF Report, ReportMessage, ReportFlag, ReportInactive, ReportSignal
<1>2. failing \in Streams /\ contractPhase \in Contract!active
  <2>1. failing \in Streams /\ mainPc \in Looping
    BY DEF Report, ReportMessage, ReportFlag, ReportInactive, ReportSignal, Inv,
      StreamInv, LoopHoldsLock
  <2> QED
    BY <2>1, Phases DEF Looping, Starting, Stopping, Contract!active
<1>3. CASE ReportFlag
  <2>1. Contract!Flag(failing)
    BY <1>1, <1>2, <1>3 DEF ReportFlag, Inv, StreamInv, ReportFollowsLoop,
      Contract!Flag
  <2> QED
    BY <1>2, <2>1 DEF Contract!Next
<1>4. CASE ReportSignal
  <2>1. Contract!Signal(failing)
    BY <1>1, <1>2, <1>4 DEF ReportSignal, Inv, StreamInv, ReportFollowsLoop,
      Contract!Signal
  <2> QED
    BY <1>2, <2>1 DEF Contract!Next
<1>5. CASE ReportMessage \/ ReportInactive
  BY <1>1, <1>5, Unseen DEF ReportMessage, ReportInactive
<1> QED
  BY <1>3, <1>4, <1>5 DEF Report

LEMMA StreamKeepsContract ==
  ASSUME Inv, NEW s \in Streams, StreamError(s) \/ ProcessBegin(s) \/ ProcessEnd(s)
  PROVE  [Contract!Next]_(Contract!vars)
<1> USE DEF main, failure, loopThread
<1>1. UNCHANGED <<contractPhase, failed, report>>
  BY NextPhases DEF StreamError, ProcessBegin, ProcessEnd
<1>2. CASE StreamError(s) \/ s # "capture"
  <2>1. ("capture" \in processing') = ("capture" \in processing)
    BY <1>2 DEF StreamError, ProcessBegin, ProcessEnd
  <2> QED
    BY <1>1, <2>1, Unseen
<1>3. CASE ProcessBegin("capture")
  <2>1. mainPc \in Capturing
    BY <1>3 DEF ProcessBegin, Inv, StreamInv, StreamsFollowMain
  <2>2. contractPhase \in Contract!active
    BY <2>1, Phases DEF Capturing, Starting, Stopping, Contract!active
  <2>3. Contract!BeginCallback
    BY <1>1, <1>3, <2>2 DEF ProcessBegin, Contract!BeginCallback
  <2> QED
    BY <2>3 DEF Contract!Next
<1>4. CASE ProcessEnd("capture")
  <2>1. Contract!EndCallback
    BY <1>1, <1>4 DEF ProcessEnd, Contract!EndCallback
  <2> QED
    BY <2>1 DEF Contract!Next
<1> QED
  BY <1>2, <1>3, <1>4

LEMMA StepsKeepContract == Inv /\ [Next]_vars => [Contract!Next]_(Contract!vars)
<1> SUFFICES ASSUME Inv, [Next]_vars
             PROVE  [Contract!Next]_(Contract!vars)
  OBVIOUS
<1>1. CASE UNCHANGED vars
  <2>1. UNCHANGED <<contractPhase, failed, report, processing>>
    BY <1>1, NextPhases DEF vars, failure, loopThread
  <2> QED
    BY <2>1, Unseen
<1> QED
  BY <1>1, MainKeepsContract, ReportKeepsContract, StreamKeepsContract DEF Next

(* The PipeWire backend keeps the contract the application relies on,      *)
(* through failed starts, the reports of both streams and restarts.        *)
THEOREM KeepsContract == Spec => RefinesContract
BY ContractInit, StepsKeepContract, InvInit, InvNext, PTL DEF Spec, RefinesContract,
   Contract!Spec
=============================================================================
