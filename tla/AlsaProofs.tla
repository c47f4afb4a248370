----------------------------- MODULE AlsaProofs ------------------------------
(***************************************************************************)
(* Proofs about the ALSA backend for every length of a period: it reports  *)
(* only real failures, writes every period in full, closes its handles     *)
(* when nobody uses them any more, and keeps the contract of AudioBackend. *)
(***************************************************************************)
EXTENDS AlsaBackend, TLAPS

(* The thread exists between the end of start() and the join of stop().    *)
Constructing == {"openCapture", "configureCapture", "openPlayback", "configurePlayback"}
Starting == {"prepareCapture", "preparePlayback", "startThread"}
Running == {"running", "dropCapture", "dropPlayback", "join"}

(* Where its report stands follows from where the thread is.               *)
Control ==
  /\ threadPc = "none" <=> mainPc \notin Running
  /\ running => mainPc \notin {"dropCapture", "dropPlayback", "join"}
  /\ mainPc \in Constructing \cup Starting =>
       ~failed /\ failureMessage = "none" /\ report = "none"
  /\ report = "flagged" <=> threadPc \in {"reportStop", "reportSignal"}
  /\ threadPc \in {"none", "ended"} \/ report \in {"none", "flagged"}

(* Nothing of a period is left when the next one is read; the loop may     *)
(* leave a period in the middle only when it will not read again.          *)
Period ==
  /\ threadPc = "none" => frames = 0 /\ writtenFrames = 0
  /\ threadPc \in {"begin", "read", "readError"} => writtenFrames = frames
  /\ threadPc = "recover" /\ failing = "capture" => writtenFrames = frames
  /\ threadPc = "check" /\ running => writtenFrames = frames

(* The thread finds both handles open, and start() has prepared them.      *)
Handles ==
  /\ mainPc \in {"preparePlayback", "startThread"} =>
       device["capture"] \notin {"closed", "open"}
  /\ mainPc = "startThread" => device["playback"] \notin {"closed", "open"}
  /\ threadPc # "none" => \A d \in Devices : device[d] \notin {"closed", "open"}
  /\ mainPc = "closePlayback" => device["capture"] = "closed"
  /\ mainPc = "destroyed" => \A d \in Devices : device[d] = "closed"

(* stop() drops the capture device after it has cleared the flag, so an    *)
(* error that is handled with the flag still set is not its doing; and a   *)
(* device that is gone stays gone until it is closed.                      *)
Blame ==
  /\ mainPc \in {"preparePlayback", "startThread", "running"} =>
       device["capture"] # "setup"
  /\ threadPc = "readError" =>
       /\ failing = "capture"
       /\ error \in {"xrun", "gone"} \/ mainPc # "running"
       /\ error = "gone" => device["capture"] = "gone"
  /\ threadPc = "recover" =>
       /\ failing \in Devices
       /\ failing = "capture" =>
            error = "xrun" \/ (error = "gone" /\ device["capture"] = "gone")
  /\ threadPc \in {"report", "reportFlag", "reportStop", "reportSignal"} =>
       failing # "none" /\ (failing = "capture" => device["capture"] = "gone")
  /\ CaptureFailureIsReal

Explained ==
  /\ threadPc = "reportFlag" => failureMessage # "none"
  /\ FailureIsExplained

AlsaInv == Control /\ Period /\ Handles /\ Blame /\ Explained

-----------------------------------------------------------------------------
(* Types *)

Switches == leaving \in BOOLEAN /\ running \in BOOLEAN /\ failed \in BOOLEAN

Positions ==
  /\ device \in [Devices -> {"closed", "open", "ready", "xrun", "setup", "gone"}]
  /\ mainPc \in Constructing \cup Starting \cup Running \cup
                {"idle", "stopped", "closePlayback", "destroyed"}
  /\ failureMessage \in Devices \cup {"none", "memory"}
  /\ threadPc \in {"none", "begin", "check", "read", "readError", "process",
                   "writeCheck", "write", "recover", "report", "reportFlag",
                   "reportStop", "reportSignal", "ended"}
  /\ frames \in 0..PeriodFrames
  /\ writtenFrames \in 0..frames
  /\ failing \in Devices \cup {"none", "memory"}
  /\ error \in {"none", "xrun", "setup", "gone"}
  /\ report \in {"none", "flagged", "signalled"}

LEMMA TypeParts == TypeOK <=> Switches /\ Positions
BY DEF TypeOK, Switches, Positions, Constructing, Starting, Running

LEMMA SwitchesNext == Switches /\ [Next]_vars => Switches'
<1> USE DEF Switches
<1>1. ASSUME Switches, Main
      PROVE  Switches'
  BY Zenon, <1>1 DEF Main, Construct, OpenDevice, ConfigureDevice, Throw, Start,
    Prepare, PrepareDevice, StartThread, Stop, Destroy, DropCapture, DropPlayback,
    Join, CloseCapture, ClosePlayback, flags, thread
<1>2. ASSUME Switches, Thread
      PROVE  Switches'
  BY Zenon, <1>2 DEF Thread, ThreadAlone, Allocate, Check, ReadError, ReadErrorCheck,
    Process, WriteCheck, WriteError, Recover, ReportMessage, ReportFlag, ReportStop,
    ReportSignal, ReadNothing, ReadFrames, WriteFrames, Fails, main_
<1>3. ASSUME Switches, Hardware \/ UNCHANGED vars
      PROVE  Switches'
  BY Zenon, <1>3 DEF Hardware, flags, vars
<1> QED
  BY <1>1, <1>2, <1>3 DEF Next, Terminated

-----------------------------------------------------------------------------
(* The steps *)

LEMMA ConstructKeeps ==
  ASSUME Positions, AlsaInv, Construct
  PROVE  Positions' /\ AlsaInv'
<1> USE DEF Positions, AlsaInv, Control, Period, Handles, Blame, Explained,
            CaptureFailureIsReal, FailureIsExplained, Devices, Constructing, Starting, Running,
            flags, thread, main_, vars
<1>1. CASE OpenDevice("capture", "openCapture", "configureCapture")
  BY <1>1 DEF OpenDevice, Throw
<1>2. CASE ConfigureDevice("capture", "configureCapture", "openPlayback")
  BY <1>2 DEF ConfigureDevice, Throw
<1>3. CASE OpenDevice("playback", "openPlayback", "configurePlayback")
  BY <1>3 DEF OpenDevice, Throw
<1>4. CASE ConfigureDevice("playback", "configurePlayback", "idle")
  BY <1>4 DEF ConfigureDevice, Throw
<1> QED
  BY <1>1, <1>2, <1>3, <1>4 DEF Construct

LEMMA MainKeeps ==
  ASSUME Positions, AlsaInv, Main
  PROVE  Positions' /\ AlsaInv'
<1> USE DEF Positions, AlsaInv, Control, Period, Handles, Blame, Explained,
            CaptureFailureIsReal, FailureIsExplained, Devices, Constructing, Starting, Running,
            flags, thread, main_, vars
<1>1. CASE Construct
  BY <1>1, ConstructKeeps
<1>2. CASE Start
  BY <1>2 DEF Start
<1>3. CASE Prepare \/ StartThread
  <2>1. CASE PrepareDevice("capture", "prepareCapture", "preparePlayback")
    BY <2>1 DEF PrepareDevice
  <2>2. CASE PrepareDevice("playback", "preparePlayback", "startThread")
    BY <2>2 DEF PrepareDevice
  <2>3. CASE StartThread
    BY <2>3 DEF StartThread
  <2> QED
    BY <1>3, <2>1, <2>2, <2>3 DEF Prepare
<1>4. CASE Stop
  BY <1>4 DEF Stop
<1>5. CASE Destroy
  BY <1>5 DEF Destroy
<1>6. CASE DropCapture
  BY <1>6 DEF DropCapture, Drop
<1>7. CASE DropPlayback
  BY <1>7 DEF DropPlayback, Drop
<1>8. CASE Join
  BY <1>8, PeriodAssumption DEF Join
<1>9. CASE CloseCapture
  BY <1>9 DEF CloseCapture
<1>10. CASE ClosePlayback
  BY <1>10 DEF ClosePlayback
<1> QED
  BY <1>1, <1>2, <1>3, <1>4, <1>5, <1>6, <1>7, <1>8, <1>9, <1>10 DEF Main

LEMMA ThreadKeeps ==
  ASSUME Positions, AlsaInv, Thread
  PROVE  Positions' /\ AlsaInv'
<1> USE DEF Positions, AlsaInv, Control, Period, Handles, Blame, Explained,
            CaptureFailureIsReal, FailureIsExplained, Devices, Constructing, Starting, Running,
            flags, thread, main_, vars
<1>1. CASE Allocate
  BY <1>1 DEF Allocate
<1>2. CASE Check
  BY <1>2 DEF Check
<1>3. CASE ReadError
  BY <1>3 DEF ReadError, Fails
<1>4. CASE ReadErrorCheck
  <2>1. CASE running
    <3>1. mainPc = "running" /\ threadPc = "readError" /\ threadPc' = "recover"
      BY <1>4, <2>1 DEF ReadErrorCheck
    <3>2. /\ failing = "capture"
          /\ error = "xrun" \/ (error = "gone" /\ device["capture"] = "gone")
      BY <3>1
    <3>3. /\ UNCHANGED <<device, mainPc, leaving, running, failed, failureMessage>>
          /\ UNCHANGED <<frames, writtenFrames, failing, error, report>>
      BY <1>4 DEF ReadErrorCheck
    <3>4. Positions' /\ Control' /\ Period' /\ Handles'
      BY <3>1, <3>3
    <3>5. Blame' /\ Explained'
      BY <3>1, <3>2, <3>3
    <3> QED
      BY <3>4, <3>5
  <2>2. CASE ~running
    BY <1>4, <2>2 DEF ReadErrorCheck
  <2> QED
    BY <2>1, <2>2
<1>5. CASE Process
  BY <1>5 DEF Process
<1>6. CASE WriteCheck
  BY <1>6 DEF WriteCheck
<1>7. CASE WriteError
  BY <1>7 DEF WriteError, Fails
<1>8. CASE Recover
  BY <1>8 DEF Recover
<1>9. CASE ReportMessage
  BY <1>9 DEF ReportMessage
<1>10. CASE ReportFlag
  BY <1>10 DEF ReportFlag
<1>11. CASE ReportStop
  BY <1>11 DEF ReportStop
<1>12. CASE ReportSignal
  BY <1>12 DEF ReportSignal
<1>13. CASE ReadNothing
  BY <1>13 DEF ReadNothing
<1>14. ASSUME NEW n \in 1..PeriodFrames, ReadFrames(n)
      PROVE  Positions' /\ AlsaInv'
  BY <1>14 DEF ReadFrames
<1>15. ASSUME NEW n \in 1..PeriodFrames, WriteFrames(n)
      PROVE  Positions' /\ AlsaInv'
  BY <1>15 DEF WriteFrames
<1> QED
  BY <1>1, <1>2, <1>3, <1>4, <1>5, <1>6, <1>7, <1>8, <1>9, <1>10, <1>11,
     <1>12, <1>13, <1>14, <1>15 DEF Thread, ThreadAlone

LEMMA HardwareKeeps ==
  ASSUME Positions, AlsaInv, Hardware
  PROVE  Positions' /\ AlsaInv'
<1>1. PICK d \in Devices :
        \/ device[d] = "ready" /\ device' = [device EXCEPT ![d] = "xrun"]
        \/ /\ device[d] \notin {"gone", "closed"}
           /\ device' = [device EXCEPT ![d] = "gone"]
  BY DEF Hardware
<1>2. UNCHANGED <<mainPc, leaving, flags, thread>>
  BY DEF Hardware
<1> QED
  BY <1>1, <1>2 DEF Positions, AlsaInv, Control, Period, Handles, Blame, Explained,
    CaptureFailureIsReal, FailureIsExplained, Devices, Constructing, Starting, Running,
    flags, thread

-----------------------------------------------------------------------------
(* The invariant and what follows from it *)

Inv == Switches /\ Positions /\ AlsaInv

LEMMA InvInit == Init => Inv
<1>1. Init => Switches
  BY DEF Init, Switches
<1>2. Init => Positions
  BY PeriodAssumption DEF Init, Positions, Constructing
<1>3. Init => AlsaInv
  BY DEF Init, AlsaInv, Control, Period, Handles, Blame, Explained,
    CaptureFailureIsReal, FailureIsExplained, Constructing, Running
<1> QED
  BY <1>1, <1>2, <1>3 DEF Inv

LEMMA InvNext == Inv /\ [Next]_vars => Inv'
<1> SUFFICES ASSUME Inv, [Next]_vars
             PROVE  Inv'
  OBVIOUS
<1>1. Switches'
  BY SwitchesNext DEF Inv
<1>2. CASE Main
  BY <1>1, <1>2, MainKeeps DEF Inv
<1>3. CASE Thread
  BY <1>1, <1>3, ThreadKeeps DEF Inv
<1>4. CASE Hardware
  BY <1>1, <1>4, HardwareKeeps DEF Inv
<1>5. CASE UNCHANGED vars
  BY <1>1, <1>5 DEF Inv, Positions, AlsaInv, Control, Period, Handles, Blame,
    Explained, CaptureFailureIsReal, FailureIsExplained, vars, flags, thread
<1> QED
  BY <1>2, <1>3, <1>4, <1>5 DEF Next, Terminated

(* Every variable of the ALSA backend keeps its type.                      *)
THEOREM TypeCorrect == Spec => []TypeOK
<1>1. Inv => TypeOK
  BY TypeParts DEF Inv
<1> QED
  BY <1>1, InvInit, InvNext, PTL DEF Spec

(* Stopping is never reported as a failure of the capture device, however  *)
(* long the periods are and however often it is started and stopped.       *)
THEOREM CaptureReportsAreReal == Spec => []CaptureFailureIsReal
<1>1. Inv => CaptureFailureIsReal
  BY DEF Inv, AlsaInv, Blame
<1> QED
  BY <1>1, InvInit, InvNext, PTL DEF Spec

(* The message is there before the flag can be seen.                       *)
THEOREM FailuresAreExplained == Spec => []FailureIsExplained
<1>1. Inv => FailureIsExplained
  BY DEF Inv, AlsaInv, Explained
<1> QED
  BY <1>1, InvInit, InvNext, PTL DEF Spec

(* The handles are open for as long as the thread uses them, and no        *)
(* longer than the object lives.                                           *)
THEOREM HandlesAreClosed == Spec => []HandlesMatchLifetime
<1>1. Inv => HandlesMatchLifetime
  BY DEF Inv, AlsaInv, Handles, HandlesMatchLifetime
<1> QED
  BY <1>1, InvInit, InvNext, PTL DEF Spec

(* No frame of a period of any length is lost to short writes and          *)
(* recoveries.                                                             *)
THEOREM PeriodsAreWritten == Spec => PeriodFullyWritten
<1>1. Inv /\ [Next]_vars =>
        [\A n \in 1..PeriodFrames : ReadFrames(n) => writtenFrames = frames]_vars
  BY DEF Inv, AlsaInv, Period, ReadFrames
<1> QED
  BY <1>1, InvInit, InvNext, PTL DEF Spec, PeriodFullyWritten

-----------------------------------------------------------------------------
(* The contract *)

(* contractPhase, before and after a step                                  *)
LEMMA Phases ==
  /\ mainPc \in Constructing => contractPhase = "idle"
  /\ mainPc \in Starting => contractPhase = "starting"
  /\ mainPc \in {"dropCapture", "dropPlayback", "join"} => contractPhase = "stopping"
  /\ mainPc = "closePlayback" => contractPhase = "destroyed"
  /\ mainPc \in {"idle", "running", "stopped", "destroyed"} => contractPhase = mainPc
BY Zenon DEF contractPhase, Constructing, Starting

LEMMA NextPhases ==
  /\ mainPc' \in Constructing => contractPhase' = "idle"
  /\ mainPc' \in Starting => contractPhase' = "starting"
  /\ mainPc' \in {"dropCapture", "dropPlayback", "join"} => contractPhase' = "stopping"
  /\ mainPc' = "closePlayback" => contractPhase' = "destroyed"
  /\ mainPc' \in {"idle", "running", "stopped", "destroyed"} => contractPhase' = mainPc'
  /\ UNCHANGED mainPc => UNCHANGED contractPhase
BY Zenon DEF contractPhase, Constructing, Starting

LEMMA ContractInit == Init => Contract!Init
BY Phases DEF Init, Contract!Init, Contract!noReport, Constructing

(* A step the application cannot see                                       *)
LEMMA Unseen ==
  ASSUME UNCHANGED <<contractPhase, failed, report>>,
         (threadPc' = "process") = (threadPc = "process")
  PROVE  UNCHANGED Contract!vars
BY DEF Contract!vars

LEMMA MainKeepsContract ==
  ASSUME Inv, Main
  PROVE  [Contract!Next]_(Contract!vars)
<1> USE DEF flags, thread, Constructing, Starting
<1>1. CASE Construct
  <2>1. UNCHANGED <<contractPhase, failed, report, threadPc>>
    BY <1>1, Phases, NextPhases DEF Construct, OpenDevice, ConfigureDevice, Throw
  <2> QED
    BY <2>1, Unseen
<1>2. CASE Start
  <2>1. Contract!BeginStart
    BY <1>2, Phases, NextPhases DEF Start, Contract!BeginStart, Contract!noReport
  <2> QED
    BY <2>1 DEF Contract!Next
<1>3. CASE Prepare \/ StartThread
  <2>1. threadPc = "none" /\ report = "none" /\ mainPc \in Starting
    BY <1>3 DEF Prepare, PrepareDevice, StartThread, Inv, AlsaInv, Control, Running
  <2>2. threadPc' # "process" /\ UNCHANGED <<failed, report>>
    BY <1>3, <2>1 DEF Prepare, PrepareDevice, StartThread
  <2>3. CASE mainPc' \in Starting
    BY <2>1, <2>2, <2>3, Phases, NextPhases, Unseen
  <2>4. CASE mainPc' \in {"running", "stopped"}
    <3>1. Contract!CompleteStart \/ Contract!AbortStart
      BY <2>1, <2>2, <2>4, Phases, NextPhases DEF Contract!CompleteStart,
        Contract!AbortStart, Contract!quiescent
    <3> QED
      BY <3>1 DEF Contract!Next
  <2> QED
    BY <1>3, <2>3, <2>4 DEF Prepare, PrepareDevice, StartThread
<1>4. CASE Stop
  <2>1. Contract!BeginStop
    BY <1>4, Phases, NextPhases DEF Stop, Contract!BeginStop
  <2> QED
    BY <2>1 DEF Contract!Next
<1>5. CASE Destroy
  <2>1. CASE mainPc = "running"
    <3>1. Contract!BeginStop
      BY <1>5, <2>1, Phases, NextPhases DEF Destroy, Contract!BeginStop
    <3> QED
      BY <3>1 DEF Contract!Next
  <2>2. CASE mainPc # "running"
    BY <1>5, <2>2, NextPhases, Unseen DEF Destroy
  <2> QED
    BY <2>1, <2>2
<1>6. CASE DropCapture \/ DropPlayback
  <2>1. UNCHANGED <<contractPhase, failed, report, threadPc>>
    BY <1>6, Phases, NextPhases DEF DropCapture, DropPlayback
  <2> QED
    BY <2>1, Unseen
<1>7. CASE Join
  <2>1. report # "flagged"
    BY <1>7 DEF Join, Inv, AlsaInv, Control
  <2>2. Contract!CompleteStop
    BY <1>7, <2>1, Phases, NextPhases DEF Join, Contract!CompleteStop,
      Contract!quiescent
  <2> QED
    BY <2>2 DEF Contract!Next
<1>8. CASE CloseCapture
  <2>1. threadPc = "none" /\ report # "flagged"
    BY <1>8 DEF CloseCapture, Inv, AlsaInv, Control, Running
  <2>2. Contract!Retire
    BY <1>8, <2>1, Phases, NextPhases DEF CloseCapture, Contract!Retire,
      Contract!quiescent
  <2> QED
    BY <2>2 DEF Contract!Next
<1>9. CASE ClosePlayback
  <2>1. UNCHANGED <<contractPhase, failed, report, threadPc>>
    BY <1>9, Phases, NextPhases DEF ClosePlayback
  <2> QED
    BY <2>1, Unseen
<1> QED
  BY <1>1, <1>2, <1>3, <1>4, <1>5, <1>6, <1>7, <1>8, <1>9 DEF Main

LEMMA ThreadKeepsContract ==
  ASSUME Inv, Thread
  PROVE  [Contract!Next]_(Contract!vars)
<1> USE DEF main_
<1>1. UNCHANGED contractPhase
  BY NextPhases DEF Thread, ThreadAlone, Allocate, Check, ReadError, ReadErrorCheck,
    Process, WriteCheck, WriteError, Recover, ReportMessage, ReportFlag, ReportStop,
    ReportSignal, ReadNothing, ReadFrames, WriteFrames, Fails
<1>2. threadPc # "none" => contractPhase \in {"running", "stopping"}
  BY Phases DEF Inv, AlsaInv, Control, Running
<1>3. ASSUME NEW n \in 1..PeriodFrames, ReadFrames(n)
      PROVE  [Contract!Next]_(Contract!vars)
  <2>1. Contract!BeginCallback
    BY <1>1, <1>2, <1>3 DEF ReadFrames, Contract!BeginCallback, Contract!active
  <2> QED
    BY <2>1 DEF Contract!Next
<1>4. CASE Process
  <2>1. Contract!EndCallback
    BY <1>1, <1>4 DEF Process, Contract!EndCallback
  <2> QED
    BY <2>1 DEF Contract!Next
<1>5. CASE ReportFlag
  <2>1. report = "none"
    BY <1>5 DEF ReportFlag, Inv, AlsaInv, Control
  <2>2. Contract!Flag("processingThread")
    BY <1>1, <1>2, <1>5, <2>1 DEF ReportFlag, Contract!Flag, Contract!active
  <2> QED
    BY <2>2 DEF Contract!Next
<1>6. CASE ReportSignal
  <2>1. report = "flagged"
    BY <1>6 DEF ReportSignal, Inv, AlsaInv, Control
  <2>2. Contract!Signal("processingThread")
    BY <1>1, <1>6, <2>1 DEF ReportSignal, Contract!Signal
  <2> QED
    BY <2>2 DEF Contract!Next
<1>7. ASSUME \/ Allocate \/ Check \/ ReadError \/ ReadErrorCheck \/ WriteCheck
             \/ WriteError \/ Recover \/ ReportMessage \/ ReportStop \/ ReadNothing
             \/ \E n \in 1..PeriodFrames : WriteFrames(n)
      PROVE  [Contract!Next]_(Contract!vars)
  <2>1. /\ UNCHANGED <<failed, report>>
        /\ threadPc # "process" /\ threadPc' # "process"
    BY <1>7 DEF Allocate, Check, ReadError, ReadErrorCheck, WriteCheck, WriteError,
      Recover, ReportMessage, ReportStop, ReadNothing, WriteFrames, Fails
  <2> QED
    BY <1>1, <2>1, Unseen
<1> QED
  BY <1>3, <1>4, <1>5, <1>6, <1>7 DEF Thread, ThreadAlone

LEMMA StepsKeepContract == Inv /\ [Next]_vars => [Contract!Next]_(Contract!vars)
<1> SUFFICES ASSUME Inv, [Next]_vars
             PROVE  [Contract!Next]_(Contract!vars)
  OBVIOUS
<1>1. CASE Hardware \/ UNCHANGED vars
  <2>1. UNCHANGED <<contractPhase, failed, report, threadPc>>
    BY <1>1, NextPhases DEF Hardware, vars, flags, thread
  <2> QED
    BY <2>1, Unseen
<1> QED
  BY <1>1, MainKeepsContract, ThreadKeepsContract DEF Next, Terminated

(* The ALSA backend keeps the contract the application relies on, for      *)
(* every length of a period and any number of starts and stops.            *)
THEOREM KeepsContract == Spec => RefinesContract
BY ContractInit, StepsKeepContract, InvInit, InvNext, PTL DEF Spec, RefinesContract,
   Contract!Spec

=============================================================================
