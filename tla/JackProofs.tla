----------------------------- MODULE JackProofs ------------------------------
(***************************************************************************)
(* Proofs about the JACK backend: whatever its two reporting threads and   *)
(* the server do between the steps of start() and stop(), no failure is    *)
(* lost or left unexplained, and stop() leaves the client active only      *)
(* behind a report that cleared active_ first.                             *)
(***************************************************************************)
EXTENDS JackBackend, TLAPS

flagged == {"inactive", "signal", "done"}
unwritten == {"none", "message"}

(* Before the client is active nobody calls process(); and the shutdown    *)
(* callback runs only when the server is gone, so that start() throws.     *)
Quiet ==
  /\ mainPc \in {"idle", "clear", "activate", "aborted"} =>
       client = "open" /\ ~processing /\ reporting["process"] = "none"
  /\ reporting["shutdown"] # "none" => server = "down"
  /\ processing => client = "active" /\ reporting["process"] = "none"
  /\ mainPc = "closed" => client = "closed"

(* start() has cleared the flag of every report made before.               *)
Cleared ==
  mainPc \in {"clear", "activate"} /\ failed =>
    \E r \in Reporters : reporting[r] \in flagged

(* A reporter writes the message before it sets the flag.                  *)
Written ==
  mainPc \in started =>
    \A r \in Reporters : reporting[r] \notin unwritten => failureMessage # "none"

(* active_ is set between start() and stop(), unless a report cleared it.  *)
Active ==
  mainPc \in {"connect", "running", "abort"} /\ ~active =>
    \E r \in Reporters : reporting[r] \in {"signal", "done"}

JackInv ==
  /\ Quiet /\ Cleared /\ Written /\ Active
  /\ NoFailureForgotten /\ FailureIsExplained /\ StopDeactivates

-----------------------------------------------------------------------------
(* Types *)

Switches == active \in BOOLEAN /\ failed \in BOOLEAN /\ processing \in BOOLEAN

Positions ==
  /\ mainPc \in {"idle", "clear", "activate", "setActive", "connect",
                 "running", "abort", "deactivate", "stopped", "aborted",
                 "closed"}
  /\ failureMessage \in Reporters \cup {"none"}
  /\ client \in {"open", "active", "closed"}
  /\ server \in {"up", "down"}
  /\ reporting \in [Reporters -> inReport \cup {"none", "done"}]

LEMMA TypeParts == TypeOK <=> Switches /\ Positions
BY DEF TypeOK, Switches, Positions

LEMMA SwitchesNext == Switches /\ [Next]_vars => Switches'
<1> USE DEF Switches, failure, main
<1>1. ASSUME Switches, Main
      PROVE  Switches'
  BY Zenon, <1>1 DEF Main, Start, ClearMessage, Activate, SetActive, Connect, Stop,
    Deactivate, Close
<1>2. ASSUME Switches, ProcessBegin \/ ProcessEnd \/ ServerStops \/ Shutdown
      PROVE  Switches'
  BY Zenon, <1>2 DEF ProcessBegin, ProcessEnd, ServerStops, Shutdown
<1>3. ASSUME Switches, NEW r \in Reporters, Report(r)
      PROVE  Switches'
  BY Zenon, <1>3 DEF Report, ReportMessage, ReportFlag, ReportInactive, ReportSignal,
    ReportStep
<1>4. ASSUME Switches, UNCHANGED vars
      PROVE  Switches'
  BY Zenon, <1>4 DEF vars
<1> QED
  BY <1>1, <1>2, <1>3, <1>4 DEF Next

-----------------------------------------------------------------------------
(* The steps *)

LEMMA MainKeeps ==
  ASSUME Positions, JackInv, Main
  PROVE  Positions' /\ JackInv'
<1> USE DEF Positions, JackInv, Quiet, Cleared, Written, Active, NoFailureForgotten,
            FailureIsExplained, StopDeactivates, Reporters, started, flagged,
            unwritten, inReport, failure
<1>1. CASE Start
  BY <1>1 DEF Start
<1>2. CASE ClearMessage
  BY <1>2 DEF ClearMessage
<1>3. CASE Activate
  BY <1>3 DEF Activate
<1>4. CASE SetActive
  BY <1>4 DEF SetActive
<1>5. CASE Connect
  BY <1>5 DEF Connect
<1>6. CASE Stop
  BY <1>6 DEF Stop
<1>7. CASE Deactivate
  BY <1>7 DEF Deactivate, inProcess
<1>8. CASE Close
  BY <1>8 DEF Close
<1> QED
  BY <1>1, <1>2, <1>3, <1>4, <1>5, <1>6, <1>7, <1>8 DEF Main

LEMMA CallbacksKeep ==
  ASSUME Positions, JackInv, ProcessBegin \/ ProcessEnd \/ ServerStops \/ Shutdown
  PROVE  Positions' /\ JackInv'
<1> USE DEF Positions, JackInv, Quiet, Cleared, Written, Active, NoFailureForgotten,
            FailureIsExplained, StopDeactivates, Reporters, started, flagged,
            unwritten, inReport, failure, main
<1>1. CASE ProcessBegin
  BY <1>1 DEF ProcessBegin
<1>2. CASE ProcessEnd
  <2>1. /\ processing /\ processing' = FALSE
        /\ UNCHANGED <<mainPc, client, active, failed, failureMessage, server>>
    BY <1>2 DEF ProcessEnd
  <2>2. CASE UNCHANGED reporting
    BY <2>1, <2>2
  <2>3. CASE reporting' = [reporting EXCEPT !["process"] = "message"]
    <3>1. /\ reporting["process"] = "none" /\ reporting'["process"] = "message"
          /\ UNCHANGED reporting["shutdown"]
      BY <1>2, <2>3 DEF ProcessEnd
    <3>2. Positions'
      BY <2>1, <2>3
    <3>3. JackInv'
      BY <2>1, <3>1
    <3> QED
      BY <3>2, <3>3
  <2> QED
    BY <1>2, <2>2, <2>3 DEF ProcessEnd
<1>3. CASE ServerStops
  BY <1>3 DEF ServerStops
<1>4. CASE Shutdown
  BY <1>4 DEF Shutdown
<1> QED
  BY <1>1, <1>2, <1>3, <1>4

LEMMA ReportKeeps ==
  ASSUME Positions, JackInv, NEW r \in Reporters, Report(r)
  PROVE  Positions' /\ JackInv'
<1> USE DEF Positions, JackInv, Quiet, Cleared, Written, Active, NoFailureForgotten,
            FailureIsExplained, StopDeactivates, Reporters, started, flagged,
            unwritten, inReport, failure, main, ReportStep
<1>1. CASE ReportMessage(r)
  BY <1>1 DEF ReportMessage
<1>2. CASE ReportFlag(r)
  BY <1>2 DEF ReportFlag
<1>3. CASE ReportInactive(r)
  BY <1>3 DEF ReportInactive
<1>4. CASE ReportSignal(r)
  BY <1>4 DEF ReportSignal
<1> QED
  BY <1>1, <1>2, <1>3, <1>4 DEF Report

-----------------------------------------------------------------------------
(* The invariant and what follows from it *)

Inv == Switches /\ Positions /\ JackInv

LEMMA InvInit == Init => Inv
<1>1. Init => Switches /\ Positions
  BY DEF Init, Switches, Positions
<1>2. Init => JackInv
  BY DEF Init, JackInv, Quiet, Cleared, Written, Active, NoFailureForgotten,
    FailureIsExplained, StopDeactivates, Reporters, started
<1> QED
  BY <1>1, <1>2 DEF Inv

LEMMA InvNext == Inv /\ [Next]_vars => Inv'
<1> SUFFICES ASSUME Inv, [Next]_vars
             PROVE  Inv'
  OBVIOUS
<1>1. Switches'
  BY SwitchesNext DEF Inv
<1>2. CASE Main
  BY <1>1, <1>2, MainKeeps DEF Inv
<1>3. CASE ProcessBegin \/ ProcessEnd \/ ServerStops \/ Shutdown
  BY <1>1, <1>3, CallbacksKeep DEF Inv
<1>4. ASSUME NEW r \in Reporters, Report(r)
      PROVE  Inv'
  BY <1>1, <1>4, ReportKeeps DEF Inv
<1>5. CASE UNCHANGED vars
  BY <1>1, <1>5 DEF Inv, Positions, JackInv, Quiet, Cleared, Written, Active,
    NoFailureForgotten, FailureIsExplained, StopDeactivates, vars, failure
<1> QED
  BY <1>2, <1>3, <1>4, <1>5 DEF Next

LEMMA SpecImpliesInv == Spec => []Inv
BY InvInit, InvNext, PTL DEF Spec

(* Every variable of the JACK backend keeps its type.                      *)
THEOREM TypeCorrect == Spec => []TypeOK
<1>1. Inv => TypeOK
  BY TypeParts DEF Inv
<1> QED
  BY <1>1, SpecImpliesInv, PTL

(* A report that got as far as the flag is still seen after a start() that *)
(* did not throw, although start() clears the flag while the shutdown      *)
(* callback may already run.                                               *)
THEOREM FailuresAreKept == Spec => []NoFailureForgotten
<1>1. Inv => NoFailureForgotten
  BY DEF Inv, JackInv
<1> QED
  BY <1>1, SpecImpliesInv, PTL

(* Whoever sees failed() finds a message.                                  *)
THEOREM FailuresAreExplained == Spec => []FailureIsExplained
<1>1. Inv => FailureIsExplained
  BY DEF Inv, JackInv
<1> QED
  BY <1>1, SpecImpliesInv, PTL

(* Only a report can keep stop() from deactivating the client.             *)
THEOREM StopsUnlessReported == Spec => []StopDeactivates
<1>1. Inv => StopDeactivates
  BY DEF Inv, JackInv
<1> QED
  BY <1>1, SpecImpliesInv, PTL

(* The other side of the finding: process() is in the engine after stop()  *)
(* only when one of the threads has reported a failure.                    *)
THEOREM QuietUnlessReported ==
  Spec => [](~StoppedIsQuiet => \E r \in Reporters : reporting[r] \in {"signal", "done"})
<1>1. Inv => (~StoppedIsQuiet => \E r \in Reporters : reporting[r] \in {"signal", "done"})
  BY DEF Inv, JackInv, Quiet, StopDeactivates, StoppedIsQuiet
<1> QED
  BY <1>1, SpecImpliesInv, PTL
=============================================================================
