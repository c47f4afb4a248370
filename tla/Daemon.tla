------------------------------- MODULE Daemon -------------------------------
(***************************************************************************)
(* The whole of main(): arguments, configuration and logger, then the      *)
(* service of Application (or the viewer), and the handler that turns an   *)
(* exception into a log record and the status 1.  The steps of Application *)
(* are taken as they are; each log call of run() is part of the step it    *)
(* precedes or follows.  Only the main thread logs.                        *)
(***************************************************************************)
EXTENDS Application, Settings, Sequences, SequencesExt

CONSTANTS
  Files,    \* configuration files, each with the schema it is read with
  Compiled  \* backends compiled into the program

Modes == {"service", "validate", "visualize", "help", "invalid"}

VARIABLES
  stage,    \* how far main() got before Application
  mode,     \* what the arguments ask for
  file,     \* the configuration file
  config,   \* the loaded configuration, none before
  minimumLevel, logFile, \* Logger::minimumLevel_ and the state of file_
  stderr, recorded       \* the records on stderr and in the log file

startup == <<stage, mode, file, config>>
logger == <<minimumLevel, logFile, stderr, recorded>>
daemonVars == <<vars, startup, logger>>

none == [kind |-> "none"]

DaemonInit ==
  /\ Init
  /\ stage = "arguments"
  /\ mode \in Modes
  /\ file \in Files
  /\ config = none
  /\ minimumLevel = "info"
  /\ logFile = "closed"
  /\ stderr = <<>> /\ recorded = <<>>

-----------------------------------------------------------------------------
(* Logger *)

Rank == [debug |-> 0, info |-> 1, warning |-> 2, error |-> 3, critical |-> 4]

LevelOf == [valid |-> "info", starting |-> "info", running |-> "info",
            signal |-> "info", failed |-> "error", clean |-> "info",
            fatal |-> "critical"]

Suppressed(message) == Rank[LevelOf[message]] < Rank[minimumLevel]

(* Bug: the stream's error is cleared, so that later records are written.  *)
WriteFileClearing(message) ==
  /\ UNCHANGED logFile
  /\ IF logFile = "open"
       THEN recorded' \in {Append(recorded, message), recorded}
       ELSE UNCHANGED recorded

(* Once a write failed the stream is false, and nothing is written again.  *)
WriteFile(message) ==
  \/ logFile = "open" /\ recorded' = Append(recorded, message) /\ UNCHANGED logFile
  \/ logFile = "open" /\ logFile' = "bad" /\ UNCHANGED recorded
  \/ logFile # "open" /\ UNCHANGED <<logFile, recorded>>

(* Logger::log and Logger::write                                           *)
Log(message) ==
  /\ UNCHANGED minimumLevel
  /\ IF Suppressed(message)
       THEN UNCHANGED <<logFile, stderr, recorded>>
       ELSE stderr' = Append(stderr, message) /\ WriteFile(message)

-----------------------------------------------------------------------------
(* main() before Application *)

application_ == <<backend, mask, engine, server, result>>
alive == pc # "exit"

(* An exception goes straight to main()'s handler.                         *)
Throw == unwinding' = TRUE /\ pc' = "return" /\ UNCHANGED status

(* std::exit(0) or a return from main()                                    *)
Leave(s) == pc' = "exit" /\ status' = s /\ UNCHANGED unwinding

Proceed(to) == stage' = to /\ UNCHANGED <<pc, unwinding, status>>

ParseArguments ==
  /\ alive /\ stage = "arguments"
  /\ \/ mode = "help"    /\ Leave("ok") /\ UNCHANGED stage
     \/ mode = "invalid" /\ Throw /\ stage' = "handler"
     \/ mode = "visualize" /\ Proceed("viewer")
     \/ mode \in {"service", "validate"} /\ Proceed("load")
  /\ UNCHANGED <<application_, mode, file, config, logger>>

(* runMeterClient leaves its loop normally only when interrupted.          *)
Visualize ==
  /\ alive /\ stage = "viewer"
  /\ \/ \E s \in Signals :
          Leave("ok") /\ userSent' = userSent \cup {s} /\ UNCHANGED stage
     \/ Throw /\ stage' = "handler" /\ UNCHANGED userSent
  /\ UNCHANGED <<backend, blocked, pending, engine, server, result,
                 mode, file, config, logger>>

LoadConfig ==
  /\ alive /\ stage = "load"
  /\ \/ Loads(file) /\ config' = Loaded(file) /\ Proceed("configure")
     \/ ~Loads(file) /\ Throw /\ stage' = "handler" /\ UNCHANGED config
  /\ UNCHANGED <<application_, mode, file, logger>>

(* Logger::configure; parseLevel knows every level the schema admits.  The *)
(* level holds also when the file cannot be opened.                        *)
ConfigureLogger ==
  /\ alive /\ stage = "configure"
  /\ minimumLevel' = config.level
  /\ \/ config.filePath = "unwritable" /\ logFile' = "bad" /\ Throw
        /\ stage' = "handler"
     \/ config.filePath = "empty" /\ Proceed("configured") /\ UNCHANGED logFile
     \/ config.filePath = "writable" /\ logFile' = "open" /\ Proceed("configured")
  /\ UNCHANGED <<application_, mode, file, config, stderr, recorded>>

ValidateOnly ==
  /\ alive /\ stage = "configured" /\ mode = "validate"
  /\ Log("valid")
  /\ Leave("ok")
  /\ UNCHANGED <<application_, startup>>

EnterService ==
  /\ alive /\ stage = "configured" /\ mode = "service"
  /\ Proceed("service")
  /\ UNCHANGED <<application_, mode, file, config, logger>>

Startup ==
  \/ ParseArguments \/ Visualize \/ LoadConfig \/ ConfigureLogger
  \/ ValidateOnly \/ EnterService

-----------------------------------------------------------------------------
(* Application with its log records *)

Silent == UNCHANGED logger

(* The factory: a backend that is compiled in, whose settings its          *)
(* constructor accepts.                                                    *)
BuildBackend ==
  /\ Construct
  /\ engine' = "alive" => Buildable(config, Compiled)
  /\ Silent

RunStarts == StartMeters /\ Log("starting")

RunAnnounces ==
  /\ EngineStarted
  /\ IF pc' = "wait" THEN Log("running") ELSE Silent

RunAwaits ==
  /\ Wait
  /\ IF unwinding' THEN Silent ELSE Log("signal")

(* Bug: run() returns without telling why.                                 *)
RunConcludesSilently == Verdict /\ IF failed THEN Silent ELSE Log("clean")

RunConcludes == Verdict /\ Log(IF failed THEN "failed" ELSE "clean")

Quietly ==
  \/ BlockSignals \/ StartEngine \/ StopEngine \/ EngineStopped
  \/ StopMeters \/ JoinMeters \/ DestroyEngine \/ UnblockSignals

Service ==
  /\ stage = "service"
  /\ \/ BuildBackend \/ RunStarts \/ RunAnnounces \/ RunAwaits \/ RunConcludes
     \/ Quietly /\ Silent
  /\ UNCHANGED startup

(* The end of main(), with the handler's log record                        *)
MainReturns ==
  /\ stage \in {"service", "handler"}
  /\ Return
  /\ IF unwinding THEN Log("fatal") ELSE Silent
  /\ UNCHANGED startup

DaemonMain == Startup \/ Service \/ MainReturns

Threads == (Serve \/ BackendThreads) /\ UNCHANGED <<startup, logger>>

SendSignal(s) == UserSignal(s) /\ UNCHANGED <<startup, logger>>

DaemonTerminated == Terminated /\ UNCHANGED <<startup, logger>>

DaemonNext ==
  \/ DaemonMain \/ Threads
  \/ \E s \in Signals : SendSignal(s)
  \/ DaemonTerminated

DaemonSpec == DaemonInit /\ [][DaemonNext]_daemonVars

(* The fairness of Application, for the steps with their log records       *)
FairDaemonSpec ==
  /\ DaemonSpec
  /\ WF_daemonVars(DaemonMain /\ (pc = "wait" => pending # {}))
  /\ SF_daemonVars(EngineStopped /\ Silent /\ UNCHANGED startup)
  /\ WF_daemonVars(Serve /\ UNCHANGED <<startup, logger>>)
  /\ WF_daemonVars(EndCallback /\ UNCHANGED <<startup, logger>>)
  /\ \A r \in Reports : WF_daemonVars(SignalFailure(r) /\ UNCHANGED <<startup, logger>>)

-----------------------------------------------------------------------------
(* Properties *)

DaemonTypeOK ==
  /\ TypeOK
  /\ stage \in {"arguments", "viewer", "load", "configure", "configured",
                "service", "handler"}
  /\ mode \in Modes /\ file \in Files
  /\ minimumLevel \in LogLevels
  /\ logFile \in {"closed", "open", "bad"}
  /\ stderr \in Seq(DOMAIN LevelOf) /\ recorded \in Seq(DOMAIN LevelOf)

(* README.md:22, "XML configuration validated against an XSD before        *)
(* devices are opened": what the service runs with is what the file says,  *)
(* and it is in the ranges of the schema, whatever way the text is written *)
(* and whatever width the parsers count with.                              *)
RunsOnDeclaredSettings ==
  engine # "none" =>
    \A f \in fields(file.kind) :
      /\ config.value[f] = file.text[f].value
      /\ config.value[f] \in Admitted(file.kind, f)

(* A configuration that --validate-config calls valid is refused by the    *)
(* program's own checks only if the backend was not compiled in: the ring  *)
(* has room for a frame and its size fits the 32 bits it is kept in.       *)
ValidIsBuildable ==
  stage \in {"configured", "service"} =>
    /\ config.kind \in Compiled => Buildable(config, Compiled)
    /\ config.kind = "pipewire" =>
         capacityFrames(config.value) > 0 /\ storageBytes(config.value) < UintRange

(* The status is 0 only when the program did what it was asked to: the     *)
(* viewer and the service were told to stop, no backend failure is         *)
(* covered up, not even one that raced with the user's signal, and a file  *)
(* called valid does load.                                                 *)
SuccessIsDeserved ==
  status = "ok" =>
    CASE mode = "service" -> userSent # {} /\ \A r \in Reports : report[r] = "none"
      [] mode = "visualize" -> userSent # {}
      [] mode = "validate" -> Loads(file)
      [] OTHER -> mode = "help"

(* Whoever finds the status 1 also finds a reason on stderr; only the      *)
(* level critical hides the error of a backend that failed while running.  *)
FailureIsLogged ==
  status = "error" =>
    \/ Contains(stderr, "failed") \/ Contains(stderr, "fatal")
    \/ minimumLevel = "critical" /\ ~unwinding

(* README.md:212, a file "additionally writes the same messages": what is  *)
(* in the file is the beginning of what is on stderr, with no record       *)
(* missing in between, also when a write to the file failed.               *)
LogFileHasNoGaps == IsPrefix(recorded, stderr)
=============================================================================
