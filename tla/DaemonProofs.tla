---------------------------- MODULE DaemonProofs ----------------------------
(***************************************************************************)
(* Proofs about the whole of main(), for any configuration files, backends *)
(* compiled in, number of failure reports and width of the integers.       *)
(***************************************************************************)
EXTENDS Daemon, TLAPS

-----------------------------------------------------------------------------
(* What is alive at which step of the main thread *)

Busy == {"starting", "wait", "stopEngine", "stopping"}
MetersRun == {"startEngine", "stopMeters", "joinMeters"} \cup Busy
EngineLives == {"startMeters", "verdict", "destroyEngine"} \cup MetersRun
Unblocked == {"mask", "return", "exit"}

(* The backend may call back and report while the main thread is between   *)
(* start() and the end of stop(), the worker runs from the start of the    *)
(* meters to their join, and both lie within the life of the engine; a     *)
(* signal can end the process only outside.                                *)
Life ==
  /\ engine = "alive" <=> pc \in EngineLives
  /\ pc \in MetersRun => socket = "open"
  /\ pc \notin MetersRun => worker \in {"none", "done"}
  /\ pc \notin Busy => phase \in {"idle", "stopped"}
  /\ callback => phase \in Backend!active
  /\ blocked <=> pc \notin Unblocked
  /\ stage # "service" => pc \in Unblocked

LEMMA LifeInit == DaemonInit => Life
BY DEF DaemonInit, Init, Backend!Init, Life, Busy, MetersRun, EngineLives, Unblocked

LEMMA LifeStartup ==
  ASSUME Life, Startup
  PROVE  Life'
<1>1. UNCHANGED <<backend, blocked, engine, server>>
  BY DEF Startup, ParseArguments, Visualize, LoadConfig, ConfigureLogger,
    ValidateOnly, EnterService, application_, mask, vars, logger, startup
<1>2. stage # "service" /\ pc \in Unblocked
  BY DEF Startup, ParseArguments, Visualize, LoadConfig, ConfigureLogger,
    ValidateOnly, EnterService, Life
<1>3. pc' \in Unblocked
  BY <1>2 DEF Startup, ParseArguments, Visualize, LoadConfig, ConfigureLogger,
    ValidateOnly, EnterService, Throw, Leave, Proceed, Unblocked
<1> QED
  BY <1>1, <1>2, <1>3 DEF Life, backend, server, Unblocked, EngineLives, MetersRun, Busy

LEMMA LifeMain ==
  ASSUME Life, stage = "service", stage' = stage, Main
  PROVE  Life'
<1> USE DEF Life, Unblocked, EngineLives, MetersRun, Busy, backend, server, mask, ending
<1>1. CASE BlockSignals
  BY <1>1 DEF BlockSignals
<1>2. CASE Construct
  BY <1>2 DEF Construct
<1>3. CASE StartMeters
  BY <1>3 DEF StartMeters
<1>4. CASE StartEngine
  BY <1>4 DEF StartEngine, Backend!BeginStart, Backend!active
<1>5. CASE EngineStarted
  BY <1>5 DEF EngineStarted, Backend!CompleteStart, Backend!AbortStart,
    Backend!quiescent, Backend!active
<1>6. CASE Wait
  BY <1>6 DEF Wait
<1>7. CASE StopEngine
  BY <1>7 DEF StopEngine, Backend!BeginStop, Backend!active
<1>8. CASE EngineStopped
  BY <1>8 DEF EngineStopped, Backend!CompleteStop, Backend!quiescent
<1>9. CASE StopMeters
  BY <1>9 DEF StopMeters
<1>10. CASE JoinMeters
  BY <1>10 DEF JoinMeters
<1>11. CASE Verdict
  BY <1>11 DEF Verdict
<1>12. CASE DestroyEngine
  BY <1>12 DEF DestroyEngine
<1>13. CASE UnblockSignals
  BY <1>13 DEF UnblockSignals
<1>14. CASE Return
  BY <1>14 DEF Return
<1> QED
  BY <1>1, <1>2, <1>3, <1>4, <1>5, <1>6, <1>7, <1>8, <1>9, <1>10, <1>11, <1>12,
     <1>13, <1>14 DEF Main

LEMMA LifeThreads ==
  ASSUME Life, UNCHANGED stage,
         Serve \/ BackendThreads \/ \E s \in Signals : UserSignal(s)
  PROVE  Life'
<1> USE DEF Life, Unblocked, EngineLives, MetersRun, Busy, process_, backend,
            server, mask, ending
<1>1. CASE Serve
  BY <1>1 DEF Serve, worker_
<1>2. CASE RunCallback
  BY <1>2 DEF RunCallback, Backend!BeginCallback
<1>3. CASE EndCallback
  BY <1>3 DEF EndCallback, Backend!EndCallback
<1>4. ASSUME NEW r \in Reports, FlagFailure(r)
      PROVE  Life'
  BY <1>4 DEF FlagFailure, Backend!Flag
<1>5. ASSUME NEW r \in Reports, SignalFailure(r)
      PROVE  Life'
  BY <1>5 DEF SignalFailure, Backend!Signal
<1>6. ASSUME NEW s \in Signals, UserSignal(s)
      PROVE  Life'
  BY <1>6 DEF UserSignal
<1> QED
  BY <1>1, <1>2, <1>3, <1>4, <1>5, <1>6 DEF BackendThreads

(* Each step of the daemon is a step before the service, a step of the     *)
(* service's main thread, or one of the other threads.                     *)
LEMMA DaemonSteps ==
  ASSUME [DaemonNext]_daemonVars
  PROVE  \/ Startup
         \/ Service /\ Main /\ UNCHANGED startup
         \/ MainReturns /\ Main /\ UNCHANGED startup
         \/ /\ Serve \/ BackendThreads \/ \E s \in Signals : UserSignal(s)
            /\ UNCHANGED <<startup, logger>>
         \/ UNCHANGED daemonVars
BY DEF DaemonNext, DaemonMain, Service, BuildBackend, RunStarts, RunAnnounces,
  RunAwaits, RunConcludes, Quietly, MainReturns, Threads, SendSignal,
  DaemonTerminated, Terminated, Main, daemonVars

LEMMA LifeReturn ==
  ASSUME Life, MainReturns
  PROVE  Life'
BY DEF MainReturns, Return, startup, Life, Unblocked, EngineLives, MetersRun,
  Busy, backend, server, mask, ending

LEMMA LifeNext == Life /\ [DaemonNext]_daemonVars => Life'
<1> SUFFICES ASSUME Life, [DaemonNext]_daemonVars
             PROVE  Life'
  OBVIOUS
<1>1. CASE Startup
  BY <1>1, LifeStartup
<1>2. CASE Service /\ Main /\ UNCHANGED startup
  BY <1>2, LifeMain DEF Service, startup
<1>3. CASE MainReturns
  BY <1>3, LifeReturn
<1>4. CASE /\ Serve \/ BackendThreads \/ \E s \in Signals : UserSignal(s)
           /\ UNCHANGED <<startup, logger>>
  BY <1>4, LifeThreads DEF startup
<1>5. CASE UNCHANGED daemonVars
  BY <1>5 DEF daemonVars, vars, backend, server, mask, startup, Life
<1> QED
  BY <1>1, <1>2, <1>3, <1>4, <1>5, DaemonSteps

(* On every way out of run(), with any number of failure reports, the      *)
(* engine outlives the backend's callback and the meter worker.            *)
THEOREM EngineIsSafe == DaemonSpec => []EngineOutlivesUsers
<1>1. Life => EngineOutlivesUsers
  BY DEF Life, EngineOutlivesUsers, Backend!active, EngineLives, MetersRun
<1> QED
  BY <1>1, LifeInit, LifeNext, PTL DEF DaemonSpec

(* The descriptor the meter worker polls is open for as long as it runs.   *)
THEOREM SocketIsSafe == DaemonSpec => []SocketOutlivesWorker
<1>1. Life => SocketOutlivesWorker
  BY DEF Life, SocketOutlivesWorker
<1> QED
  BY <1>1, LifeInit, LifeNext, PTL DEF DaemonSpec

-----------------------------------------------------------------------------
(* Settings *)

LEMMA SmallRemainder ==
  ASSUME NEW n \in Nat, NEW x \in Nat, x < n
  PROVE  x % n = x
OBVIOUS

LEMMA InclusiveBounds ==
  ASSUME NEW low \in Int, NEW high \in Int, NEW x \in Inclusive(low, high)
  PROVE  x \in Int /\ low <= x /\ x <= high
BY DEF Inclusive

LEMMA SizeFieldsOfKinds ==
  /\ sizeFields("alsa") = {"sampleRate", "channels", "periodFrames", "periods"}
  /\ sizeFields("jack") = {"channels"}
  /\ sizeFields("pipewire") = {"sampleRate", "channels", "quantum"}
BY Zenon DEF sizeFields

LEMMA SizesAreSmall ==
  ASSUME NEW kind \in {"alsa", "jack", "pipewire"}, NEW f \in sizeFields(kind),
         NEW x \in Admitted(kind, f)
  PROVE  x \in Nat /\ 1 <= x /\ x <= 384000
<1>1. Admitted(kind, f) = admittedSizes(kind)[f]
  BY Zenon DEF Admitted
<1>2. f \in {"sampleRate", "channels", "periodFrames", "periods", "quantum"}
  BY SizeFieldsOfKinds
<1>3. /\ admittedSizes(kind)["sampleRate"] = Inclusive(8000, 384000)
      /\ admittedSizes(kind)["channels"] = Inclusive(1, IF kind = "pipewire" THEN 2 ELSE 64)
      /\ admittedSizes(kind)["periodFrames"] = Inclusive(16, 8192)
      /\ admittedSizes(kind)["quantum"] = Inclusive(16, 8192)
      /\ admittedSizes(kind)["periods"] = Inclusive(2, 16)
  BY DEF admittedSizes, channelCountType
<1>4. \A low, high \in Int :
        Admitted(kind, f) = Inclusive(low, high) /\ 1 <= low /\ high <= 384000
          => x \in Nat /\ 1 <= x /\ x <= 384000
  BY InclusiveBounds
<1>5. CASE kind = "pipewire" /\ f = "channels"
  BY <1>1, <1>3, <1>4, <1>5
<1>6. CASE kind # "pipewire" /\ f = "channels"
  BY <1>1, <1>3, <1>4, <1>6
<1>7. CASE f = "sampleRate"
  BY <1>1, <1>3, <1>4, <1>7
<1>8. CASE f = "periods"
  BY <1>1, <1>3, <1>4, <1>8
<1>9. CASE f \in {"periodFrames", "quantum"}
  BY <1>1, <1>3, <1>4, <1>9
<1> QED
  BY <1>2, <1>5, <1>6, <1>7, <1>8, <1>9

(* Whatever passes the schema and the parsers is loaded as it was declared. *)
LEMMA LoadedIsDeclared ==
  ASSUME NEW given, Loads(given), NEW f \in fields(given.kind)
  PROVE  /\ Loaded(given).value[f] = given.text[f].value
         /\ given.text[f].value \in Admitted(given.kind, f)
<1> DEFINE kind == given.kind
           text == given.text[f]
<1>1. /\ kind \in {"alsa", "jack", "pipewire"}
      /\ text.form # "word" /\ text.value \in Admitted(kind, f)
  BY DEF Loads, Validates, SchemaAdmits
<1>2. Loaded(given).value[f] = Parsed(kind, f, text)
  BY DEF Loaded
<1>3. CASE f \in sizeFields(kind)
  <2>1. text.value \in Nat /\ text.value <= 384000
    BY <1>1, <1>3, SizesAreSmall
  <2>2. /\ text.value \in Nat /\ SizeRange \in Nat /\ UintRange \in Nat
        /\ text.value < SizeRange /\ text.value < UintRange
    BY <2>1, SettingsAssumption
  <2>3. text.value % SizeRange = text.value /\ text.value % UintRange = text.value
    BY <2>2, SmallRemainder
  <2>4. Parsed(kind, f, text) = text.value
    BY <1>3, <2>3 DEF Parsed, parseSize
  <2> QED
    BY <1>1, <1>2, <2>4
<1>4. CASE f \notin sizeFields(kind)
  <2>1. f # "sampleRate"
    BY <1>1, <1>4 DEF fields, boolFields, floatFields
  <2>2. Parsed(kind, f, text) = text.value
    BY <1>1, <1>4, <2>1 DEF Parsed, parseFloat
  <2> QED
    BY <1>1, <1>2, <2>2
<1> QED
  BY <1>3, <1>4

(* What the constructor of the PipeWire backend computes stays in 32 bits, *)
(* and none of its checks can refuse a loaded configuration.               *)
LEMMA LoadedIsAccepted ==
  ASSUME NEW given, Loads(given), given.kind = "pipewire"
  PROVE  /\ PipeWireAccepts(Loaded(given).value)
         /\ capacityFrames(Loaded(given).value) > 0
         /\ storageBytes(Loaded(given).value) < UintRange
<1> DEFINE v == Loaded(given).value
<1>1. \A f \in {"sampleRate", "channels", "quantum"} :
        f \in sizeFields("pipewire") /\ f \in fields("pipewire")
  BY SizeFieldsOfKinds DEF fields
<1>2. \A f \in {"sampleRate", "channels", "quantum"} :
        v[f] \in admittedSizes("pipewire")[f]
  BY <1>1, LoadedIsDeclared DEF Admitted
<1> HIDE DEF v
<1>3. /\ v["sampleRate"] \in Inclusive(8000, 384000)
      /\ v["channels"] \in Inclusive(1, 2)
      /\ v["quantum"] \in Inclusive(16, 8192)
  BY <1>2 DEF admittedSizes, channelCountType
<1>4. /\ v.sampleRate \in Int /\ 8000 <= v.sampleRate /\ v.sampleRate <= 384000
      /\ v.channels \in Int /\ 1 <= v.channels /\ v.channels <= 2
      /\ v.quantum \in Int /\ 16 <= v.quantum /\ v.quantum <= 8192
  BY <1>3, InclusiveBounds
<1>5. /\ capacityFrames(v) \in Int
      /\ 4000 <= capacityFrames(v) /\ capacityFrames(v) <= 192000
  BY <1>4 DEF capacityFrames, larger
<1>6. v.channels = 1 \/ v.channels = 2
  BY <1>4
<1>7. storageBytes(v) \in Int /\ storageBytes(v) <= 1536000
  BY <1>5, <1>6 DEF storageBytes
<1>8. storageBytes(v) < UintRange
  BY <1>7, SettingsAssumption
<1> QED
  BY <1>4, <1>5, <1>6, <1>8 DEF PipeWireAccepts, v

(* The service has a loaded configuration, and nothing is built before.    *)
Configured ==
  /\ stage \in {"configure", "configured", "service"} =>
       Loads(file) /\ config = Loaded(file)
  /\ engine # "none" => stage = "service"
  /\ stage \in {"configured", "service"} => file.kind \in {"alsa", "jack", "pipewire"}

LEMMA ConfiguredInit == DaemonInit => Configured
BY DEF DaemonInit, Init, Configured

LEMMA ConfiguredNext == Configured /\ [DaemonNext]_daemonVars => Configured'
<1> SUFFICES ASSUME Configured, [DaemonNext]_daemonVars
             PROVE  Configured'
  OBVIOUS
<1>1. CASE Startup
  <2>1. UNCHANGED <<engine, file>>
    BY <1>1 DEF Startup, ParseArguments, Visualize, LoadConfig, ConfigureLogger,
      ValidateOnly, EnterService, application_, startup
  <2>2. CASE LoadConfig
    BY <2>1, <2>2 DEF LoadConfig, Proceed, Configured, Loads
  <2>3. CASE ~LoadConfig
    <3>1. UNCHANGED config
      BY <1>1, <2>3 DEF Startup, ParseArguments, Visualize, ConfigureLogger,
        ValidateOnly, EnterService, startup
    <3>2. \/ stage' \in {"viewer", "load", "handler"} /\ stage # "service"
          \/ stage' = stage
          \/ stage \in {"configure", "configured"} /\ stage' \in {"configured", "service"}
      BY <1>1, <2>3 DEF Startup, ParseArguments, Visualize, ConfigureLogger,
        ValidateOnly, EnterService, Proceed, startup
    <3> QED
      BY <2>1, <3>1, <3>2 DEF Configured, Loads
  <2> QED
    BY <2>2, <2>3
<1>2. CASE Service /\ Main /\ UNCHANGED startup
  BY <1>2 DEF Service, Configured, startup
<1>3. CASE MainReturns
  BY <1>3 DEF MainReturns, Return, Configured, startup
<1>4. CASE /\ Serve \/ BackendThreads \/ \E s \in Signals : UserSignal(s)
           /\ UNCHANGED <<startup, logger>>
  <2>1. UNCHANGED engine
    BY <1>4 DEF Serve, BackendThreads, RunCallback, EndCallback, FlagFailure,
      SignalFailure, UserSignal, worker_, process_
  <2> QED
    BY <1>4, <2>1 DEF Configured, startup
<1>5. CASE UNCHANGED daemonVars
  BY <1>5 DEF daemonVars, vars, startup, Configured
<1> QED
  BY <1>1, <1>2, <1>3, <1>4, <1>5, DaemonSteps

(* The service runs on the values the file declares, in the schema's       *)
(* ranges, for every text the schema lets through and whatever width the   *)
(* integers have.                                                          *)
THEOREM SettingsAreDeclared == DaemonSpec => []RunsOnDeclaredSettings
<1>1. Configured => RunsOnDeclaredSettings
  <2> SUFFICES ASSUME Configured, engine # "none", NEW f \in fields(file.kind)
               PROVE  /\ config.value[f] = file.text[f].value
                      /\ config.value[f] \in Admitted(file.kind, f)
    BY DEF RunsOnDeclaredSettings
  <2>1. Loads(file) /\ config = Loaded(file)
    BY DEF Configured
  <2> QED
    BY <2>1, LoadedIsDeclared
<1> QED
  BY <1>1, ConfiguredInit, ConfiguredNext, PTL DEF DaemonSpec

(* A configuration that was found valid passes the checks of every         *)
(* constructor that is compiled in, and the ring's size fits its 32 bits.  *)
THEOREM ValidCanBeBuilt == DaemonSpec => []ValidIsBuildable
<1>1. Configured => ValidIsBuildable
  <2> SUFFICES ASSUME Configured, stage \in {"configured", "service"}
               PROVE  /\ config.kind \in Compiled => Buildable(config, Compiled)
                      /\ config.kind = "pipewire" =>
                           /\ capacityFrames(config.value) > 0
                           /\ storageBytes(config.value) < UintRange
    BY DEF ValidIsBuildable
  <2>1. Loads(file) /\ config = Loaded(file)
    BY DEF Configured
  <2>2. config.kind = file.kind
    BY <2>1 DEF Loaded
  <2>3. config.kind = "pipewire" =>
           /\ PipeWireAccepts(config.value)
           /\ capacityFrames(config.value) > 0
           /\ storageBytes(config.value) < UintRange
    BY <2>1, <2>2, LoadedIsAccepted
  <2> QED
    BY <2>3 DEF Buildable
<1> QED
  BY <1>1, ConfiguredInit, ConfiguredNext, PTL DEF DaemonSpec
-----------------------------------------------------------------------------
(* Types *)

Texts == DOMAIN LevelOf

LEMMA LogTypes ==
  ASSUME NEW message \in Texts, Log(message),
         logFile \in {"closed", "open", "bad"},
         stderr \in Seq(Texts), recorded \in Seq(Texts)
  PROVE  /\ logFile' \in {"closed", "open", "bad"}
         /\ stderr' \in Seq(Texts) /\ recorded' \in Seq(Texts)
         /\ minimumLevel' = minimumLevel
<1>1. CASE Suppressed(message)
  BY <1>1 DEF Log
<1>2. CASE ~Suppressed(message)
  <2>1. stderr' = Append(stderr, message) /\ WriteFile(message)
    BY <1>2 DEF Log
  <2>2. \A s \in Seq(Texts) : Append(s, message) \in Seq(Texts)
    OBVIOUS
  <2> QED
    BY <2>1, <2>2 DEF WriteFile, Log
<1> QED
  BY <1>1, <1>2

(* The truth values among the variables, and the rest                      *)
Switches ==
  /\ callback \in BOOLEAN /\ failed \in BOOLEAN
  /\ unwinding \in BOOLEAN /\ blocked \in BOOLEAN /\ running \in BOOLEAN

Positions ==
  /\ phase \in Backend!active \cup {"idle", "stopped", "destroyed"}
  /\ report \in [Reports -> {"none", "flagged", "signalled"}]
  /\ pc \in {"mask", "construct", "startMeters", "startEngine", "starting",
             "wait", "stopEngine", "stopping", "stopMeters", "joinMeters",
             "verdict", "destroyEngine", "unblock", "return", "exit"}
  /\ pending \subseteq Signals /\ userSent \subseteq Signals
  /\ engine \in {"none", "alive", "destroyed"}
  /\ socket \in {"open", "closed"}
  /\ worker \in {"none", "check", "poll", "levels", "leave", "done"}
  /\ result \in {"none", "ok", "error"}
  /\ status \in {"none", "ok", "error", "killed"}

Progress ==
  /\ stage \in {"arguments", "viewer", "load", "configure", "configured",
                "service", "handler"}
  /\ mode \in Modes /\ file \in Files
  /\ minimumLevel \in LogLevels
  /\ logFile \in {"closed", "open", "bad"}
  /\ stderr \in Seq(Texts) /\ recorded \in Seq(Texts)

LEMMA TypeParts == DaemonTypeOK <=> Switches /\ Positions /\ Progress
BY DEF DaemonTypeOK, TypeOK, Switches, Positions, Progress, Backend!TypeOK, Texts

LEMMA SwitchesMain ==
  ASSUME Switches, Main
  PROVE  Switches'
BY Zenon DEF Main, Switches, BlockSignals, Construct, StartMeters, StartEngine,
  EngineStarted, Wait, StopEngine, EngineStopped, StopMeters, JoinMeters, Verdict,
  DestroyEngine, UnblockSignals, Return, Backend!BeginStart, Backend!CompleteStart,
  Backend!AbortStart, Backend!BeginStop, Backend!CompleteStop, backend, mask, server

LEMMA SwitchesThreads ==
  ASSUME Switches, Serve \/ BackendThreads \/ \E s \in Signals : UserSignal(s)
  PROVE  Switches'
BY Zenon DEF Switches, Serve, BackendThreads, UserSignal, RunCallback, EndCallback,
  FlagFailure, SignalFailure, Backend!BeginCallback, Backend!EndCallback,
  Backend!Flag, Backend!Signal, worker_, process_, backend, mask, server

LEMMA SwitchesStartup ==
  ASSUME Switches, Startup
  PROVE  Switches'
BY Zenon DEF Switches, Startup, ParseArguments, Visualize, LoadConfig,
  ConfigureLogger, ValidateOnly, EnterService, application_, backend, mask, server,
  Throw, Leave, Proceed

LEMMA ProgressStartup ==
  ASSUME Positions, Progress, Configured, Startup
  PROVE  Positions' /\ Progress'
<1> USE DEF Positions, Progress, application_, backend, mask, server, logger, startup,
            Throw, Leave, Proceed
<1>1. CASE ParseArguments
  BY <1>1 DEF ParseArguments
<1>2. CASE Visualize
  <2>1. /\ userSent' \subseteq Signals
        /\ pc' \in {"exit", "return"} /\ status' \in {status, "ok"}
        /\ stage' \in {stage, "handler"}
    BY <1>2 DEF Visualize
  <2> QED
    BY <1>2, <2>1 DEF Visualize
<1>3. CASE LoadConfig
  BY <1>3 DEF LoadConfig
<1>4. CASE ConfigureLogger
  <2>1. config.level \in LogLevels
    BY <1>4 DEF ConfigureLogger, Configured, Loads, Loaded, Validates
  <2> QED
    BY <1>4, <2>1 DEF ConfigureLogger
<1>5. CASE ValidateOnly
  BY <1>5, LogTypes DEF ValidateOnly, Texts, LevelOf
<1>6. CASE EnterService
  BY <1>6 DEF EnterService
<1> QED
  BY <1>1, <1>2, <1>3, <1>4, <1>5, <1>6 DEF Startup

LEMMA PositionsMain ==
  ASSUME Positions, Main
  PROVE  Positions'
<1> USE DEF Positions, backend, mask, server, ending, Backend!active
<1>1. CASE BlockSignals
  BY <1>1 DEF BlockSignals
<1>2. CASE Construct
  BY <1>2 DEF Construct
<1>3. CASE StartMeters
  BY <1>3 DEF StartMeters
<1>4. CASE StartEngine
  BY <1>4 DEF StartEngine, Backend!BeginStart, Backend!active, Backend!noReport
<1>5. CASE EngineStarted
  BY <1>5 DEF EngineStarted, Backend!CompleteStart, Backend!AbortStart, Backend!active
<1>6. CASE Wait
  BY <1>6 DEF Wait
<1>7. CASE StopEngine
  BY <1>7 DEF StopEngine, Backend!BeginStop, Backend!active
<1>8. CASE EngineStopped
  BY <1>8 DEF EngineStopped, Backend!CompleteStop, Backend!active
<1>9. CASE StopMeters
  BY <1>9 DEF StopMeters
<1>10. CASE JoinMeters
  BY <1>10 DEF JoinMeters
<1>11. CASE Verdict
  BY <1>11 DEF Verdict
<1>12. CASE DestroyEngine
  BY <1>12 DEF DestroyEngine
<1>13. CASE UnblockSignals
  BY <1>13 DEF UnblockSignals
<1>14. CASE Return
  BY <1>14 DEF Return
<1> QED
  BY <1>1, <1>2, <1>3, <1>4, <1>5, <1>6, <1>7, <1>8, <1>9, <1>10, <1>11, <1>12,
     <1>13, <1>14 DEF Main

LEMMA PositionsThreads ==
  ASSUME Positions, Serve \/ BackendThreads \/ \E s \in Signals : UserSignal(s)
  PROVE  Positions'
<1> USE DEF Positions, process_, backend, server, mask, ending, Backend!active
<1>1. CASE Serve
  BY <1>1 DEF Serve, worker_
<1>2. CASE RunCallback
  BY <1>2 DEF RunCallback, Backend!BeginCallback
<1>3. CASE EndCallback
  BY <1>3 DEF EndCallback, Backend!EndCallback
<1>4. ASSUME NEW r \in Reports, FlagFailure(r)
      PROVE  Positions'
  BY <1>4 DEF FlagFailure, Backend!Flag
<1>5. ASSUME NEW r \in Reports, SignalFailure(r)
      PROVE  Positions'
  BY <1>5 DEF SignalFailure, Backend!Signal, Signals
<1>6. ASSUME NEW s \in Signals, UserSignal(s)
      PROVE  Positions'
  BY <1>6 DEF UserSignal
<1> QED
  BY <1>1, <1>2, <1>3, <1>4, <1>5, <1>6 DEF BackendThreads

(* What a step of the service or of the end of main() does to the log      *)
LEMMA ServiceLogs ==
  ASSUME Service \/ MainReturns
  PROVE  UNCHANGED logger \/ \E message \in Texts : Log(message)
BY DEF Service, MainReturns, BuildBackend, RunStarts, RunAnnounces, RunAwaits,
  RunConcludes, Silent, Texts, LevelOf

LEMMA DaemonTypeInit == DaemonInit => DaemonTypeOK
<1> SUFFICES ASSUME DaemonInit
             PROVE  DaemonTypeOK
  OBVIOUS
<1>1. Switches
  BY DEF DaemonInit, Init, Backend!Init, Switches
<1>2. Positions
  BY DEF DaemonInit, Init, Backend!Init, Backend!noReport, Positions
<1>3. Progress
  BY DEF DaemonInit, Progress, LogLevels
<1> QED
  BY <1>1, <1>2, <1>3, TypeParts

LEMMA DaemonTypeNext ==
  DaemonTypeOK /\ Configured /\ [DaemonNext]_daemonVars => DaemonTypeOK'
<1> SUFFICES ASSUME DaemonTypeOK, Configured, [DaemonNext]_daemonVars
             PROVE  Switches' /\ Positions' /\ Progress'
  BY DEF DaemonTypeOK, TypeOK, Switches, Positions, Progress, Backend!TypeOK, Texts
<1>0. Switches /\ Positions /\ Progress
  BY TypeParts
<1>1. CASE Startup
  BY <1>0, <1>1, SwitchesStartup, ProgressStartup
<1>2. CASE (Service \/ MainReturns) /\ Main /\ UNCHANGED startup
  <2>1. UNCHANGED logger \/ \E message \in Texts : Log(message)
    BY <1>2, ServiceLogs
  <2>2. Progress'
    BY <1>0, <1>2, <2>1, LogTypes DEF Progress, startup, logger
  <2> QED
    BY <1>0, <1>2, <2>2, SwitchesMain, PositionsMain
<1>3. CASE /\ Serve \/ BackendThreads \/ \E s \in Signals : UserSignal(s)
           /\ UNCHANGED <<startup, logger>>
  <2>1. Progress'
    BY <1>0, <1>3 DEF Progress, startup, logger
  <2> QED
    BY <1>0, <1>3, <2>1, SwitchesThreads, PositionsThreads
<1>4. CASE UNCHANGED daemonVars
  BY <1>0, <1>4 DEF daemonVars, vars, startup, logger, backend, mask, server, ending,
    Switches, Positions, Progress
<1> QED
  BY <1>1, <1>2, <1>3, <1>4, DaemonSteps

(* Every variable of the daemon keeps its type.                            *)
THEOREM DaemonTypeCorrect == DaemonSpec => []DaemonTypeOK
BY DaemonTypeInit, DaemonTypeNext, ConfiguredInit, ConfiguredNext, PTL DEF DaemonSpec

-----------------------------------------------------------------------------
(* The verdict *)

Reported == \E r \in Reports : report[r] # "none"

(* A pending signal was sent by the user or stands for a reported failure, *)
(* and a report leaves its mark in the flag failed().  The one moment at   *)
(* which both are forgotten, the beginning of start(), has no reports yet. *)
Accounted ==
  /\ report \in [Reports -> {"none", "flagged", "signalled"}]
  /\ Reported => failed
  /\ phase = "idle" => ~Reported
  /\ pc \in {"mask", "construct", "startMeters", "startEngine"} => phase = "idle"
  /\ pending # {} => userSent # {} \/ Reported
  /\ pc \in {"stopEngine", "stopping", "stopMeters", "joinMeters", "verdict"}
       => unwinding \/ userSent # {} \/ Reported
  /\ pc = "verdict" => ~unwinding

(* Where the process got, and with which result                            *)
Deserved ==
  /\ stage = "viewer" => mode = "visualize"
  /\ stage = "service" => mode = "service"
  /\ stage = "handler" => unwinding
  /\ result # "none" =>
       stage = "service" /\ pc \in {"destroyEngine", "unblock", "return", "exit"}
  /\ result = "ok" => userSent # {} /\ ~Reported
  /\ status # "none" => pc = "exit"
  /\ status = "ok" =>
       \/ mode = "service" /\ userSent # {} /\ ~Reported
       \/ mode = "visualize" /\ userSent # {}
       \/ mode = "validate" /\ Loads(file)
       \/ mode = "help"

LEMMA AccountedInit == DaemonInit => Accounted
BY DEF DaemonInit, Init, Backend!Init, Backend!noReport, Accounted, Reported

LEMMA AccountedMain ==
  ASSUME Accounted, Main
  PROVE  Accounted'
<1> USE DEF Accounted, Reported, backend, server, mask, ending
<1>1. CASE BlockSignals
  BY <1>1 DEF BlockSignals
<1>2. CASE Construct
  BY <1>2 DEF Construct
<1>3. CASE StartMeters
  BY <1>3 DEF StartMeters
<1>4. CASE StartEngine
  BY <1>4 DEF StartEngine, Backend!BeginStart, Backend!noReport
<1>5. CASE EngineStarted
  BY <1>5 DEF EngineStarted, Backend!CompleteStart, Backend!AbortStart
<1>6. CASE Wait
  BY <1>6 DEF Wait
<1>7. CASE StopEngine
  BY <1>7 DEF StopEngine, Backend!BeginStop
<1>8. CASE EngineStopped
  BY <1>8 DEF EngineStopped, Backend!CompleteStop
<1>9. CASE StopMeters
  BY <1>9 DEF StopMeters
<1>10. CASE JoinMeters
  BY <1>10 DEF JoinMeters
<1>11. CASE Verdict
  BY <1>11 DEF Verdict
<1>12. CASE DestroyEngine
  BY <1>12 DEF DestroyEngine
<1>13. CASE UnblockSignals
  BY <1>13 DEF UnblockSignals
<1>14. CASE Return
  BY <1>14 DEF Return
<1> QED
  BY <1>1, <1>2, <1>3, <1>4, <1>5, <1>6, <1>7, <1>8, <1>9, <1>10, <1>11, <1>12,
     <1>13, <1>14 DEF Main

LEMMA AccountedThreads ==
  ASSUME Accounted, Serve \/ BackendThreads \/ \E s \in Signals : UserSignal(s)
  PROVE  Accounted'
<1> USE DEF Accounted, Reported, process_, backend, server, mask, ending
<1>1. CASE Serve
  BY <1>1 DEF Serve, worker_
<1>2. CASE RunCallback
  BY <1>2 DEF RunCallback, Backend!BeginCallback
<1>3. CASE EndCallback
  BY <1>3 DEF EndCallback, Backend!EndCallback
<1>4. ASSUME NEW r \in Reports, FlagFailure(r)
      PROVE  Accounted'
  BY <1>4 DEF FlagFailure, Backend!Flag, Backend!active
<1>5. ASSUME NEW r \in Reports, SignalFailure(r)
      PROVE  Accounted'
  BY <1>5 DEF SignalFailure, Backend!Signal
<1>6. ASSUME NEW s \in Signals, UserSignal(s)
      PROVE  Accounted'
  BY <1>6 DEF UserSignal
<1> QED
  BY <1>1, <1>2, <1>3, <1>4, <1>5, <1>6 DEF BackendThreads

LEMMA AccountedNext == Accounted /\ [DaemonNext]_daemonVars => Accounted'
<1> SUFFICES ASSUME Accounted, [DaemonNext]_daemonVars
             PROVE  Accounted'
  OBVIOUS
<1>1. CASE Startup
  <2>1. /\ UNCHANGED <<backend, pending>> /\ userSent \subseteq userSent'
        /\ pc' \in {"exit", "return"} \/ UNCHANGED <<pc, unwinding>>
    BY <1>1 DEF Startup, ParseArguments, Visualize, LoadConfig, ConfigureLogger,
      ValidateOnly, EnterService, application_, mask, Throw, Leave, Proceed
  <2> QED
    BY <2>1 DEF Accounted, Reported, backend
<1>2. CASE Main
  BY <1>2, AccountedMain
<1>3. CASE Serve \/ BackendThreads \/ \E s \in Signals : UserSignal(s)
  BY <1>3, AccountedThreads
<1>4. CASE UNCHANGED daemonVars
  BY <1>4 DEF daemonVars, vars, backend, mask, Accounted, Reported
<1> QED
  BY <1>1, <1>2, <1>3, <1>4, DaemonSteps

LEMMA DeservedInit == DaemonInit => Deserved
BY DEF DaemonInit, Init, Deserved

LEMMA DeservedStartup ==
  ASSUME Deserved, Configured, Startup
  PROVE  Deserved'
<1> USE DEF Deserved, Reported, application_, backend, mask, server, startup,
            Throw, Leave, Proceed
<1>1. status = "none" /\ result = "none"
  BY DEF Startup, ParseArguments, Visualize, LoadConfig, ConfigureLogger,
    ValidateOnly, EnterService, alive
<1>2. CASE ParseArguments
  BY <1>1, <1>2 DEF ParseArguments
<1>3. CASE Visualize
  BY <1>1, <1>3 DEF Visualize
<1>4. CASE LoadConfig
  BY <1>1, <1>4 DEF LoadConfig
<1>5. CASE ConfigureLogger
  BY <1>1, <1>5 DEF ConfigureLogger
<1>6. CASE ValidateOnly
  BY <1>1, <1>6 DEF ValidateOnly, Configured
<1>7. CASE EnterService
  BY <1>1, <1>7 DEF EnterService
<1> QED
  BY <1>2, <1>3, <1>4, <1>5, <1>6, <1>7 DEF Startup

LEMMA DeservedMain ==
  ASSUME Deserved, Accounted, Main, UNCHANGED startup, stage \in {"service", "handler"}
  PROVE  Deserved'
<1> USE DEF Deserved, Reported, startup, backend, server, mask, ending
<1>1. CASE Verdict
  BY <1>1 DEF Verdict, Accounted
<1>2. CASE DestroyEngine
  BY <1>2 DEF DestroyEngine
<1>3. CASE UnblockSignals
  BY <1>3 DEF UnblockSignals
<1>4. CASE Return
  BY <1>4 DEF Return
<1>5. CASE ~(Verdict \/ DestroyEngine \/ UnblockSignals \/ Return)
  <2>1. /\ pc \notin {"destroyEngine", "unblock", "return", "exit"}
        /\ UNCHANGED <<result, status>>
        /\ unwinding => unwinding'
    BY <1>5 DEF Main, BlockSignals, Construct, StartMeters, StartEngine,
      EngineStarted, StopEngine, EngineStopped, StopMeters, JoinMeters, Wait
  <2>2. result = "none" /\ status = "none"
    BY <2>1
  <2> QED
    BY <2>1, <2>2
<1> QED
  BY <1>1, <1>2, <1>3, <1>4, <1>5

LEMMA DeservedThreads ==
  ASSUME Deserved, Life, UNCHANGED startup,
         Serve \/ BackendThreads \/ \E s \in Signals : UserSignal(s)
  PROVE  Deserved'
<1> USE DEF Deserved, startup, process_, backend, server, mask, ending
<1>1. CASE Serve
  BY <1>1 DEF Serve, worker_, Reported
<1>2. CASE RunCallback
  BY <1>2 DEF RunCallback, Backend!BeginCallback, Reported
<1>3. CASE EndCallback
  BY <1>3 DEF EndCallback, Backend!EndCallback, Reported
<1>4. ASSUME NEW r \in Reports, FlagFailure(r)
      PROVE  Deserved'
  <2>1. result = "none" /\ status = "none"
    BY <1>4 DEF FlagFailure, Backend!Flag, Backend!active, Life, Busy
  <2> QED
    BY <1>4, <2>1 DEF FlagFailure, Backend!Flag
<1>5. ASSUME NEW r \in Reports, SignalFailure(r)
      PROVE  Deserved'
  <2>1. result # "ok" /\ status = "none"
    BY <1>5 DEF SignalFailure, Backend!Signal, Reported
  <2> QED
    BY <1>5, <2>1 DEF SignalFailure, Backend!Signal
<1>6. ASSUME NEW s \in Signals, UserSignal(s)
      PROVE  Deserved'
  BY <1>6 DEF UserSignal, Reported
<1> QED
  BY <1>1, <1>2, <1>3, <1>4, <1>5, <1>6 DEF BackendThreads

LEMMA DeservedNext ==
  Deserved /\ Accounted /\ Configured /\ Life /\ [DaemonNext]_daemonVars => Deserved'
<1> SUFFICES ASSUME Deserved, Accounted, Configured, Life, [DaemonNext]_daemonVars
             PROVE  Deserved'
  OBVIOUS
<1>1. CASE Startup
  BY <1>1, DeservedStartup
<1>2. CASE (Service \/ MainReturns) /\ Main /\ UNCHANGED startup
  BY <1>2, DeservedMain DEF Service, MainReturns
<1>3. CASE /\ Serve \/ BackendThreads \/ \E s \in Signals : UserSignal(s)
           /\ UNCHANGED <<startup, logger>>
  BY <1>3, DeservedThreads
<1>4. CASE UNCHANGED daemonVars
  BY <1>4 DEF daemonVars, vars, startup, backend, mask, ending, Deserved, Reported
<1> QED
  BY <1>1, <1>2, <1>3, <1>4, DaemonSteps

(* A status of 0 is earned, however many failures are reported and in      *)
(* whatever order they and the user's signals come.                        *)
THEOREM SuccessIsEarned == DaemonSpec => []SuccessIsDeserved
<1>1. Deserved => SuccessIsDeserved
  BY DEF Deserved, SuccessIsDeserved, Reported
<1> QED
  BY <1>1, LifeInit, LifeNext, ConfiguredInit, ConfiguredNext, AccountedInit,
     AccountedNext, DeservedInit, DeservedNext, PTL DEF DaemonSpec

-----------------------------------------------------------------------------
(* The log *)

(* The file starts with the first record and follows stderr while it is    *)
(* written; an error that run() returns was logged or suppressed.          *)
Logged ==
  /\ stage \in {"arguments", "viewer", "load", "configure"} =>
       stderr = <<>> /\ recorded = <<>>
  /\ logFile = "open" => recorded = stderr
  /\ IsPrefix(recorded, stderr)
  /\ result = "error" => Contains(stderr, "failed") \/ minimumLevel = "critical"
  /\ FailureIsLogged

LEMMA PrefixAppend ==
  ASSUME NEW S, NEW s \in Seq(S), NEW t \in Seq(S), NEW m \in S, IsPrefix(s, t)
  PROVE  IsPrefix(s, Append(t, m)) /\ IsPrefix(Append(t, m), Append(t, m))
<1>1. Len(s) \in Nat /\ Len(t) \in Nat /\ Len(s) <= Len(t)
  BY DEF IsPrefix
<1>2. SubSeq(t, 1, Len(s)) = SubSeq(Append(t, m), 1, Len(s))
  BY <1>1
<1> QED
  BY <1>1, <1>2 DEF IsPrefix

LEMMA ContainsAppend ==
  ASSUME NEW S, NEW t \in Seq(S), NEW m \in S
  PROVE  /\ Contains(Append(t, m), m)
         /\ \A n : Contains(t, n) => Contains(Append(t, m), n)
<1>1. /\ Len(Append(t, m)) = Len(t) + 1 /\ Append(t, m)[Len(t) + 1] = m
      /\ Len(t) \in Nat
      /\ \A i \in 1..Len(t) : Append(t, m)[i] = t[i]
  OBVIOUS
<1> QED
  BY <1>1 DEF Contains

(* A log record keeps the file a prefix of stderr, and what was logged     *)
(* stays there.                                                            *)
LEMMA LogKeeps ==
  ASSUME NEW message \in Texts, Log(message), Progress,
         logFile = "open" => recorded = stderr, IsPrefix(recorded, stderr)
  PROVE  /\ logFile' = "open" => recorded' = stderr'
         /\ IsPrefix(recorded', stderr')
         /\ \A n : Contains(stderr, n) => Contains(stderr', n)
         /\ Contains(stderr', message) \/ Suppressed(message)
         /\ minimumLevel' = minimumLevel
<1>1. stderr \in Seq(Texts) /\ recorded \in Seq(Texts)
  BY DEF Progress
<1>2. CASE Suppressed(message)
  BY <1>2 DEF Log
<1>3. CASE ~Suppressed(message)
  <2>1. stderr' = Append(stderr, message) /\ WriteFile(message)
    BY <1>3 DEF Log
  <2>2. IsPrefix(recorded, stderr') /\ IsPrefix(stderr', stderr')
    BY <1>1, <2>1, PrefixAppend
  <2>3. \/ recorded' = stderr'
        \/ recorded' = recorded /\ logFile' # "open"
    BY <2>1 DEF WriteFile
  <2>4. /\ Contains(stderr', message)
        /\ \A n : Contains(stderr, n) => Contains(stderr', n)
    BY <1>1, <2>1, ContainsAppend
  <2> QED
    BY <2>2, <2>3, <2>4 DEF Log
<1> QED
  BY <1>2, <1>3

LEMMA FatalIsNotSuppressed == Progress => ~Suppressed("fatal")
BY DEF Progress, LogLevels, Suppressed, Rank, LevelOf

LEMMA OnlyCriticalSuppresses ==
  Progress /\ Suppressed("failed") => minimumLevel = "critical"
BY DEF Progress, LogLevels, Suppressed, Rank, LevelOf

LEMMA LoggedInit == DaemonInit => Logged
<1>1. IsPrefix(<<>>, <<>>)
  BY DEF IsPrefix
<1> QED
  BY <1>1 DEF DaemonInit, Init, Logged, FailureIsLogged

LEMMA LoggedStartup ==
  ASSUME Logged, Deserved, Progress, Startup
  PROVE  Logged'
<1> USE DEF Logged, Throw, Leave, Proceed
<1>1. result' = "none" /\ status' # "error"
  BY DEF Startup, ParseArguments, Visualize, LoadConfig, ConfigureLogger,
    ValidateOnly, EnterService, Deserved, application_, alive
<1>2. FailureIsLogged'
  BY <1>1 DEF FailureIsLogged
<1>3. CASE ConfigureLogger
  <2>1. UNCHANGED <<stderr, recorded>> /\ recorded = stderr
    BY <1>3 DEF ConfigureLogger
  <2> QED
    BY <1>1, <1>2, <1>3, <2>1 DEF ConfigureLogger
<1>4. CASE ValidateOnly
  <2>1. UNCHANGED stage /\ stage = "configured" /\ Log("valid")
    BY <1>4 DEF ValidateOnly, startup
  <2>2. "valid" \in Texts
    BY DEF Texts, LevelOf
  <2> QED
    BY <1>1, <1>2, <2>1, <2>2, LogKeeps
<1>5. CASE ParseArguments \/ Visualize \/ LoadConfig \/ EnterService
  <2>1. /\ UNCHANGED logger
        /\ stage' \in {"arguments", "viewer", "load", "configure"} =>
             stage \in {"arguments", "viewer", "load", "configure"}
    BY <1>5 DEF ParseArguments, Visualize, LoadConfig, EnterService
  <2> QED
    BY <1>1, <1>2, <2>1 DEF logger
<1> QED
  BY <1>3, <1>4, <1>5 DEF Startup

LEMMA LoggedService ==
  ASSUME Logged, Deserved, Progress, Service \/ MainReturns
  PROVE  Logged'
<1>1. stage \in {"service", "handler"} /\ UNCHANGED stage
  BY DEF Service, MainReturns, startup
<1>2. UNCHANGED logger \/ \E message \in Texts : Log(message)
  BY ServiceLogs
<1>3. /\ logFile' = "open" => recorded' = stderr'
      /\ IsPrefix(recorded', stderr')
      /\ \A n : Contains(stderr, n) => Contains(stderr', n)
      /\ minimumLevel' = minimumLevel
  BY <1>2, LogKeeps DEF Logged, logger
<1>4. CASE RunConcludes
  <2>1. result' = "error" => Log("failed")
    BY <1>4 DEF RunConcludes, Verdict
  <2>2. "failed" \in Texts
    BY DEF Texts, LevelOf
  <2>3. result' = "error" => Contains(stderr', "failed") \/ minimumLevel' = "critical"
    BY <1>3, <2>1, <2>2, LogKeeps, OnlyCriticalSuppresses DEF Logged
  <2>4. status' # "error"
    BY <1>4 DEF RunConcludes, Verdict, Deserved
  <2> QED
    BY <1>1, <1>3, <2>3, <2>4 DEF Logged, FailureIsLogged
<1>5. CASE MainReturns
  <2>1. UNCHANGED <<result, unwinding>> /\ status' = IF unwinding THEN "error" ELSE result
    BY <1>5 DEF MainReturns, Return
  <2>2. unwinding => Contains(stderr', "fatal")
    <3>1. unwinding => Log("fatal")
      BY <1>5 DEF MainReturns
    <3>2. "fatal" \in Texts
      BY DEF Texts, LevelOf
    <3> QED
      BY <3>1, <3>2, LogKeeps, FatalIsNotSuppressed DEF Logged
  <2> QED
    BY <1>1, <1>3, <2>1, <2>2 DEF Logged, FailureIsLogged
<1>6. CASE Service /\ ~RunConcludes
  <2>1. UNCHANGED result /\ status' # "error"
    BY <1>6 DEF Service, Deserved, BuildBackend, RunStarts, RunAnnounces, RunAwaits,
      Quietly, Construct, StartMeters, EngineStarted, Wait, BlockSignals, StartEngine,
      StopEngine, EngineStopped, StopMeters, JoinMeters, DestroyEngine,
      UnblockSignals, ending
  <2> QED
    BY <1>1, <1>3, <2>1 DEF Logged, FailureIsLogged
<1> QED
  BY <1>4, <1>5, <1>6

LEMMA LoggedNext ==
  Logged /\ Deserved /\ DaemonTypeOK /\ [DaemonNext]_daemonVars => Logged'
<1> SUFFICES ASSUME Logged, Deserved, Progress, [DaemonNext]_daemonVars
             PROVE  Logged'
  BY TypeParts
<1>1. CASE Startup
  BY <1>1, LoggedStartup
<1>2. CASE Service \/ MainReturns
  BY <1>2, LoggedService
<1>3. CASE /\ Serve \/ BackendThreads \/ \E s \in Signals : UserSignal(s)
           /\ UNCHANGED <<startup, logger>>
  <2>1. UNCHANGED <<result, unwinding>> /\ status' # "error"
    BY <1>3 DEF Deserved, Serve, BackendThreads, RunCallback, EndCallback,
      FlagFailure, SignalFailure, UserSignal, worker_, process_, ending
  <2> QED
    BY <1>3, <2>1 DEF startup, logger, Logged, FailureIsLogged
<1>4. CASE UNCHANGED daemonVars
  BY <1>4 DEF daemonVars, vars, startup, logger, ending, Logged, FailureIsLogged
<1> QED
  BY <1>1, <1>2, <1>3, <1>4, DaemonSteps

LEMMA LoggedAlways == DaemonSpec => []Logged
BY DaemonTypeInit, DaemonTypeNext, ConfiguredInit, ConfiguredNext, LifeInit, LifeNext,
   AccountedInit, AccountedNext, DeservedInit, DeservedNext, LoggedInit, LoggedNext,
   PTL DEF DaemonSpec

(* Whatever is written and whichever write fails, the log file is what     *)
(* stderr began with.                                                      *)
THEOREM FileFollowsStderr == DaemonSpec => []LogFileHasNoGaps
<1>1. Logged => LogFileHasNoGaps
  BY DEF Logged, LogFileHasNoGaps
<1> QED
  BY <1>1, LoggedAlways, PTL

(* No status 1 without its reason, for every level of the log but the one  *)
(* that suppresses errors.                                                 *)
THEOREM FailureHasItsRecord == DaemonSpec => []FailureIsLogged
<1>1. Logged => FailureIsLogged
  BY DEF Logged
<1> QED
  BY <1>1, LoggedAlways, PTL

=============================================================================
