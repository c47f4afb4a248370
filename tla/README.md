# TLA+ verification of audiocompd

audiocompd is a service that offers a virtual output, compresses what is played
into it and plays the result on a real output, through PipeWire, JACK or ALSA.
This directory holds TLA+ models of the service, the TLC runs that check them,
and proofs checked by TLAPS. Paths below are relative to the
repository; line numbers are those of the modelled commit.

## 1. The system

| Component | State | Operations | Talks to |
|---|---|---|---|
| `main`, `Application` (`src/main.cpp`, `src/application/`) | backend, engine, local meter server, exit status | arguments, `--validate-config`, `--visualize`; `run()`: start meters, start engine, wait for a signal, stop both, verdict; exception paths | everything below |
| `SignalHandler` (`src/runtime/SignalHandler.cpp`) | the thread's signal mask, the process's pending signals | block SIGINT and SIGTERM, `sigwait`, restore the mask | backends, which `kill()` the process to report a failure |
| `AudioEngine` (`src/audio/AudioEngine.cpp`) | the compressor, three atomic peaks, `metersEnabled_` | `process()` on the audio thread; `takeLevels()`, `enableMeters()` on the meter worker | backend callback, meter server |
| `MeterServer`, viewer (`src/runtime/MeterSocket.cpp`) | listening socket, `running_`, worker thread, client descriptors | `start`, `stop`, `serve`; `runMeterClient` in another process | engine (atomics), viewers (socket) |
| `AudioBackend` (`src/audio/AudioBackend.hpp`) | interface: callback, failure flag and message | `start`, `stop`, `failed` | engine, application |
| PipeWire backend | SPSC ring buffer, two streams, loop thread, `active_`, `failed_` | `processCapture`, `processPlayback`, stream errors, `start`, `stop` | the PipeWire graph |
| JACK backend | client, ports, `active_`, `failed_` | `process`, shutdown callback, auto-connection, `start`, `stop` | the JACK server |
| ALSA backend | two PCM devices, processing thread, `running_`, `failed_` | `openDevices`, `closeDevices`, `processingLoop`, `recover`, `start`, `stop` | the PCM devices |
| Compressor, envelope follower (`src/compressor/`) | envelope, coefficients, last reduction | `process` per block, the gain curve | called by the engine |
| Backend factory | none | chooses the configured backend, if compiled in | `Application` |
| Config, schema (`src/config/`, `schema/`) | none after loading | validate an XML file, parse its settings | read by all |
| Logger | level, file stream, mutex | `configure`, `write` | called by all |

What is hard about it: real-time callbacks that share memory without locks; 32-bit
indices that wrap after a day; threads that must be gone before what they use is
destroyed, also when a start throws half-way; failures reported by a signal that
races with the user's; reads and writes that `stop()` interrupts on purpose; a
viewer that hangs. `PROJECT.json` lists each of these hazards at its line. What
correctness means, part by part:

* ring: never overrun, no slot written while it is read, every accepted frame
  played once and in order, nothing stuck in it;
* application: engine and socket outlive their users, every signal and every
  failure ends the service, a status of 0 is deserved and a status of 1 explained;
* ALSA: `stop()` returns, a stop is no failure, no period is torn, no handle leaks
  or goes too early;
* meters: no peak is lost, no viewer delays another, metering is off when nobody
  watches;
* JACK and PipeWire lifecycles: no callback after `stop()`, no failure forgotten;
* compressor: the envelope moves towards the loudest channel, by rounding at most one
  float beyond, and settles, the curve keeps the order of two levels, the reduction
  reported for a block is that of its highest envelope;
* configuration: the service runs with what the file says, in the schema's ranges,
  and what was found valid can be built;
* logger: the file has no gaps, also when a write to it fails.

## 2. The modules

| Module | What it is |
|---|---|
| `FrameQueue` | abstract: a bounded FIFO of captured frames with refusal at the entrance |
| `PipeWireRing` | `processCapture()`/`processInterleaved()` against `processPlayback()` on the shared storage and indices; implements `FrameQueue` |
| `AudioBackend` | abstract: the contract of a backend's start, stop, callback, failure report and destruction |
| `PipeWireBackend` | the life of the two PipeWire streams: start, stop, the loop's thread and lock; implements `AudioBackend` |
| `AlsaBackend` | constructor, main thread, processing thread and destructor over the states of the PCM devices; implements `AudioBackend` |
| `JackBackend` | the JACK client's start, stop and destructor against `process()` and the shutdown callback |
| `Application` | the life of the service over an instance of the contract, with the meter worker's outline and the signals |
| `Settings` | the schema's types, the parsers of `Config.cpp`, what the constructors compute |
| `Daemon` | extends `Application` and `Settings` to the whole of `main()`, with the logger |
| `Meters` | `AudioEngine::process`, `publishPeak`, `takeLevels`, `MeterServer::serve`, viewers |
| `GainCurve` | `Compressor::gainReductionDb` in exact arithmetic |
| `Compressor` | extends `GainCurve`: `Compressor::process` and the envelope follower in rounded arithmetic |
| `MCPipeWireRing`, `MCApplication`, `MCDaemon`, `MCMeters`, `MCCompressor` | sets of sizes, reports, files, viewers, samples for TLC |
| `PipeWireRingProofs`, `PipeWireRingRefinement` | proofs of the ring: types, backlog, slots and races; order and refinement of `FrameQueue` |
| `DaemonProofs`, `AlsaProofs`, `JackProofs`, `PipeWireBackendProofs`, `MetersProofs`, `CompressorProofs` | proofs of the modules they are named after |

Operators whose comment begins with "Bug:" are altered versions of the definition
that follows. They are not part of any specification; substituting one shows that
the property it is listed with in `PROJECT.json` notices that mistake.

### PipeWireRing

`writeindex`, `readindex` are the two fields of `spa_ringbuffer`, `ringStorage`
the frames by slot; the lower-case/upper-case pair `writeindex`/`writeIndex` is the
code's own (shared field and local variable). A frame is its number in the order
of capture, 0 is silence, so order, loss, duplication and stale data are all
visible in a slot's value. A capture callback is three kinds of steps: read the
indices and compute the room (`CaptureBegin`), fill a block's slots
(`CaptureCopy`), publish the block (`CapturePublish`), the last two repeated as
in the loop of `processInterleaved()`. A playback callback is `PlaybackBegin`,
`PlaybackCopy`, `PlaybackUpdate`, `PlaybackPad`, with the copy left out when
nothing is readable. Each step accesses the other side's index at most once, so
the model has every interleaving that matters; copies are single steps, which
`NoDataRace` justifies. `captured`, `newest` and `heard` are history. `captured`
and the sets of sizes bound the model; `MaxFrames` exceeds the index range, so
that both indices wrap.

The refinement maps the queue to the slots from the first frame that was not
copied yet up to the write index. A frame enters it with `CapturePublish` and
leaves it with `PlaybackCopy`; all other steps but `PlaybackBegin` stutter.

### AudioBackend and Application

The contract's `phase` follows start() and stop(); `callback` is the real-time
thread inside `AudioEngine::process`; a report is flagged, then signalled. It
allows callbacks and reports from the moment start() begins until stop() returns,
and none outside. `Application` has the main thread step by step: each step is
one call of `run()` or one destructor. `unwinding` is an exception on its way to
`main()`; the constructor, the meters' bind, the backend's start and `sigwait` may
throw. `pending` holds a signal at most once, as POSIX does; `UnblockSignals` is
`~SignalHandler` and applies the default action to what is pending. `Retire` is the
destruction of a backend, which must find nobody left who could call; the service
process ends soon after, so only `AlsaBackend` takes it.

### Settings

A text of the configuration file is a record of what it denotes and of how it is
written: alone, with whitespace before or behind, with an exponent, in capitals,
as a word, or missing. The schema (`SchemaAdmits`) and the parsers (`Parses`,
`Parsed`) look at the same record by rules of their own, as libxml2 and
`std::stoull`, `std::stof` and the boolean comparison do: the parsers of sizes wrap a
negative number around, accept leading and refuse trailing whitespace, and cast the
sample rate to 32 bits. `Loads` is the conjunction, `Loaded` the `AppConfig`.
`capacityFrames` and `storageBytes` are the PipeWire constructor's arithmetic.
Decimals are counted in halves, which reaches both ends of every range.

### Daemon

`stage` is how far `main()` got before `Application`; from "service" on, the steps are
those of `Application`, each with the record that `run()` logs before or after it.
`file` is any of a set of files, `mode` what the arguments ask for. `stderr` and
`recorded` are the sequences of records on the two outputs; a stream that
failed once (`logFile = "bad"`) writes nothing again, as `std::ofstream` behaves.
`BuildBackend` is the factory: a backend that is not compiled in or refuses its
settings throws.

### AlsaBackend

A PCM device is closed, open, ready, in xrun, dropped ("setup") or gone. A read or
write of a ready device may take any time; on a device in another state it returns
that state's error, which `snd_pcm_recover` repairs only for an xrun. The thread's
program counter separates each test of `running_` from the call that follows
it; `stop()` is one step per call. Starting again after a stop is allowed. In the
constructor each open and each configuration may fail; the exception's path closes
what is open. In start() each prepare and the creation of the thread may fail; the last
leaves `running_` set. `leaving` tells that path and the destructor from a stop.

### PipeWireBackend

One step per library call of `start()`, of its error path and of `stop()`. `lock`
is the loop's lock: the main thread takes it around the creation and
destruction of the streams, the loop's thread holds it while it handles an
event, and `pw_thread_loop_stop()` returns when that thread is back in its poll and
has taken the lock to leave it. A stream is absent, created or connected; each call
of the library may fail. A connected stream may enter the error state at any time;
`failing` is the one whose `reportFailure()` is under way, `report` is history. What
the library does is taken from how the code uses it: `pw_stream_destroy()` waits for
the stream's process callback, callbacks of a stream need a connected one. The
ring of the same class is `PipeWireRing`; the two share no variable but the
stream's existence.

### JackBackend

`server` may go down at any time, and `jack_activate()` then refuses. The
shutdown callback runs on a thread of its own, as the library's notifications
do, so it may overtake a `process()` under way. `reporting` follows each of
the two callers through the four steps of `reportFailure()`. `jack_deactivate()` and
`jack_client_close()` return when `process()` has. The service starts a backend once
and the model does the same; it ends with the destructor. This backend does not
keep the contract of `AudioBackend`, as the finding below shows, so no refinement
is checked, and what `Application` shows of the engine's life holds for PipeWire and
ALSA only.

### Meters

`publishPeak` is a load and a weak compare-exchange, `takeLevels` one exchange per
meter. `owed` is a history variable: the highest published level that no
report has covered yet. `taken` tells whether a report taken during the
publication already covers it. The order of viewers in a round of sends is left
open, and a viewer may read, hang or hang up at any time.

### GainCurve and Compressor

The curve is exact: a reduction counts a fraction (`Scale`) of the level's unit, so
that slope and knee need no division. The envelope follower is modelled in
floating point of any width: every operation rounds to nearest, ties to even
(`exponent` is the last place of a result, `Rounded` the result), and a
build may contract a product and the sum after it (`build`), since nothing in the build
files forbids it. `follow` tabulates the follower's expression over all floats, so that
TLC computes each sum once. Infinite and NaN are values, and `std::max` treats them as the
code's order of operands makes it. A step is the beginning of a block (`BeginBlock`, which
is all of a block that is bypassed, has no channels or no frames) or one turn of the loop
over its frames (`ProcessFrame`). The logarithm is replaced by one that is linear between powers of two; what the
properties use of it, that it grows, that doubling adds a constant and that silence
lies below every knee (`SilenceAssumption`; -240 dB against -120 dB in the code), holds
for both. `loudest` and `highest` are history: the loudest number of the last frame, and
the highest envelope since the block began. The coefficients are multiples of 2^-`Precision`, for which
`1.0F - selected` is exact; in single precision all coefficients from 1/2 on are, and those
below belong to time constants of less than two samples.

## 3. The runs

| Run | Bounds | Shows |
|---|---|---|
| `pipewire_ring` | capacity 3, index range 12, blocks of 2, buffers of 1 and 4, requests of 1 and 3, 14 frames | TypeOK, BacklogBounded, NoDataRace, PlaysInOrder, refinement of the queue, FramesReachPlayback |
| `pipewire_ring_wrap` | capacity 3, index range 16 | counterexample to PlaysInOrder |
| `daemon` | 51 files, five modes, two reports, one SIGINT and one SIGTERM of the user; 32 bits are 2x10^7, 64 bits 4x10^8 | settings as declared and buildable, order of destruction, verdict, log, liveness |
| `application_failure` | `Application` alone, two reports | counterexample to FailureExitsWithStatusOne |
| `alsa_backend` | periods of up to 3 frames | handles, clean stop of the capture side, untorn periods, stop returns, refinement of the contract |
| `alsa_stop_race` | periods of 1 frame | counterexample to PlaybackFailureIsReal |
| `pipewire_backend` | two streams, one error report of each per start, any number of restarts | start and stop return, callback outlives its caller, refinement of the contract |
| `jack_backend` | one start, one report of each caller | no failure erased or unexplained, stop deactivates unless a report came first |
| `jack_stop` | the same | counterexample to StoppedIsQuiet |
| `meters` | 1 meter, levels 0..2, a viewer that reads and one that may hang, socket buffers of 2 reports | no peak lost, service of viewers, end of metering |
| `compressor` | 2 channels, significands of 5 bits, 5 exponents, samples 0, 112, 512 and NaN, coefficients 0, 1/2, 1 - 3/32 and 1 - 4/32, three builds | envelope, curve, report, settling |
| `compressor_infinite` | the same with an infinite sample | counterexample to AudioComesBack |

Why these bounds are enough. The ring's behaviour depends on the fill level, the
slot of each index and the wrap; capacity 3 has empty, partly full and full rings,
buffers that do and do not fit, buffers of one and of two blocks, reads that span
slot 0, and 14 frames take both indices past the range of 12. With requests of
1 the ring stays full, with 3 it runs empty. Two reports are what two streams
can make and one more than one `sigwait` takes. The files of `daemon` are one valid
file per backend and variants with one text changed: at the ends of the ranges and
one beyond, negative, wrapped around by the width of 32 and of 64 bits, in every
form, with every level and every kind of log file; texts do not influence each
other, so one change at a time is enough, and the widths only have to exceed the
values the code computes. JACK stands for a backend that is not compiled in. Three
frames allow a period in one, two or three writes. The two backends' lifecycles
have no other bound than that a stream or a caller reports once per start: a
stream in the error state stays there, and JACK neither calls a failed `process()`
again nor shuts down twice. Three levels let a peak be lower, equal or higher than
the one in the meter, and the meters do not influence each other; `MetersProofs`
covers any number. The coefficients are those of an immediate attack, of a fast one,
in units of the last place of the slowest one the schema admits (10 s at
384 kHz in single precision), and one that makes the sum of two rounded products leave
the interval between envelope and sound; the samples are silence, a sound below the threshold
and one above the knee, and the envelope takes every float between.

Fairness. The callbacks run to their end, and the graph goes on calling the
playback stream (`pipewire_ring`); no fairness is assumed of whoever plays into
the virtual sink. Threads are scheduled by the operating system
(weak fairness of the main thread, of the worker, of a callback's end and of the
`kill` that follows a flag); `sigwait` is not obliged to return without a signal. In
`Application` and `Daemon`, the return of the backend's stop() has strong fairness
because the contract lets callbacks go on until then; the ALSA run shows for one
backend that weak fairness of its threads is enough (`StopReturns`), where reads and
writes of a ready device have no fairness at all. In `PipeWireBackend`,
`pw_stream_destroy()` has strong fairness: the data thread may call the stream again
and again, but the library stops it from doing so once a destroy waits. Start and
stop themselves are requests and have none. The JACK runs check safety only. In
`Meters` the worker is scheduled (its poll has a timeout and its sends do not block),
and only the attentive viewers read. In `Compressor` the backend goes on calling: a
sound that is held is processed for as long as that moves the envelope.

Deadlock is checked except where the system may really stop: the ring when
`MaxFrames` were captured in a run without playback, the meters once the server
stopped, JACK after its destructor. A process that ended and an object that was
destroyed take a step of their own (`Terminated`), so that `daemon` and
`alsa_backend` find everybody who waits for nobody.

## 4. What the checks found

* **Index wrap** (`pipewire_ring_wrap`, `PipeWireBackend.cpp:338, 389`). A slot is the
  32-bit index modulo the capacity. At 48 kHz the capacity is 24000 frames, which
  does not divide 2^32: where the index wraps, every 24.8 hours, the slots jump,
  and frames not yet played are overwritten while old ones are played again.
* **Exit status** (`application_failure`, `SignalHandler.cpp:19`). A SIGTERM with which a
  backend reported a failure and which `sigwait` did not take kills the process when
  the mask is restored. It happens when start() throws after a report and
  when a second stream reports after the first one woke the main thread. Under
  systemd such a death is a clean exit: `Restart=on-failure` does nothing.
* **Stop as failure** (`alsa_stop_race`, `AlsaBackend.cpp:180`). The write path lacks the
  read path's `running_ &&`: a write that stop() interrupts is reported as
  "Audio backend failed".
* **JACK stop after a report** (`jack_stop`, `JackBackend.cpp:84, 193`). `reportFailure()`
  clears `active_`, so the `stop()` that follows a shutdown of the server finds
  nothing to do and returns while `process()` may still be in the engine. The
  engine is then destroyed before the backend closes the client. The PipeWire
  backend clears `active_` too, but its `stop()` also looks at its streams, and
  `pipewire_backend` shows that this is enough.
* **One infinite sample** (`compressor_infinite`, `EnvelopeFollower.cpp:21`). The envelope
  stays infinite, or becomes a NaN, whatever follows, and nothing calls `reset()`:
  the service is silent until it is restarted. A NaN is harmless, `std::max` drops it.

Seen while modelling, without a run of their own because no document says otherwise:

* The schema collapses whitespace, the parsers do not: a number with whitespace
  behind it, or a boolean with any, is valid and refused by `Config::load` all the
  same. The error is reported and the service does not start.
* `--validate-config` calls a configuration valid whose backend is not compiled in
  (`ValidIsBuildable` says "only then").
* `--schema` may name any schema; the parsers check no range, so the values
  then are what that schema lets through.
* At the level `critical` the record "Audio backend failed" is suppressed
  (`FailureIsLogged` says "only then"), and a log file that failed once stays behind
  for good (`LogFileHasNoGaps` allows it).
* Where a build does not contract the follower's expression, both products round
  before they are added, and a step may end one float outside the interval between the
  envelope and the sound: with the coefficient 1 - 3/32 of `compressor` the envelope falls
  from 108 to 104 on its way to 112. `EnvelopeApproachesLoudest` says that one step
  never leaves that interval by more than a float.
* The envelope stops moving where one step rounds to nothing: for the slowest
  coefficient the schema admits that may be 6 dB away from a steady sound, for the
  example configuration a few hundredths of a decibel (`EnvelopeSettles`).

## 5. Proofs

All theorems hold for every value of the constants under the named assumptions of
their modules, which TLC evaluates in the runs.

### The PipeWire ring

`PipeWireRingProofs` needs a positive capacity of at most a quarter of the index range,
which the constructor's limit of 2^32 - 1 bytes implies, and positive sizes:

* `TypeCorrect`: `Spec => []TypeOK`;
* `BacklogStaysBounded`: `Spec => []BacklogBounded`;
* `NoRaceOnTheStorage`: `SlotsFollow => (Spec => []NoDataRace)`.

`BacklogBounded` is not inductive: that publishing a block does not exceed the capacity
depends on the room found earlier. `IndexInv` adds what each callback may rely
on: `CaptureRoom` (the write index is still where the callback read it, and the backlog
plus what it will write fits) and `PlaybackStock` (the read index is still the local
one, and the frames it counted are still there). The other callback can
only increase that room or that stock; the lemmas `PublishAdds` and `ConsumeTakes` say
so of the wrapping arithmetic. The invariant has one lemma per action.

The statements about slots need that consecutive indices have consecutive slots.
`SlotsFollow` is the disjunction of the two ways to have that: `Aligned`, the capacity
divides the index range, or `NeverWraps`, fewer frames are captured than an index counts.
The first covers any length of a run of an aligned capacity; the second covers every
capacity, the 24000 frames of the 48 kHz configuration included, up to the first wrap
after 24.8 hours. The counterexample of `pipewire_ring_wrap` shows that one of them is
needed. `IndicesCountFrames` (without a wrap the indices are counts of frames, so the read
index is behind the write index) reduces both to the state predicate `Unbroken`, from which
everything below follows. The core is `SlotOfAdd` (moving an index by n moves its slot by n,
across a wrap too, from the uniqueness of remainders) and `FreeSlotsAreDisjoint`.

`PipeWireRingRefinement`, under the same assumption:

* `FramesPlayInOrder`: `SlotsFollow => (Spec => PlaysInOrder)`;
* `RingImplementsQueue`: `SlotsFollow => (Spec => RefinesQueue)`, the abstract queue with
  the mapping of `PipeWireRing`.

That no old frame comes back is a statement about the contents of the storage. Counting
slots from the read index on (`Stored`), `OrderInv` says that those of the backlog
ascend (`StoredAscends`), are not newer than the last published frame (`StoredIsOld`)
and, except those already played but not given back, newer than the last one
heard (`StoredIsUnheard`); that a capture callback writes newer frames only
(`InputIsNew`); and that a block waiting to be published is in the slots after the
backlog (`BlockIsStored`). Each action disturbs one or two of these; there is one
lemma per action.

For the refinement, `QueueIsBacklog` reads the mapped sequence as the slots from the
first frame not yet played to the write index. Publishing appends to it (`Accept`),
copying removes its head (`Deliver`), the begin of a playback is `Request`, and every
other step leaves it as it was; for each action one lemma says which. They need
`OrderInv` for what the appended block contains and `QueueInv` for the length of the output.

### The PipeWire streams

`PipeWireBackendProofs`, for any number of restarts:

* `TypeCorrect`, `CallbackIsThere`: `Spec => []CallbackOutlivesProcessing`;
* `KeepsContract`: `Spec => RefinesContract`.

`StreamInv` says how the three threads constrain each other: the lock is the main
thread's wherever it creates or destroys streams, and the loop's while it handles an
event (`LoopHoldsLock`); a report is half done only then (`ReportFollowsLoop`); which
streams exist follows from the step of the main thread, and only a connected one has a
process callback (`StreamsFollowMain`); and from the beginning of start() to the last step
of stop() the engine's callback is set (`CallbackIsHeld`). So `pw_stream_destroy()`, which
waits for the process callback, separates it from the moment `callback_` is cleared. In the
refinement each step of the library inside start() and stop() is a stutter but the
first and the last.

### The JACK backend

`JackProofs`, for any interleaving of the main thread, `process()` and the shutdown callback:

* `TypeCorrect`, `FailuresAreKept` (`NoFailureForgotten`), `FailuresAreExplained`
  (`FailureIsExplained`), `StopsUnlessReported` (`StopDeactivates`): the invariants of the run;
* `QuietUnlessReported`: `process()` runs after stop() only where one of the threads has
  reported a failure, so the report is the only way to the finding `jack_stop`.

`JackInv` adds to these `Quiet` (before the client is active nobody calls `process()`, a
failed `process()` is not called again, a shutdown needs a server that is down), `Cleared` (what the
flag says of the reports once start() has cleared it), `Written` (a report past its message
leaves one) and `Active` (between start() and stop() only a report clears `active_`).

### The ALSA backend

`AlsaProofs`, for every length of a period:

* `TypeCorrect`, `CaptureReportsAreReal`, `FailuresAreExplained`, `HandlesAreClosed`: the four
  invariants of the run;
* `PeriodsAreWritten`: `Spec => PeriodFullyWritten`;
* `KeepsContract`: `Spec => RefinesContract`.

None of the invariants is inductive alone. `AlsaInv` adds `Control` (the thread exists
from the end of start() to the join, `running` implies that stop() has not begun, where
the report stands), `Period` (nothing unwritten is left wherever the loop may read next),
`Handles`, and `Blame`: because stop() clears the flag before it drops the capture
device, an error that is still handled with the flag set is not the drop's, and then
the device is gone for good. The same reasoning fails for the playback device, whose
error is handled without a look at the flag: that is the finding. In the refinement,
each step of start(), stop(), the destructor, `Process` and the report is one step
of the contract; `Unseen` says of the others that they are none.

### The service

`DaemonProofs`, for any set of failure reports, of files and of compiled backends, and
any widths of the integers in which the bytes of the largest admitted ring fit:

* `EngineIsSafe`, `SocketIsSafe`: the engine and the socket outlive their users;
* `SettingsAreDeclared`, `ValidCanBeBuilt`: what is loaded is what the file says, and
  it passes the constructors;
* `SuccessIsEarned`: a status of 0 needs a signal of the user and no reported failure;
* `FailureHasItsRecord`, `FileFollowsStderr`: the log;
* `DaemonTypeCorrect`.

They are safety statements of `DaemonSpec` and need no fairness. `Life` ties what is alive
to the step of the main thread. `Accounted` says where a pending signal may come from:
the user, or a report, and every report leaves its mark in `failed`; the beginning
of start(), which forgets both, comes when nothing was reported yet. `Deserved` and
`Logged` carry the verdict and its record from `run()` to the exit. The lemmas on settings go
from the ranges of the schema (`SizesAreSmall`) over the remainders of the parsers
(`LoadedIsDeclared`) to the bound on the ring's size (`LoadedIsAccepted`). JACK does not
keep the contract these proofs start from (finding above), so they are about
PipeWire and ALSA.

### The meters

`MetersProofs`, for any number of meters, levels and viewers: `TypeCorrect` and
`NoPeakIsLost`. The strengthening is `LoadedIsCovered`: what `publishPeak()` loaded is still
in the meter or was taken by a report since, so a compare-exchange that succeeds,
and a level that is not published because it is lower, lose nothing.

### The compressor

`CompressorProofs`. Of the curve, for every threshold, knee and ratio the schema admits:

* `CurveKeepsOrder` (a higher level is reduced at least as much, and what is left is at
  least as loud) and `NeverBoosts`. The knee's parabola is handled through `Gentle`, a bound
  on its slope that is preserved from one end of the knee to the other.

Of the follower and the report, for every width of a float, every set of samples, any
number of channels and all coefficients below one in the model's unit:

* `TypeCorrect` and `ReportIsTrue`: `Spec => []ReportIsOfHighestFrame`, infinite samples
  included;
* `ApproachesLoudest`: `Infinite \notin Samples => (Spec => EnvelopeApproachesLoudest)`;
* `LouderStays`: `Infinite \notin Samples => (Spec => LouderStaysLouder)`.

The last two exclude infinite samples because of the finding `compressor_infinite`: after
one the envelope is no number, and has no order.

Rounding is the heart of the matter. From its definition follow that the
result is a float, that no float is nearer (`RoundedNearest`), that a float rounds to itself
(`RoundedExact`), that the order is kept (`RoundedMonotone`) and that the error is at most
half a last place (`RoundedError`). A contracted sum is rounded once and so stays
between its operands. Without contraction the sum of the two rounded terms is
less than one last place away from the interval between envelope and sound
(`TermAbove`, `TermBelow`, `SumStaysNear`), and by `NoFloatBetween` the float it rounds
to is at most the next one outside. `FollowIsSum` carries this to the table, `PeakIsLoudest`
shows that the loop over the channels finds the loudest one in spite of NaNs, and
`LevelFacts` that the level grows with the float. What would be inductions, over the exponent
of a float and over the channels, rests on `LeastNatural` (a set of naturals that is not
empty has a least element).

`ReportIsTrue` is about the whole block: `std::min` over the reductions, in the order of time,
is the reduction of the highest envelope (`LowestIsOfHighest`). It needs that the curve falls
(`CurveKeepsOrder`, `LevelFacts`), that NaNs drop out of both sides, that an infinite envelope
is muted or, with the ratio 1, not shown, and that the 0 a block starts from is the
reduction of silence (`SilenceIsKept`).

Three assumptions carry numbers: `PowersAssumption` states the laws of powers of two in the
model's range, which the provers do not know, `SilenceAssumption` that the floor of the
level is below the knee, and `MuteAssumption` that the number that stands for minus infinity
is below every reduction. TLC evaluates them.

### Only model-checked

Every safety property and every refinement that a passing run checks is stated by a
theorem. What remains with TLC is liveness, which is out of the prover's reach:
`FramesReachPlayback`, `StopReturns` of `AlsaBackend`, `StartAndStopReturn`,
`SignalEndsService`, `FailureEndsService`, `MetersOffWhenUnwatched`, `ViewerServed`,
`ViewersLearnOfStop` and `EnvelopeSettles`. For the five counterexamples, a proof would show
nothing.

## 6. Not modelled

* Samples other than by level, their formats, the product of sample and gain and the
  makeup gain: no state depends on them.
* The names of devices, nodes and ports in the configuration, and JACK's port
  lists: strings that are copied and handed to a library.
* The layout of log records and the drawing of the meters. Only the main thread logs,
  so the logger's mutex is never contended.
* `Compressor::reset()`, which nothing but the constructor's `configure()` calls, and the
  coefficients' computation from milliseconds by `exp`.
* The latency that the ALSA backend asks of a device (below 2^32 microseconds for every
  setting the schema admits), and an error of `snd_pcm_recover` that passes: a device that
  is gone stands for every error that stays.
* That the levels of one meter report may come from two blocks, which `takeLevels()`
  accepts.
* The check of a viewer's user id, which closes foreign connections at once, and the
  listening queue's limit of four connections.
* Memory ordering is that of the interleaving model: the ring's indices are accessed
  with acquire and release by the library, and the meters' relaxed atomics are
  independent of each other.
* Build files and packaging: declarative. The set of compiled backends is a constant
  of `Daemon`.

## 7. Plan

1. Done: the ring, the backends' lifecycles, the application and the whole of `main()`
   with configuration and logger, the meters, the compressor.
2. Done: proofs of every safety property that the passing runs check, and of the three
   refinements.
3. Open: `Daemon` over the detailed backends instead of the contract; how far rounding
   can take the envelope beyond the loudest sound over many steps, where the proof
   speaks of one.
