------------------------------ MODULE Settings ------------------------------
(***************************************************************************)
(* What Config::load makes of a configuration file: the schema decides     *)
(* first (audiocompd.xsd), then the parsers of Config.cpp read the same    *)
(* texts by rules of their own, and the backend's constructor computes its *)
(* buffer from the result.  The texts of the file are records of what they *)
(* denote and of how they are written:                                     *)
(*   plain            the number or the word alone                         *)
(*   leading          whitespace in front of it                            *)
(*   trailing         whitespace behind it                                 *)
(*   suffix           other characters behind it                           *)
(*   exponent         a number as in 4e0                                   *)
(*   upper            TRUE for true                                        *)
(*   word             something else, nan where a number may be expected   *)
(*   absent           the element or the attribute is missing              *)
(* Decimals are counted in halves, booleans are 0 and 1.                   *)
(***************************************************************************)
EXTENDS Integers

CONSTANTS
  SizeRange, \* std::size_t counts modulo SizeRange
  UintRange  \* std::uint32_t and unsigned int count modulo UintRange

(* Half a second at 384 kHz in stereo is the most bytes of a ring that the *)
(* schema admits.                                                          *)
ASSUME SettingsAssumption ==
  /\ UintRange \in Nat /\ UintRange > 1536000
  /\ SizeRange \in Nat /\ SizeRange >= UintRange

LogLevels == {"debug", "info", "warning", "error", "critical"}

sizeFields(kind) ==
  CASE kind = "alsa"     -> {"sampleRate", "channels", "periodFrames", "periods"}
    [] kind = "jack"     -> {"channels"}
    [] kind = "pipewire" -> {"sampleRate", "channels", "quantum"}
    [] OTHER             -> {}
boolFields(kind) == {"enabled"} \cup IF kind = "jack" THEN {"autoConnect"} ELSE {}
floatFields == {"thresholdDb", "ratio", "attackMs", "releaseMs", "kneeDb",
                "makeupGainDb"}
fields(kind) == sizeFields(kind) \cup boolFields(kind) \cup floatFields

-----------------------------------------------------------------------------
(* audiocompd.xsd *)

(* A restriction by xs:minInclusive and xs:maxInclusive                    *)
Inclusive(low, high) == low .. high

(* Bug: PipeWire's channels have no type of their own.                     *)
channelCountTypeForAll(kind) == Inclusive(1, 64)

channelCountType(kind) == Inclusive(1, IF kind = "pipewire" THEN 2 ELSE 64)

(* The values the simple types admit.                                      *)
admittedSizes(kind) ==
  [sampleRate |-> Inclusive(8000, 384000), channels |-> channelCountType(kind),
   periodFrames |-> Inclusive(16, 8192), quantum |-> Inclusive(16, 8192),
   periods |-> Inclusive(2, 16)]

admittedDecimals ==
  [thresholdDb |-> Inclusive(-192, 0), ratio |-> Inclusive(2, 200),
   attackMs |-> Inclusive(0, 20000), releaseMs |-> Inclusive(0, 20000),
   kneeDb |-> Inclusive(0, 96), makeupGainDb |-> Inclusive(-96, 96)]

Admitted(kind, f) ==
  IF f \in sizeFields(kind) THEN admittedSizes(kind)[f]
  ELSE IF f \in floatFields THEN admittedDecimals[f]
  ELSE {0, 1}

(* All the numeric types and xs:boolean collapse whitespace before they    *)
(* look at a text; none has an exponent, a NaN or capital letters.         *)
SchemaAdmits(kind, f, text) ==
  /\ text.form \in {"plain", "leading", "trailing"}
  /\ text.value \in Admitted(kind, f)

(* Bug: the numbers and booleans are left to the parsers.                  *)
ValidatesLeniently(file) ==
  file.kind \in {"alsa", "jack", "pipewire"} /\ file.level \in LogLevels

(* validateDocument: log levels are strings, their whitespace counts.      *)
Validates(file) ==
  /\ file.schema = "parsed"
  /\ file.kind \in {"alsa", "jack", "pipewire"}
  /\ \A f \in fields(file.kind) : SchemaAdmits(file.kind, f, file.text[f])
  /\ file.level \in LogLevels

-----------------------------------------------------------------------------
(* The parsers of Config.cpp *)

(* std::stoull skips leading whitespace, and a minus sign negates modulo    *)
(* the range; what follows the digits has to be nothing.                   *)
SizeParses(text) ==
  text.form \in {"plain", "leading"} /\ -SizeRange < text.value /\ text.value < SizeRange
parseSize(text) == text.value % SizeRange

(* std::stof reads exponents, and nan as a number.                         *)
NaN == 1000000
FloatParses(text) == text.form \in {"plain", "leading", "exponent", "word"}
parseFloat(text) == IF text.form = "word" THEN NaN ELSE text.value

(* No whitespace at all, but any case.                                     *)
BoolParses(text) == text.form \in {"plain", "upper"} /\ text.value \in {0, 1}

(* findChild finds the element, or xmlGetProp the attribute.               *)
Present(text) == text.form # "absent"

Parses(kind, f, text) ==
  /\ Present(text)
  /\ f \in sizeFields(kind) => SizeParses(text)
  /\ f \in floatFields => FloatParses(text)
  /\ f \in boolFields(kind) => BoolParses(text)

(* sampleRate is cast to 32 bits.                                          *)
Parsed(kind, f, text) ==
  IF f = "sampleRate" THEN parseSize(text) % UintRange
  ELSE IF f \in sizeFields(kind) THEN parseSize(text)
  ELSE IF f \in floatFields THEN parseFloat(text)
  ELSE text.value

(* Config::load returns, and what it returns.                              *)
Loads(file) ==
  /\ file.readable
  /\ Validates(file)
  /\ file.kind \in {"alsa", "jack", "pipewire"}
  /\ \A f \in fields(file.kind) : Parses(file.kind, f, file.text[f])

Loaded(file) ==
  [kind |-> file.kind, level |-> file.level, filePath |-> file.filePath,
   value |-> [f \in fields(file.kind) |-> Parsed(file.kind, f, file.text[f])]]

-----------------------------------------------------------------------------
(* What the constructors compute from the loaded values *)

larger(a, b) == IF a >= b THEN a ELSE b

(* PipeWireBackend::PipeWireBackend                                        *)
capacityFrames(v) == larger(v.sampleRate \div 2, v.quantum * 8)
storageBytes(v) == capacityFrames(v) * (v.channels * 4)
PipeWireAccepts(v) ==
  /\ v.channels \in 1..2
  /\ v.sampleRate # 0 /\ v.quantum # 0
  /\ storageBytes(v) < UintRange

(* The factory's choice and the checks of the constructor it calls, apart  *)
(* from what the system answers.                                           *)
Buildable(config, compiled) ==
  /\ config.kind \in compiled
  /\ config.kind = "pipewire" => PipeWireAccepts(config.value)
=============================================================================
