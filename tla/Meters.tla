------------------------------- MODULE Meters -------------------------------
(***************************************************************************)
(* The live meters.  The audio thread leaves the peaks of each block in    *)
(* atomic variables (AudioEngine::process); the meter server's worker      *)
(* takes and clears them about twenty times a second and sends them to     *)
(* every connected viewer (MeterServer::serve).  The audio thread never    *)
(* waits, and a viewer that does not read must not delay the others.       *)
(***************************************************************************)
EXTENDS Integers, FiniteSets

CONSTANTS
  MeterCount, \* atomics in AudioEngine: input, output and reduction are 3
  MaxLevel,   \* bound: levels are 0..MaxLevel
  Viewers,    \* processes running audiocompd --visualize
  Attentive,  \* the viewers that go on reading; the others may hang
  InboxMax    \* reports a viewer's socket buffer holds

ASSUME MetersAssumption ==
  /\ MeterCount \in Nat \ {0}
  /\ MaxLevel \in Nat
  /\ Attentive \subseteq Viewers
  /\ InboxMax \in Nat \ {0}

VARIABLES
  metersEnabled, \* metersEnabled_
  peak,          \* inputPeak_, outputPeak_, reductionDb_
  audioPc, block, meter, previous, \* AudioEngine::process on the audio thread
  running,       \* MeterServer::running_
  worker, taking, toSend, clients, \* MeterServer::serve on the worker
  backlog,       \* viewers in the listening socket's queue
  socket,        \* the listening socket
  attached,      \* viewers whose own end of the connection is open
  inbox,         \* reports a viewer has not read yet
  taken,         \* history: highest level taken since `previous` was loaded
  owed           \* history: highest level published and not covered by a report

audio == <<audioPc, block, meter, previous>>
serving == <<worker, taking, toSend>>
listening == <<running, socket>>
viewing == <<clients, backlog, attached, inbox>>
history == <<taken, owed>>
vars == <<metersEnabled, peak, audio, serving, listening, viewing, history>>

Levels == 0..MaxLevel
MeterSet == 1..MeterCount

AtLeast(a, b) == IF a >= b THEN a ELSE b

(* MeterServer::start succeeded.                                           *)
Init ==
  /\ metersEnabled = FALSE
  /\ peak = [m \in MeterSet |-> 0]
  /\ audioPc = "idle" /\ block = peak /\ meter = 1 /\ previous = 0
  /\ running = TRUE /\ socket = "open"
  /\ worker = "check" /\ taking = 1 /\ toSend = {}
  /\ clients = {} /\ backlog = {} /\ attached = {}
  /\ inbox = [v \in Viewers |-> 0]
  /\ taken = 0 /\ owed = peak

-----------------------------------------------------------------------------
(* AudioEngine::process: whether to publish is decided once per block.     *)
ProcessBlock(levels) ==
  /\ audioPc = "idle"
  /\ metersEnabled
  /\ block' = levels
  /\ meter' = 1
  /\ audioPc' = "load"
  /\ UNCHANGED <<metersEnabled, peak, previous, serving, listening, viewing,
                 history>>

(* publishPeak: previous = destination.load()                              *)
LoadPeak ==
  /\ audioPc = "load"
  /\ previous' = peak[meter]
  /\ taken' = 0
  /\ audioPc' = "exchange"
  /\ UNCHANGED <<metersEnabled, peak, block, meter, serving, listening, viewing,
                 owed>>

(* Bug: the meters are counted from zero.                                  *)
PublishedPastEnd ==
  /\ owed' = [owed EXCEPT ![meter] =
                IF taken >= block[meter] THEN @ ELSE AtLeast(@, block[meter])]
  /\ meter' = meter + 1
  /\ audioPc' = IF meter < MeterCount THEN "load" ELSE "idle"
  /\ previous' = 0
  /\ UNCHANGED taken

(* The meter's value stands, or a report since the load has covered it.    *)
Published ==
  /\ owed' = [owed EXCEPT ![meter] =
                IF taken >= block[meter] THEN @ ELSE AtLeast(@, block[meter])]
  /\ meter' = IF meter < MeterCount THEN meter + 1 ELSE 1
  /\ audioPc' = IF meter < MeterCount THEN "load" ELSE "idle"
  /\ previous' = 0
  /\ UNCHANGED taken

(* Bug: the block's peak replaces a higher one that nobody took yet.       *)
ExchangePeakStoring ==
  /\ audioPc = "exchange"
  /\ peak' = [peak EXCEPT ![meter] = block[meter]]
  /\ Published
  /\ UNCHANGED <<metersEnabled, block, serving, listening, viewing>>

(* while (previous < value && !compare_exchange_weak(previous, value)).    *)
(* The weak exchange may fail though nothing changed.                      *)
ExchangePeak ==
  /\ audioPc = "exchange"
  /\ \/ /\ previous >= block[meter]
        /\ Published
        /\ UNCHANGED peak
     \/ /\ previous < block[meter]
        /\ peak[meter] = previous
        /\ peak' = [peak EXCEPT ![meter] = block[meter]]
        /\ Published
     \/ /\ previous < block[meter]
        /\ previous' = peak[meter]
        /\ UNCHANGED <<peak, audioPc, meter, history>>
  /\ UNCHANGED <<metersEnabled, block, serving, listening, viewing>>

Audio ==
  \/ \E levels \in [MeterSet -> Levels] : ProcessBlock(levels)
  \/ LoadPeak
  \/ ExchangePeak

-----------------------------------------------------------------------------
(* MeterServer::serve *)

CheckRunning ==
  /\ worker = "check"
  /\ worker' = IF running THEN "poll" ELSE "leave"
  /\ UNCHANGED <<metersEnabled, peak, audio, taking, toSend, listening, viewing,
                 history>>

(* poll returns after 50 ms at the latest; every waiting viewer is         *)
(* accepted.  With a client the meters are enabled before the levels are   *)
(* taken, without one they are disabled afterwards.                        *)
Poll ==
  /\ worker = "poll"
  /\ clients' = clients \cup backlog
  /\ backlog' = {}
  /\ worker' = IF clients' = {} THEN "take" ELSE "enable"
  /\ UNCHANGED <<metersEnabled, peak, audio, taking, toSend, listening, attached,
                 inbox, history>>

Enable ==
  /\ worker = "enable"
  /\ metersEnabled' = TRUE
  /\ worker' = "take"
  /\ UNCHANGED <<peak, audio, taking, toSend, listening, viewing, history>>

(* takeLevels: one exchange(0) per meter, in their order                   *)
TakeLevel ==
  /\ worker = "take"
  /\ peak' = [peak EXCEPT ![taking] = 0]
  /\ owed' = [owed EXCEPT ![taking] = IF peak[taking] >= @ THEN 0 ELSE @]
  /\ taken' = IF audioPc = "exchange" /\ meter = taking
                THEN AtLeast(taken, peak[taking]) ELSE taken
  /\ taking' = IF taking < MeterCount THEN taking + 1 ELSE 1
  /\ worker' = IF taking < MeterCount THEN "take"
               ELSE IF clients = {} THEN "disable" ELSE "send"
  /\ toSend' = IF taking < MeterCount THEN {} ELSE clients
  /\ UNCHANGED <<metersEnabled, audio, listening, viewing>>

Disable ==
  /\ worker = "disable"
  /\ metersEnabled' = FALSE
  /\ worker' = "check"
  /\ UNCHANGED <<peak, audio, taking, toSend, listening, viewing, history>>

(* Bug: a viewer whose send failed is kept.                                *)
SendKeeping(v) ==
  /\ worker = "send"
  /\ v \in toSend
  /\ toSend' = toSend \ {v}
  /\ inbox' = IF v \in attached /\ inbox[v] < InboxMax
                THEN [inbox EXCEPT ![v] = @ + 1] ELSE inbox
  /\ UNCHANGED <<metersEnabled, peak, audio, worker, taking, listening,
                 clients, backlog, attached, history>>

(* Bug: send blocks while the viewer's buffer is full.                     *)
SendBlocking(v) ==
  /\ worker = "send"
  /\ v \in toSend
  /\ v \in attached => inbox[v] < InboxMax
  /\ toSend' = toSend \ {v}
  /\ IF v \in attached
       THEN inbox' = [inbox EXCEPT ![v] = @ + 1] /\ UNCHANGED clients
       ELSE clients' = clients \ {v} /\ UNCHANGED inbox
  /\ UNCHANGED <<metersEnabled, peak, audio, worker, taking, listening, backlog,
                 attached, history>>

(* send(MSG_DONTWAIT): a viewer that hung up, or whose buffer is full, is  *)
(* closed and forgotten.                                                   *)
Send(v) ==
  /\ worker = "send"
  /\ v \in toSend
  /\ toSend' = toSend \ {v}
  /\ IF v \in attached /\ inbox[v] < InboxMax
       THEN inbox' = [inbox EXCEPT ![v] = @ + 1] /\ UNCHANGED clients
       ELSE clients' = clients \ {v} /\ UNCHANGED inbox
  /\ UNCHANGED <<metersEnabled, peak, audio, worker, taking, listening, backlog,
                 attached, history>>

SentAll ==
  /\ worker = "send"
  /\ toSend = {}
  /\ worker' = "check"
  /\ UNCHANGED <<metersEnabled, peak, audio, taking, toSend, listening, viewing,
                 history>>

Leave ==
  /\ worker = "leave"
  /\ metersEnabled' = FALSE
  /\ clients' = {}
  /\ worker' = "done"
  /\ UNCHANGED <<peak, audio, taking, toSend, listening, backlog, attached,
                 inbox, history>>

Serve ==
  \/ CheckRunning \/ Poll \/ Enable \/ TakeLevel \/ Disable
  \/ \E v \in Viewers : Send(v)
  \/ SentAll \/ Leave

-----------------------------------------------------------------------------
(* MeterServer::stop on the main thread: what still waits in the queue is  *)
(* closed with the socket.                                                 *)
Stop ==
  /\ running
  /\ running' = FALSE
  /\ UNCHANGED <<metersEnabled, peak, audio, serving, socket, viewing, history>>

(* Bug: the listening socket is left to the end of the process.            *)
JoinOnly ==
  /\ ~running /\ worker = "done" /\ socket = "open"
  /\ socket' = "closed"
  /\ UNCHANGED <<metersEnabled, peak, audio, serving, running, viewing, history>>

JoinAndClose ==
  /\ ~running /\ worker = "done" /\ socket = "open"
  /\ socket' = "closed"
  /\ backlog' = {}
  /\ UNCHANGED <<metersEnabled, peak, audio, serving, running, clients,
                 attached, inbox, history>>

-----------------------------------------------------------------------------
(* runMeterClient *)

viewer_ == <<metersEnabled, peak, audio, serving, listening, clients, history>>

Connect(v) ==
  /\ socket = "open"
  /\ v \notin attached \cup clients \cup backlog
  /\ attached' = attached \cup {v}
  /\ backlog' = backlog \cup {v}
  /\ inbox' = [inbox EXCEPT ![v] = 0]
  /\ UNCHANGED viewer_

Receive(v) ==
  /\ v \in attached /\ inbox[v] > 0
  /\ inbox' = [inbox EXCEPT ![v] = @ - 1]
  /\ UNCHANGED <<viewer_, backlog, attached>>

(* Ctrl+C                                                                  *)
HangUp(v) ==
  /\ v \in attached
  /\ attached' = attached \ {v}
  /\ inbox' = [inbox EXCEPT ![v] = 0]
  /\ UNCHANGED <<viewer_, backlog>>

(* The reports that were sent are read, then recv tells that the server    *)
(* closed the connection.                                                  *)
SeeClosed(v) ==
  /\ v \in attached \ (clients \cup backlog)
  /\ inbox[v] = 0
  /\ attached' = attached \ {v}
  /\ UNCHANGED <<viewer_, backlog, inbox>>

View(v) == Connect(v) \/ Receive(v) \/ HangUp(v) \/ SeeClosed(v)

-----------------------------------------------------------------------------
Next ==
  \/ Audio \/ Serve \/ Stop \/ JoinAndClose
  \/ \E v \in Viewers : View(v)

Spec == Init /\ [][Next]_vars

(* The worker is scheduled, poll has a timeout and no send blocks; stop()  *)
(* closes the socket once the worker has ended; the attentive viewers read. *)
FairSpec ==
  /\ Spec
  /\ WF_vars(Serve) /\ WF_vars(JoinAndClose)
  /\ \A v \in Attentive : WF_vars(Receive(v) \/ SeeClosed(v))

-----------------------------------------------------------------------------
(* Properties *)

TypeOK ==
  /\ metersEnabled \in BOOLEAN
  /\ peak \in [MeterSet -> Levels] /\ owed \in [MeterSet -> Levels]
  /\ block \in [MeterSet -> Levels]
  /\ audioPc \in {"idle", "load", "exchange"}
  /\ meter \in MeterSet /\ previous \in Levels
  /\ running \in BOOLEAN /\ socket \in {"open", "closed"}
  /\ worker \in {"check", "poll", "enable", "take", "disable", "send", "leave",
                 "done"}
  /\ taking \in MeterSet
  /\ toSend \subseteq clients /\ clients \subseteq Viewers
  /\ backlog \subseteq Viewers /\ attached \subseteq Viewers
  /\ inbox \in [Viewers -> 0..InboxMax]
  /\ taken \in Levels

(* README.md:259, "peaks since the previous update": the peak of every     *)
(* metered block is in a report taken after its publication began, or      *)
(* still waits to be taken, however the audio thread and the worker        *)
(* interleave.                                                             *)
PeaksNotLost == \A m \in MeterSet : peak[m] >= owed[m]

(* README.md:259, "Meter collection is enabled only while a viewer is      *)
(* connected": the hang-up is noticed at the next update.                  *)
MetersOffWhenUnwatched == attached = {} ~> ~metersEnabled \/ attached # {}

(* A viewer that connected gets reports, also while another one hangs.     *)
ViewerServed ==
  \A v \in Viewers :
    v \in backlog \cup clients ~>
      inbox[v] > 0 \/ v \notin attached \/ ~running

(* When the service stops, every viewer that reads finds its connection    *)
(* closed, also one that was never accepted.                               *)
ViewersLearnOfStop == \A v \in Attentive : ~running ~> v \notin attached
=============================================================================
