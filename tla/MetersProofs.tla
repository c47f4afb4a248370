---------------------------- MODULE MetersProofs ----------------------------
(***************************************************************************)
(* Proofs about the meters, for any number of meters, levels and viewers.  *)
(***************************************************************************)
EXTENDS Meters, TLAPS

(* What publishPeak() knows of the value it loaded: either the meter has   *)
(* not fallen below it, or a report took at least that much since.         *)
LoadedIsCovered ==
  audioPc = "exchange" => peak[meter] >= previous \/ taken >= previous

(* A round of sends is over when the worker goes on, so none is left when  *)
(* it closes the connections.                                              *)
RoundIsOver == worker # "send" => toSend = {}

PeakInv == PeaksNotLost /\ LoadedIsCovered

-----------------------------------------------------------------------------
(* Type correctness, action by action *)

LEMMA AtLeastType ==
  ASSUME NEW a \in Levels, NEW b \in Levels
  PROVE  AtLeast(a, b) \in Levels
BY DEF AtLeast

LEMMA TypeInit == Init => TypeOK /\ RoundIsOver
<1> SUFFICES ASSUME Init PROVE TypeOK /\ RoundIsOver
  OBVIOUS
<1>1. 0 \in Levels /\ 1 \in MeterSet /\ 0 \in 0..InboxMax
  BY MetersAssumption DEF Levels, MeterSet
<1>2. peak \in [MeterSet -> Levels] /\ inbox \in [Viewers -> 0..InboxMax]
  BY <1>1 DEF Init
<1> QED
  BY <1>1, <1>2 DEF Init, TypeOK, RoundIsOver

LEMMA TypePublished ==
  ASSUME TypeOK, Published
  PROVE  /\ owed' \in [MeterSet -> Levels]
         /\ meter' \in MeterSet
         /\ audioPc' \in {"load", "idle"}
         /\ previous' \in Levels
         /\ taken' \in Levels
<1>1. block[meter] \in Levels /\ owed[meter] \in Levels
  BY DEF TypeOK
<1>2. AtLeast(owed[meter], block[meter]) \in Levels
  BY <1>1, AtLeastType
<1>3. owed' \in [MeterSet -> Levels]
  BY <1>1, <1>2 DEF TypeOK, Published
<1>4. meter' \in MeterSet
  BY MetersAssumption DEF TypeOK, Published, MeterSet
<1>5. previous' \in Levels
  BY MetersAssumption DEF Published, Levels
<1> QED
  BY <1>3, <1>4, <1>5 DEF TypeOK, Published

LEMMA TypeAudio ==
  ASSUME TypeOK, Audio
  PROVE  TypeOK'
<1>1. ASSUME NEW levels \in [MeterSet -> Levels], ProcessBlock(levels)
      PROVE  TypeOK'
  BY <1>1, MetersAssumption
    DEF TypeOK, ProcessBlock, MeterSet, serving, listening, viewing, history
<1>2. CASE LoadPeak
  <2>1. peak[meter] \in Levels /\ 0 \in Levels
    BY MetersAssumption DEF TypeOK, Levels
  <2> QED
    BY <1>2, <2>1 DEF TypeOK, LoadPeak, serving, listening, viewing
<1>3. CASE ExchangePeak
  <2>1. block[meter] \in Levels /\ peak[meter] \in Levels
    BY DEF TypeOK
  <2>2. CASE Published
    <3>1. peak' \in [MeterSet -> Levels]
      BY <1>3, <2>1 DEF ExchangePeak, TypeOK
    <3> QED
      BY <1>3, <2>2, <3>1, TypePublished
        DEF TypeOK, ExchangePeak, serving, listening, viewing
  <2>3. CASE ~Published
    BY <1>3, <2>1, <2>3
      DEF TypeOK, ExchangePeak, serving, listening, viewing, history
  <2> QED
    BY <2>2, <2>3
<1> QED
  BY <1>1, <1>2, <1>3 DEF Audio

LEMMA TypeTakeLevel ==
  ASSUME TypeOK, TakeLevel
  PROVE  TypeOK'
<1>1. /\ peak[taking] \in Levels /\ owed[taking] \in Levels /\ 0 \in Levels
  BY MetersAssumption DEF TypeOK, Levels
<1>2. AtLeast(taken, peak[taking]) \in Levels
  BY <1>1, AtLeastType DEF TypeOK
<1>3. peak' \in [MeterSet -> Levels] /\ owed' \in [MeterSet -> Levels]
  BY <1>1 DEF TypeOK, TakeLevel
<1>4. taken' \in Levels
  BY <1>2 DEF TypeOK, TakeLevel
<1>5. taking' \in MeterSet
  BY MetersAssumption DEF TypeOK, TakeLevel, MeterSet
<1>6. /\ worker' \in {"take", "disable", "send"}
      /\ toSend' \subseteq clients'
  BY DEF TypeOK, TakeLevel, viewing
<1> QED
  BY <1>3, <1>4, <1>5, <1>6 DEF TypeOK, TakeLevel, audio, listening, viewing

LEMMA TypeServe ==
  ASSUME TypeOK, RoundIsOver, Serve
  PROVE  TypeOK'
<1>1. CASE CheckRunning
  BY <1>1 DEF TypeOK, CheckRunning, audio, listening, viewing, history
<1>2. CASE Poll
  BY <1>2 DEF TypeOK, Poll, audio, listening, viewing, history
<1>3. CASE Enable
  BY <1>3 DEF TypeOK, Enable, audio, listening, viewing, history
<1>4. CASE TakeLevel
  BY <1>4, TypeTakeLevel
<1>5. CASE Disable
  BY <1>5 DEF TypeOK, Disable, audio, listening, viewing, history
<1>6. ASSUME NEW v \in Viewers, Send(v)
      PROVE  TypeOK'
  <2>1. inbox' \in [Viewers -> 0..InboxMax]
    BY <1>6, MetersAssumption DEF TypeOK, Send
  <2>2. toSend' \subseteq clients' /\ clients' \subseteq Viewers
    BY <1>6 DEF TypeOK, Send
  <2> QED
    BY <1>6, <2>1, <2>2 DEF TypeOK, Send, audio, listening, history
<1>7. CASE SentAll
  BY <1>7 DEF TypeOK, SentAll, audio, listening, viewing, history
<1>8. CASE Leave
  BY <1>8 DEF TypeOK, RoundIsOver, Leave, audio, listening, history
<1> QED
  BY <1>1, <1>2, <1>3, <1>4, <1>5, <1>6, <1>7, <1>8 DEF Serve

LEMMA TypeView ==
  ASSUME TypeOK, NEW v \in Viewers, View(v)
  PROVE  TypeOK'
<1>1. inbox' \in [Viewers -> 0..InboxMax]
  BY MetersAssumption DEF TypeOK, View, Connect, Receive, HangUp, SeeClosed
<1>2. attached' \subseteq Viewers /\ backlog' \subseteq Viewers
  BY DEF TypeOK, View, Connect, Receive, HangUp, SeeClosed
<1>3. UNCHANGED viewer_
  BY DEF View, Connect, Receive, HangUp, SeeClosed
<1> QED
  BY <1>1, <1>2, <1>3 DEF TypeOK, viewer_, audio, serving, listening, history

LEMMA RoundNext == TypeOK /\ RoundIsOver /\ [Next]_vars => RoundIsOver'
<1> SUFFICES ASSUME TypeOK, RoundIsOver, [Next]_vars
             PROVE  RoundIsOver'
  OBVIOUS
<1>1. CASE Serve
  BY <1>1 DEF RoundIsOver, Serve, CheckRunning, Poll, Enable, TakeLevel, Disable,
    Send, SentAll, Leave
<1>2. ASSUME ~Serve
      PROVE  UNCHANGED <<worker, toSend>>
  BY <1>2 DEF Next, Audio, ProcessBlock, LoadPeak, ExchangePeak, Stop, JoinAndClose,
    View, Connect, Receive, HangUp, SeeClosed, viewer_, serving, vars
<1> QED
  BY <1>1, <1>2 DEF RoundIsOver

LEMMA TypeNext == TypeOK /\ RoundIsOver /\ [Next]_vars => TypeOK'
<1> SUFFICES ASSUME TypeOK, RoundIsOver, [Next]_vars
             PROVE  TypeOK'
  OBVIOUS
<1>1. CASE Audio
  BY <1>1, TypeAudio
<1>2. CASE Serve
  BY <1>2, TypeServe
<1>3. CASE Stop
  BY <1>3 DEF TypeOK, Stop, audio, serving, viewing, history
<1>4. CASE JoinAndClose
  BY <1>4 DEF TypeOK, JoinAndClose, audio, serving, history
<1>5. ASSUME NEW v \in Viewers, View(v)
      PROVE  TypeOK'
  BY <1>5, TypeView
<1>6. CASE UNCHANGED vars
  BY <1>6 DEF TypeOK, vars, audio, serving, listening, viewing, history
<1> QED
  BY <1>1, <1>2, <1>3, <1>4, <1>5, <1>6 DEF Next

(* Every variable keeps its type, for any number of meters and viewers.    *)
THEOREM TypeCorrect == Spec => []TypeOK
BY TypeInit, TypeNext, RoundNext, PTL DEF Spec

-----------------------------------------------------------------------------
(* No peak is lost *)

LEMMA PeakInit == Init => PeakInv
BY MetersAssumption DEF Init, PeakInv, PeaksNotLost, LoadedIsCovered, MeterSet

(* Publishing owes no more than the meter shows, or nothing when a report  *)
(* has covered the block's peak.                                           *)
LEMMA PublishedOwes ==
  ASSUME TypeOK, PeaksNotLost, Published, peak' \in [MeterSet -> Levels],
         \A m \in MeterSet : peak'[m] >= peak[m],
         peak'[meter] >= block[meter] \/ taken >= block[meter]
  PROVE  PeaksNotLost'
<1> SUFFICES ASSUME NEW m \in MeterSet
             PROVE  peak'[m] >= owed'[m]
  BY DEF PeaksNotLost
<1>1. /\ peak[m] \in Nat /\ peak'[m] \in Nat /\ owed[m] \in Nat
      /\ block[m] \in Nat /\ taken \in Nat /\ peak[m] >= owed[m]
  BY MetersAssumption DEF TypeOK, PeaksNotLost, Levels
<1>2. CASE m # meter
  <2>1. owed'[m] = owed[m]
    BY <1>2 DEF Published, TypeOK
  <2> QED
    BY <1>1, <2>1
<1>3. CASE m = meter
  <2>1. owed'[m] = IF taken >= block[m] THEN owed[m] ELSE AtLeast(owed[m], block[m])
    BY <1>3 DEF Published, TypeOK
  <2> QED
    BY <1>1, <1>3, <2>1 DEF AtLeast
<1> QED
  BY <1>2, <1>3

LEMMA PeakExchange ==
  ASSUME TypeOK, PeakInv, ExchangePeak
  PROVE  PeakInv'
<1>1. /\ peak[meter] \in Nat /\ block[meter] \in Nat /\ previous \in Nat
      /\ taken \in Nat /\ peak \in [MeterSet -> Levels] /\ meter \in MeterSet
      /\ block[meter] \in Levels
  BY MetersAssumption DEF TypeOK, Levels
<1>2. \A m \in MeterSet : peak[m] \in Nat
  BY MetersAssumption DEF TypeOK, Levels
<1>3. ASSUME previous >= block[meter], Published, UNCHANGED peak
      PROVE  PeakInv'
  <2>1. peak'[meter] >= block[meter] \/ taken >= block[meter]
    BY <1>1, <1>3 DEF PeakInv, LoadedIsCovered, ExchangePeak
  <2>2. PeaksNotLost'
    BY <1>1, <1>2, <1>3, <2>1, PublishedOwes DEF PeakInv
  <2> QED
    BY <1>3, <2>2 DEF PeakInv, LoadedIsCovered, Published
<1>4. ASSUME previous < block[meter], peak[meter] = previous, Published,
             peak' = [peak EXCEPT ![meter] = block[meter]]
      PROVE  PeakInv'
  <2>1. /\ peak' \in [MeterSet -> Levels]
        /\ \A m \in MeterSet : peak'[m] >= peak[m]
        /\ peak'[meter] >= block[meter]
    BY <1>1, <1>2, <1>4
  <2>2. PeaksNotLost'
    BY <1>4, <2>1, PublishedOwes DEF PeakInv
  <2> QED
    BY <1>4, <2>2 DEF PeakInv, LoadedIsCovered, Published
<1>5. ASSUME previous' = peak[meter], UNCHANGED <<peak, audioPc, meter, history>>
      PROVE  PeakInv'
  BY <1>1, <1>5 DEF PeakInv, PeaksNotLost, LoadedIsCovered, history
<1> QED
  BY <1>3, <1>4, <1>5 DEF ExchangePeak

(* A report lowers a meter, and remembers for the audio thread how much it *)
(* took from the one it is about to publish to.                            *)
LEMMA PeakTaken ==
  ASSUME TypeOK, PeakInv, TakeLevel
  PROVE  PeakInv'
<1>1. /\ peak[taking] \in Nat /\ owed[taking] \in Nat /\ taken \in Nat
      /\ taking \in MeterSet /\ meter \in MeterSet /\ previous \in Nat
  BY MetersAssumption DEF TypeOK, Levels
<1>2. PeaksNotLost'
  <2> SUFFICES ASSUME NEW m \in MeterSet
               PROVE  peak'[m] >= owed'[m]
    BY DEF PeaksNotLost
  <2>1. peak[m] >= owed[m]
    BY DEF PeakInv, PeaksNotLost
  <2>2. CASE m = taking
    BY <1>1, <2>1, <2>2 DEF TakeLevel, TypeOK
  <2>3. CASE m # taking
    BY <2>1, <2>3 DEF TakeLevel, TypeOK
  <2> QED
    BY <2>2, <2>3
<1>3. LoadedIsCovered'
  <2> SUFFICES ASSUME audioPc = "exchange"
               PROVE  peak'[meter] >= previous \/ taken' >= previous
    BY DEF LoadedIsCovered, TakeLevel, audio
  <2>1. peak[meter] >= previous \/ taken >= previous
    BY DEF PeakInv, LoadedIsCovered
  <2>2. CASE meter = taking
    <3>1. taken' = AtLeast(taken, peak[taking])
      BY <2>2 DEF TakeLevel
    <3> QED
      BY <1>1, <2>1, <2>2, <3>1 DEF AtLeast
  <2>3. CASE meter # taking
    BY <1>1, <2>1, <2>3 DEF TakeLevel, TypeOK
  <2> QED
    BY <2>2, <2>3
<1> QED
  BY <1>2, <1>3 DEF PeakInv

LEMMA PeakNext == TypeOK /\ PeakInv /\ [Next]_vars => PeakInv'
<1> SUFFICES ASSUME TypeOK, PeakInv, [Next]_vars
             PROVE  PeakInv'
  OBVIOUS
<1>1. ASSUME NEW levels \in [MeterSet -> Levels], ProcessBlock(levels)
      PROVE  PeakInv'
  BY <1>1 DEF ProcessBlock, history, PeakInv, PeaksNotLost, LoadedIsCovered
<1>2. CASE LoadPeak
  <2>1. peak[meter] \in Nat
    BY MetersAssumption DEF TypeOK, Levels
  <2> QED
    BY <1>2, <2>1 DEF LoadPeak, PeakInv, PeaksNotLost, LoadedIsCovered
<1>3. CASE ExchangePeak
  BY <1>3, PeakExchange
<1>4. CASE TakeLevel
  BY <1>4, PeakTaken
<1>5. ASSUME UNCHANGED <<peak, audio, history>>
      PROVE  PeakInv'
  BY <1>5 DEF audio, history, PeakInv, PeaksNotLost, LoadedIsCovered
<1>6. ASSUME Next, ~Audio, ~TakeLevel
      PROVE  UNCHANGED <<peak, audio, history>>
  BY <1>6 DEF Next, Serve, CheckRunning, Poll, Enable, Disable, Send, SentAll,
    Leave, Stop, JoinAndClose, View, Connect, Receive, HangUp, SeeClosed, viewer_
<1>7. CASE UNCHANGED vars
  BY <1>5, <1>7 DEF vars
<1> QED
  BY <1>1, <1>2, <1>3, <1>4, <1>5, <1>6, <1>7 DEF Audio

(* The peak of every metered block is in a report that followed it or      *)
(* waits to be taken, for any number of meters and levels and however the  *)
(* audio thread's compare-exchange meets the worker's exchange.            *)
THEOREM NoPeakIsLost == Spec => []PeaksNotLost
<1>1. PeakInv => PeaksNotLost
  BY DEF PeakInv
<1> QED
  BY <1>1, TypeInit, TypeNext, RoundNext, PeakInit, PeakNext, PTL DEF Spec
=============================================================================
