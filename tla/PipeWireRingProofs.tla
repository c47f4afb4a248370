------------------------- MODULE PipeWireRingProofs -------------------------
(***************************************************************************)
(* Proofs about the indices and the slots of the PipeWire ring, for every  *)
(* capacity, block size, buffer size and index range.                      *)
(*                                                                         *)
(* A slot is an index modulo the capacity.  What is said about slots holds *)
(* for a capacity that divides the index range, 2^32, and for any other    *)
(* capacity until an index has passed the range for the first time.  The   *)
(* run pipewire_ring_wrap shows what happens then.                         *)
(***************************************************************************)
EXTENDS PipeWireRing, TLAPS

(* The indices behind BacklogBounded: a callback in progress works on an   *)
(* index its own side alone moves, and the room it counted on, or the      *)
(* frames it counted on, can only grow under its feet.                     *)
CaptureRoom ==
  capPc # "idle" =>
    /\ writeIndex = writeindex
    /\ writableFrames >= 1
    /\ IndexDiff(writeindex, readindex) + writableFrames <= Capacity

PlaybackStock ==
  playPc \in {"copy", "update"} =>
    /\ readIndex = readindex
    /\ readableFrames >= 1
    /\ readableFrames <= IndexDiff(writeindex, readindex)

IndexInv == BacklogBounded /\ CaptureRoom /\ PlaybackStock

-----------------------------------------------------------------------------
(* Lemmas about uint32_t arithmetic *)

LEMMA IndexAddType ==
  ASSUME NEW i \in 0 .. IndexModulus - 1, NEW n \in 0..Capacity
  PROVE  IndexAdd(i, n) \in 0 .. IndexModulus - 1
BY CapacityAssumption DEF IndexAdd

LEMMA IndexDiffType ==
  ASSUME NEW w \in 0 .. IndexModulus - 1, NEW r \in 0 .. IndexModulus - 1
  PROVE  IndexDiff(w, r) \in Int
BY CapacityAssumption DEF IndexDiff

(* Publishing n frames adds n to the backlog, as long as it stays within   *)
(* the capacity.                                                           *)
LEMMA PublishAdds ==
  ASSUME NEW w \in 0 .. IndexModulus - 1, NEW r \in 0 .. IndexModulus - 1,
         NEW n \in 0..Capacity,
         IndexDiff(w, r) >= 0, IndexDiff(w, r) + n <= Capacity
  PROVE  IndexDiff(IndexAdd(w, n), r) = IndexDiff(w, r) + n
BY CapacityAssumption DEF IndexDiff, IndexAdd

(* Consuming n stored frames takes n from the backlog.                     *)
LEMMA ConsumeTakes ==
  ASSUME NEW w \in 0 .. IndexModulus - 1, NEW r \in 0 .. IndexModulus - 1,
         NEW n \in 0..Capacity,
         IndexDiff(w, r) <= Capacity, n <= IndexDiff(w, r)
  PROVE  IndexDiff(w, IndexAdd(r, n)) = IndexDiff(w, r) - n
BY CapacityAssumption DEF IndexDiff, IndexAdd

LEMMA BlockFramesType ==
  ASSUME writableFrames \in 0..Capacity, writableFrames >= 1
  PROVE  /\ blockFrames \in 1..Capacity
         /\ blockFrames <= writableFrames
BY CapacityAssumption, BlockAssumption DEF blockFrames, AtMost

-----------------------------------------------------------------------------
(* Lemmas about the slots *)

LEMMA SlotOfType ==
  ASSUME NEW i \in Nat
  PROVE  SlotOf(i) \in 0 .. Capacity - 1
BY CapacityAssumption DEF SlotOf

LEMMA SlotAfterType ==
  ASSUME NEW i \in Nat, NEW k \in 0 .. Capacity
  PROVE  SlotAfter(i, k) \in 0 .. Capacity - 1
BY CapacityAssumption, SlotOfType DEF SlotAfter

LEMMA WriteDataType ==
  ASSUME ringStorage \in [0 .. Capacity - 1 -> Nat],
         NEW i \in 0 .. IndexModulus - 1, NEW n \in 0..Capacity, NEW first \in Nat
  PROVE  WriteData(i, n, first) \in [0 .. Capacity - 1 -> Nat]
<1>1. SlotOf(i) \in 0 .. Capacity - 1
  BY SlotOfType
<1>2. ASSUME NEW s \in 0 .. Capacity - 1
      PROVE  WriteData(i, n, first)[s] \in Nat
  <2> DEFINE k == IF s >= SlotOf(i) THEN s - SlotOf(i)
                  ELSE s - SlotOf(i) + Capacity
  <2>1. k \in Nat
    BY <1>1, CapacityAssumption
  <2>2. WriteData(i, n, first)[s] = IF k < n THEN first + k ELSE ringStorage[s]
    BY DEF WriteData
  <2>3. ringStorage[s] \in Nat
    OBVIOUS
  <2> QED
    BY <2>1, <2>2, <2>3
<1> QED
  BY <1>2 DEF WriteData

LEMMA ReadDataType ==
  ASSUME ringStorage \in [0 .. Capacity - 1 -> Nat],
         NEW i \in 0 .. IndexModulus - 1, NEW n \in 0..Capacity
  PROVE  /\ ReadData(i, n) \in Seq(Nat)
         /\ Len(ReadData(i, n)) = n
         /\ \A k \in 1..n : ReadData(i, n)[k] \in Nat
<1>1. ASSUME NEW k \in 1..n
      PROVE  ringStorage[SlotAfter(i, k - 1)] \in Nat
  <2>1. i \in Nat /\ k - 1 \in 0..Capacity
    BY CapacityAssumption
  <2>2. SlotAfter(i, k - 1) \in 0 .. Capacity - 1
    BY <2>1, SlotAfterType
  <2> QED
    BY <2>2
<1>2. ReadData(i, n) \in [1..n -> Nat]
  BY <1>1 DEF ReadData
<1> QED
  BY <1>2

-----------------------------------------------------------------------------
(* The invariant is inductive *)

RingInv == TypeOK /\ IndexInv

LEMMA InitEstablishesRingInv == Init => RingInv
BY CapacityAssumption
   DEF Init, RingInv, TypeOK, IndexInv, BacklogBounded, CaptureRoom,
       PlaybackStock, IndexDiff

LEMMA CaptureBeginKeepsRingInv ==
  ASSUME RingInv, NEW frames \in BufferSizes, CaptureBegin(frames)
  PROVE  RingInv'
<1> DEFINE filled == IndexDiff(writeindex, readindex)
<1>1. frames \in Nat /\ frames >= 1
  BY SizesAssumption
<1>2. filled \in 0..Capacity
  BY DEF RingInv, IndexInv, BacklogBounded
<1> HIDE DEF filled
<1>3. filled' = filled
  BY DEF CaptureBegin, filled, IndexDiff
<1>4. CASE filled >= Capacity
  <2>1. UNCHANGED <<capture, playback, writeindex, readindex, ringStorage,
                    newest, heard>> /\ captured' \in Nat
    BY <1>1, <1>4 DEF CaptureBegin, filled, RingInv, TypeOK
  <2> QED
    BY <2>1 DEF RingInv, TypeOK, IndexInv, BacklogBounded, CaptureRoom,
                PlaybackStock, capture, playback, IndexDiff
<1>5. CASE filled < Capacity
  <2>1. /\ capPc' = "copy"
        /\ writeIndex' = writeindex
        /\ inputBase' = captured
        /\ inputOffset' = 0
        /\ writableFrames' = AtMost(frames, Capacity - filled)
        /\ captured' = captured + frames
        /\ UNCHANGED <<writeindex, readindex, ringStorage, playback, newest,
                       heard>>
    BY <1>2, <1>5, CapacityAssumption DEF CaptureBegin, filled
  <2>2. /\ writableFrames' \in 1..Capacity
        /\ filled + writableFrames' <= Capacity
    BY <1>1, <1>2, <1>5, <2>1, CapacityAssumption DEF AtMost
  <2>3. TypeOK'
    BY <1>1, <2>1, <2>2 DEF RingInv, TypeOK, playback
  <2>4. BacklogBounded'
    BY <1>2, <1>3 DEF BacklogBounded, filled
  <2>5. CaptureRoom'
    BY <1>3, <2>1, <2>2 DEF CaptureRoom, filled
  <2>6. PlaybackStock'
    BY <2>1 DEF RingInv, IndexInv, PlaybackStock, playback, IndexDiff
  <2> QED
    BY <2>3, <2>4, <2>5, <2>6 DEF RingInv, IndexInv
<1> QED
  BY <1>2, <1>4, <1>5, CapacityAssumption

LEMMA CaptureCopyKeepsRingInv ==
  ASSUME RingInv, CaptureCopy
  PROVE  RingInv'
<1>1. writableFrames \in 0..Capacity /\ writableFrames >= 1
  BY DEF RingInv, TypeOK, IndexInv, CaptureRoom, CaptureCopy
<1>2. blockFrames \in 0..Capacity
  BY <1>1, BlockFramesType, CapacityAssumption
<1>3. ringStorage' \in [0 .. Capacity - 1 -> Nat]
  <2>1. inputBase + inputOffset + 1 \in Nat
    BY DEF RingInv, TypeOK
  <2> QED
    BY <1>2, <2>1, WriteDataType DEF CaptureCopy, RingInv, TypeOK
<1>4. TypeOK'
  BY <1>3 DEF CaptureCopy, RingInv, TypeOK, playback
<1>5. IndexInv'
  BY DEF CaptureCopy, RingInv, IndexInv, BacklogBounded, CaptureRoom,
         PlaybackStock, playback, IndexDiff
<1> QED
  BY <1>4, <1>5 DEF RingInv

LEMMA CapturePublishKeepsRingInv ==
  ASSUME RingInv, CapturePublish
  PROVE  RingInv'
<1> DEFINE n == blockFrames
           filled == IndexDiff(writeindex, readindex)
<1>1. /\ writableFrames \in 1..Capacity
      /\ writeIndex = writeindex
      /\ filled + writableFrames <= Capacity
  BY DEF RingInv, TypeOK, IndexInv, CaptureRoom, CapturePublish
<1>2. n \in 1..Capacity /\ n <= writableFrames
  BY <1>1, BlockFramesType
<1>3. /\ writeindex \in 0 .. IndexModulus - 1
      /\ readindex \in 0 .. IndexModulus - 1
      /\ filled \in 0..Capacity
  BY DEF RingInv, TypeOK, IndexInv, BacklogBounded
<1>4. /\ writeIndex' = IndexAdd(writeindex, n)
      /\ writeindex' = IndexAdd(writeindex, n)
      /\ UNCHANGED <<readindex, ringStorage, playback, captured, heard>>
  BY <1>1 DEF CapturePublish
<1>5. writeindex' \in 0 .. IndexModulus - 1
  BY <1>2, <1>3, <1>4, IndexAddType, CapacityAssumption
<1>6. IndexDiff(writeindex', readindex') = filled + n
  <2>1. filled + n <= Capacity
    BY <1>1, <1>2, <1>3, CapacityAssumption
  <2>2. n \in 0..Capacity /\ filled >= 0
    BY <1>2, <1>3, CapacityAssumption
  <2>3. IndexDiff(IndexAdd(writeindex, n), readindex) = filled + n
    BY <1>3, <2>1, <2>2, PublishAdds
  <2> QED
    BY <1>4, <2>3
<1> HIDE DEF n, filled
<1>7. \/ /\ writableFrames > n
         /\ capPc' = "copy"
         /\ inputOffset' = inputOffset + n
         /\ writableFrames' = writableFrames - n
         /\ UNCHANGED inputBase
      \/ capPc' = "idle" /\ inputOffset' = 0 /\ writableFrames' = 0 /\ inputBase' = 0
  BY DEF CapturePublish, n
<1>8. newest' \in Nat
  BY <1>2 DEF CapturePublish, RingInv, TypeOK, n
<1>9. TypeOK'
  <2>1. /\ capPc' \in {"idle", "copy", "publish"}
        /\ inputBase' \in Nat /\ inputOffset' \in Nat
        /\ writableFrames' \in 0..Capacity
    BY <1>1, <1>2, <1>7, CapacityAssumption DEF RingInv, TypeOK
  <2> QED
    BY <1>4, <1>5, <1>8, <2>1 DEF RingInv, TypeOK, playback
<1>10. BacklogBounded'
  BY <1>1, <1>2, <1>3, <1>6, CapacityAssumption DEF BacklogBounded
<1>11. CaptureRoom'
  <2>1. CASE capPc' = "idle"
    BY <2>1 DEF CaptureRoom
  <2>2. CASE capPc' # "idle"
    BY <1>1, <1>2, <1>3, <1>4, <1>6, <1>7, <2>2, CapacityAssumption DEF CaptureRoom
  <2> QED
    BY <2>1, <2>2
<1>12. PlaybackStock'
  <2>1. /\ PlaybackStock
        /\ playPc' = playPc /\ readIndex' = readIndex /\ readindex' = readindex
        /\ readableFrames' = readableFrames
    BY <1>4 DEF RingInv, IndexInv, playback
  <2>2. readableFrames \in Int
    BY DEF RingInv, TypeOK
  <2> QED
    BY <1>2, <1>3, <1>6, <2>1, <2>2, CapacityAssumption DEF PlaybackStock, filled
<1> QED
  BY <1>9, <1>10, <1>11, <1>12 DEF RingInv, IndexInv

LEMMA PlaybackBeginKeepsRingInv ==
  ASSUME RingInv, NEW requested \in RequestSizes, PlaybackBegin(requested)
  PROVE  RingInv'
<1> DEFINE available == IndexDiff(writeindex, readindex)
<1>1. requested \in Nat /\ requested >= 1
  BY SizesAssumption
<1>2. available \in 0..Capacity
  BY DEF RingInv, IndexInv, BacklogBounded
<1>3. /\ readIndex' = readindex
      /\ requestedFrames' = requested
      /\ readableFrames' = IF available > 0 THEN AtMost(available, requested) ELSE 0
      /\ playPc' = IF available > 0 THEN "copy" ELSE "pad"
      /\ output' = <<>>
      /\ UNCHANGED <<writeindex, readindex, ringStorage, capture, captured,
                     newest, heard>>
  BY DEF PlaybackBegin
<1>4. IndexDiff(writeindex', readindex') = available
  BY <1>3
<1> HIDE DEF available
<1>5. /\ readableFrames' \in 0..requested
      /\ playPc' = "copy" => readableFrames' >= 1 /\ readableFrames' <= available
      /\ playPc' \in {"copy", "pad"}
  BY <1>1, <1>2, <1>3, CapacityAssumption DEF AtMost
<1>6. TypeOK'
  BY <1>1, <1>3, <1>5 DEF RingInv, TypeOK, capture
<1>7. BacklogBounded'
  BY <1>2, <1>4 DEF BacklogBounded
<1>8. CaptureRoom'
  BY <1>3, <1>4 DEF RingInv, IndexInv, CaptureRoom, capture, available
<1>9. PlaybackStock'
  BY <1>3, <1>4, <1>5 DEF PlaybackStock
<1> QED
  BY <1>6, <1>7, <1>8, <1>9 DEF RingInv, IndexInv

LEMMA PlaybackCopyKeepsRingInv ==
  ASSUME RingInv, PlaybackCopy
  PROVE  RingInv'
<1>1. /\ readableFrames \in 1..Capacity
      /\ readIndex \in 0 .. IndexModulus - 1
  BY CapacityAssumption
     DEF RingInv, TypeOK, IndexInv, BacklogBounded, PlaybackStock, PlaybackCopy
<1>2. /\ ReadData(readIndex, readableFrames) \in Seq(Nat)
      /\ ReadData(readIndex, readableFrames)[readableFrames] \in Nat
  <2>1. readableFrames \in 0..Capacity /\ readableFrames \in 1..readableFrames
    BY <1>1, CapacityAssumption
  <2> QED
    BY <1>1, <2>1, ReadDataType DEF RingInv, TypeOK
<1>3. TypeOK'
  BY <1>2 DEF PlaybackCopy, RingInv, TypeOK, capture
<1>4. IndexInv'
  BY DEF PlaybackCopy, RingInv, IndexInv, BacklogBounded, CaptureRoom,
         PlaybackStock, capture, IndexDiff
<1> QED
  BY <1>3, <1>4 DEF RingInv

LEMMA PlaybackUpdateKeepsRingInv ==
  ASSUME RingInv, PlaybackUpdate
  PROVE  RingInv'
<1> DEFINE n == readableFrames
           filled == IndexDiff(writeindex, readindex)
<1>1. /\ writeindex \in 0 .. IndexModulus - 1
      /\ readindex \in 0 .. IndexModulus - 1
      /\ filled \in 0..Capacity
      /\ n \in Int /\ n >= 1 /\ n <= filled
      /\ readIndex = readindex
  BY DEF RingInv, TypeOK, IndexInv, BacklogBounded, PlaybackStock, PlaybackUpdate
<1>2. n \in 0..Capacity
  BY <1>1, CapacityAssumption
<1>3. /\ readindex' = IndexAdd(readindex, n)
      /\ playPc' = "pad"
      /\ UNCHANGED <<writeindex, ringStorage, capture, readIndex,
                     requestedFrames, readableFrames, output, captured,
                     newest, heard>>
  BY <1>1 DEF PlaybackUpdate
<1>4. readindex' \in 0 .. IndexModulus - 1
  BY <1>1, <1>2, <1>3, IndexAddType
<1>5. IndexDiff(writeindex', readindex') = filled - n
  <2>1. filled <= Capacity
    BY <1>1, CapacityAssumption
  <2>2. IndexDiff(writeindex, IndexAdd(readindex, n)) = filled - n
    BY <1>1, <1>2, <2>1, ConsumeTakes
  <2> QED
    BY <1>3, <2>2
<1> HIDE DEF n, filled
<1>6. TypeOK'
  BY <1>3, <1>4 DEF RingInv, TypeOK, capture
<1>7. BacklogBounded'
  BY <1>1, <1>5, CapacityAssumption DEF BacklogBounded
<1>8. CaptureRoom'
  <2>1. /\ CaptureRoom
        /\ capPc' = capPc /\ writeIndex' = writeIndex
        /\ writeindex' = writeindex /\ writableFrames' = writableFrames
    BY <1>3 DEF RingInv, IndexInv, capture
  <2>2. writableFrames \in Int
    BY DEF RingInv, TypeOK
  <2> QED
    BY <1>1, <1>5, <2>1, <2>2, CapacityAssumption DEF CaptureRoom, filled
<1>9. PlaybackStock'
  BY <1>3 DEF PlaybackStock
<1> QED
  BY <1>6, <1>7, <1>8, <1>9 DEF RingInv, IndexInv

LEMMA PlaybackPadKeepsRingInv ==
  ASSUME RingInv, PlaybackPad
  PROVE  RingInv'
<1>1. output' \in Seq(Nat)
  <2> DEFINE silence == [k \in 1 .. requestedFrames - readableFrames |-> 0]
  <2>1. requestedFrames - readableFrames \in Nat
    BY DEF RingInv, TypeOK
  <2>2. silence \in Seq(Nat)
    BY <2>1
  <2>3. output \in Seq(Nat) /\ output' = output \o silence
    BY DEF RingInv, TypeOK, PlaybackPad
  <2> HIDE DEF silence
  <2> QED
    BY <2>2, <2>3
<1>2. TypeOK'
  BY <1>1, CapacityAssumption DEF PlaybackPad, RingInv, TypeOK, capture
<1>3. IndexInv'
  BY DEF PlaybackPad, RingInv, IndexInv, BacklogBounded, CaptureRoom,
         PlaybackStock, capture, IndexDiff
<1> QED
  BY <1>2, <1>3 DEF RingInv

LEMMA NextKeepsRingInv == RingInv /\ [Next]_vars => RingInv'
<1> SUFFICES ASSUME RingInv, [Next]_vars
             PROVE  RingInv'
  OBVIOUS
<1>1. ASSUME NEW frames \in BufferSizes, CaptureBegin(frames)
      PROVE  RingInv'
  BY <1>1, CaptureBeginKeepsRingInv
<1>2. CASE CaptureCopy
  BY <1>2, CaptureCopyKeepsRingInv
<1>3. CASE CapturePublish
  BY <1>3, CapturePublishKeepsRingInv
<1>4. ASSUME NEW requested \in RequestSizes, PlaybackBegin(requested)
      PROVE  RingInv'
  BY <1>4, PlaybackBeginKeepsRingInv
<1>5. CASE PlaybackCopy
  BY <1>5, PlaybackCopyKeepsRingInv
<1>6. CASE PlaybackUpdate
  BY <1>6, PlaybackUpdateKeepsRingInv
<1>7. CASE PlaybackPad
  BY <1>7, PlaybackPadKeepsRingInv
<1>8. CASE UNCHANGED vars
  BY <1>8 DEF vars, capture, playback, RingInv, TypeOK, IndexInv,
     BacklogBounded, CaptureRoom, PlaybackStock, IndexDiff
<1> QED
  BY <1>1, <1>2, <1>3, <1>4, <1>5, <1>6, <1>7, <1>8
     DEF Next, Capture, Playback

LEMMA SpecImpliesRingInv == Spec => []RingInv
<1>1. Init => RingInv
  BY InitEstablishesRingInv
<1>2. RingInv /\ [Next]_vars => RingInv'
  BY NextKeepsRingInv
<1> QED
  BY <1>1, <1>2, PTL DEF Spec

-----------------------------------------------------------------------------
(* Every variable keeps its type, for every capacity and every size of     *)
(* buffer: the state of the two callbacks of PipeWireBackend.cpp.          *)
THEOREM TypeCorrect == Spec => []TypeOK
<1>1. RingInv => TypeOK
  BY DEF RingInv
<1> QED
  BY <1>1, SpecImpliesRingInv, PTL

(* The backlog stays between zero and the capacity whatever the index      *)
(* range and however the callbacks interleave: the overrun return of       *)
(* processInterleaved() is dead code.                                      *)
THEOREM BacklogStaysBounded == Spec => []BacklogBounded
<1>1. RingInv => BacklogBounded
  BY DEF RingInv, IndexInv
<1> QED
  BY <1>1, SpecImpliesRingInv, PTL

-----------------------------------------------------------------------------
Aligned == \E q \in Nat : IndexModulus = q * Capacity

(* The read index has not been left behind by a write index that wrapped.  *)
Unbroken == Aligned \/ readindex <= writeindex

(* No index can have passed the range: its value counts frames captured.   *)
NeverWraps == MaxFrames < IndexModulus

IndicesCountFrames ==
  /\ captured <= MaxFrames
  /\ readindex <= writeindex /\ writeindex <= captured
  /\ capPc # "idle" => writeindex + writableFrames <= captured

LEMMA NextKeepsCount ==
  ASSUME NeverWraps, RingInv, IndicesCountFrames, [Next]_vars
  PROVE  IndicesCountFrames'
<1>1. /\ writeindex \in Nat /\ readindex \in Nat /\ captured \in Nat
      /\ writeindex < IndexModulus /\ IndexModulus \in Nat /\ MaxFrames \in Nat
      /\ writableFrames \in 0..Capacity /\ Capacity \in Nat
      /\ readableFrames \in Nat
  BY CapacityAssumption, SizesAssumption DEF RingInv, TypeOK
<1>2. ASSUME NEW frames \in BufferSizes, CaptureBegin(frames)
      PROVE  IndicesCountFrames'
  <2>1. frames \in Nat
    BY SizesAssumption
  <2>2. /\ captured' = captured + frames /\ captured' <= MaxFrames
        /\ UNCHANGED <<writeindex, readindex>>
    BY <1>2 DEF CaptureBegin
  <2>3. capPc' # "idle" => writableFrames' <= frames
    <3>1. IndexDiff(writeindex, readindex) \in 0..Capacity
      BY DEF RingInv, IndexInv, BacklogBounded
    <3> QED
      BY <1>1, <1>2, <2>1, <3>1 DEF CaptureBegin, AtMost, capture
  <2>4. capPc' # "idle" => writableFrames' \in Nat
    BY <1>2, CaptureBeginKeepsRingInv, CapacityAssumption DEF RingInv, TypeOK
  <2> QED
    BY <1>1, <2>1, <2>2, <2>3, <2>4 DEF IndicesCountFrames
<1>3. CASE CaptureCopy
  BY <1>3 DEF CaptureCopy, IndicesCountFrames
<1>4. CASE CapturePublish
  <2>1. /\ writeIndex = writeindex /\ writableFrames >= 1
        /\ writeindex + writableFrames <= captured
    BY <1>4 DEF CapturePublish, RingInv, IndexInv, CaptureRoom, IndicesCountFrames
  <2>2. blockFrames \in Nat /\ blockFrames <= writableFrames
    BY <1>1, <2>1, BlockFramesType
  <2>3. writeindex' = writeindex + blockFrames
    <3>1. writeindex + blockFrames < IndexModulus
      BY <1>1, <2>1, <2>2 DEF NeverWraps, IndicesCountFrames
    <3> QED
      BY <1>4, <2>1, <3>1 DEF CapturePublish, IndexAdd
  <2>4. capPc' # "idle" => writableFrames' = writableFrames - blockFrames
    BY <1>4 DEF CapturePublish
  <2>5. UNCHANGED <<captured, readindex>>
    BY <1>4 DEF CapturePublish
  <2> HIDE DEF blockFrames
  <2> QED
    BY <1>1, <2>1, <2>2, <2>3, <2>4, <2>5 DEF IndicesCountFrames
<1>5. ASSUME NEW requested \in RequestSizes, PlaybackBegin(requested)
      PROVE  IndicesCountFrames'
  BY <1>5 DEF PlaybackBegin, capture, IndicesCountFrames
<1>6. CASE PlaybackCopy
  BY <1>6 DEF PlaybackCopy, capture, IndicesCountFrames
<1>7. CASE PlaybackUpdate
  <2>1. readIndex = readindex /\ readableFrames <= IndexDiff(writeindex, readindex)
    BY <1>7 DEF PlaybackUpdate, RingInv, IndexInv, PlaybackStock
  <2>2. readindex <= writeindex
    BY DEF IndicesCountFrames
  <2>3. IndexDiff(writeindex, readindex) <= writeindex - readindex
    BY <1>1, <2>2 DEF IndexDiff
  <2>4. IndexDiff(writeindex, readindex) \in Int
    BY <1>1, <2>2 DEF IndexDiff
  <2>5. readindex + readableFrames <= writeindex
    BY <1>1, <2>1, <2>3, <2>4
  <2>6. readindex' = readindex + readableFrames
    <3>1. readindex + readableFrames < IndexModulus
      BY <1>1, <2>5
    <3> QED
      BY <1>7, <2>1, <3>1 DEF PlaybackUpdate, IndexAdd
  <2> QED
    BY <1>7, <2>5, <2>6 DEF PlaybackUpdate, capture, IndicesCountFrames
<1>8. CASE PlaybackPad
  BY <1>8 DEF PlaybackPad, capture, IndicesCountFrames
<1>9. CASE UNCHANGED vars
  BY <1>9 DEF vars, capture, IndicesCountFrames
<1> QED
  BY <1>2, <1>3, <1>4, <1>5, <1>6, <1>7, <1>8, <1>9 DEF Next, Capture, Playback

(* What makes the slots follow the indices, of which one suffices.         *)
SlotsFollow == Aligned \/ NeverWraps

LEMMA SpecImpliesUnbroken == SlotsFollow => (Spec => []Unbroken)
<1>1. CASE Aligned
  <2>1. Unbroken
    BY <1>1 DEF Unbroken
  <2> QED
    BY <2>1, PTL
<1>2. CASE NeverWraps
  <2>1. Init => IndicesCountFrames
    BY SizesAssumption DEF Init, IndicesCountFrames
  <2>2. RingInv /\ IndicesCountFrames /\ [Next]_vars => IndicesCountFrames'
    BY <1>2, NextKeepsCount
  <2>3. IndicesCountFrames => Unbroken
    BY DEF IndicesCountFrames, Unbroken
  <2> QED
    BY <2>1, <2>2, <2>3, SpecImpliesRingInv, PTL DEF Spec
<1> QED
  BY <1>1, <1>2 DEF SlotsFollow

-----------------------------------------------------------------------------
(* Lemmas about remainders *)

LEMMA RemainderExists ==
  ASSUME NEW c \in Nat \ {0}, NEW i \in Nat
  PROVE  i = c * (i \div c) + (i % c) /\ i % c \in 0 .. c - 1
OBVIOUS

LEMMA RemainderUnique ==
  ASSUME NEW c \in Nat \ {0}, NEW q \in Int, NEW p \in Int,
         NEW r \in 0 .. c - 1, NEW s \in 0 .. c - 1, c * q + r = c * p + s
  PROVE  r = s
<1>1. c * (q - p) = s - r
  OBVIOUS
<1>2. CASE q - p >= 1
  <2>1. c * (q - p) >= c
    BY <1>2
  <2> QED
    BY <1>1, <2>1
<1>3. CASE q - p <= -1
  <2>1. c * (q - p) <= -c
    BY <1>3
  <2> QED
    BY <1>1, <2>1
<1> QED
  BY <1>2, <1>3

LEMMA RemainderOf ==
  ASSUME NEW c \in Nat \ {0}, NEW i \in Nat, NEW q \in Int,
         NEW r \in 0 .. c - 1, i = c * q + r
  PROVE  i % c = r
<1>1. i \div c \in Int /\ i % c \in 0 .. c - 1 /\ i = c * (i \div c) + (i % c)
  BY RemainderExists
<1> QED
  BY <1>1, RemainderUnique

-----------------------------------------------------------------------------
(* Lemmas about slots *)

(* Moving an index by n frames moves its slot by n, also across the wrap.  *)
LEMMA SlotOfAdd ==
  ASSUME NEW i \in 0 .. IndexModulus - 1, NEW n \in 0..Capacity,
         Aligned \/ i + n < IndexModulus
  PROVE  SlotOf(IndexAdd(i, n)) = SlotAfter(i, n)
<1>1. PICK q \in Nat : IndexModulus = q * Capacity \/ i + n < IndexModulus
  BY DEF Aligned
<1> DEFINE c == Capacity
           r == i % c
           a == i \div c
           e == IF r + n < c THEN r + n ELSE r + n - c
           wrap == IF i + n < IndexModulus THEN 0 ELSE q
           carry == IF r + n < c THEN 0 ELSE 1
<1>2. c \in Nat \ {0} /\ i \in Nat
  BY CapacityAssumption
<1>3. a \in Int /\ r \in 0 .. c - 1 /\ i = c * a + r
  BY <1>2, RemainderExists
<1>4. e \in 0 .. c - 1
  BY <1>2, <1>3
<1>5. IndexAdd(i, n) \in Nat
  BY IndexAddType, CapacityAssumption
<1>6. IndexAdd(i, n) = i + n - c * wrap
  BY <1>1, <1>2 DEF IndexAdd
<1>7. r + n = c * carry + e
  BY <1>2, <1>3
<1>8. a - wrap + carry \in Int
  BY <1>1, <1>3
<1>9. IndexAdd(i, n) = c * (a - wrap + carry) + e
  <2>1. wrap \in Int /\ carry \in Int /\ e \in Int
    BY <1>1, <1>4
  <2> HIDE DEF a, r, e, wrap, carry
  <2>2. i + n - c * wrap = c * a + (c * carry + e) - c * wrap
    BY <1>2, <1>3, <1>7, <2>1
  <2>3. c * a + (c * carry + e) - c * wrap = c * (a - wrap + carry) + e
    BY <1>2, <1>3, <2>1
  <2> QED
    BY <1>6, <2>2, <2>3
<1>10. IndexAdd(i, n) % c = e
  <2> HIDE DEF a, r, e, wrap, carry, c
  <2> QED
    BY <1>2, <1>4, <1>5, <1>8, <1>9, RemainderOf
<1> QED
  BY <1>10 DEF SlotOf, SlotAfter

(* The write index is the backlog's length past the read index.            *)
LEMMA BacklogEnds ==
  ASSUME NEW w \in 0 .. IndexModulus - 1, NEW r \in 0 .. IndexModulus - 1,
         IndexDiff(w, r) >= 0
  PROVE  w = IndexAdd(r, IndexDiff(w, r))
BY CapacityAssumption DEF IndexDiff, IndexAdd

LEMMA WriteSlot ==
  ASSUME NEW w \in 0 .. IndexModulus - 1, NEW r \in 0 .. IndexModulus - 1,
         Aligned \/ r <= w,
         IndexDiff(w, r) \in 0..Capacity
  PROVE  SlotOf(w) = SlotAfter(r, IndexDiff(w, r))
<1>1. w = IndexAdd(r, IndexDiff(w, r))
  BY BacklogEnds, CapacityAssumption
<1>2. Aligned \/ r + IndexDiff(w, r) < IndexModulus
  BY CapacityAssumption DEF IndexDiff
<1>3. SlotOf(IndexAdd(r, IndexDiff(w, r))) = SlotAfter(r, IndexDiff(w, r))
  BY <1>2, SlotOfAdd
<1> QED
  BY <1>1, <1>3

(* Going d slots on, then k, is going d + k on.                            *)
LEMMA SlotAfterCompose ==
  ASSUME NEW w \in Nat, NEW r \in Nat, NEW d \in 0..Capacity, NEW k \in Nat,
         d + k < Capacity, SlotOf(w) = SlotAfter(r, d)
  PROVE  SlotAfter(w, k) = SlotAfter(r, d + k)
BY SlotOfType, CapacityAssumption DEF SlotAfter

LEMMA SlotAfterInjective ==
  ASSUME NEW r \in Nat, NEW j \in 0 .. Capacity - 1, NEW k \in 0 .. Capacity - 1,
         SlotAfter(r, j) = SlotAfter(r, k)
  PROVE  j = k
BY SlotOfType, CapacityAssumption DEF SlotAfter

LEMMA FreeSlotsAreDisjoint ==
  ASSUME NEW w \in 0 .. IndexModulus - 1, NEW r \in 0 .. IndexModulus - 1,
         Aligned \/ r <= w,
         IndexDiff(w, r) \in 0..Capacity,
         NEW b \in 0..Capacity, IndexDiff(w, r) + b <= Capacity,
         NEW n \in 0..Capacity, n <= IndexDiff(w, r)
  PROVE  Slots(w, b) \cap Slots(r, n) = {}
<1> DEFINE d == IndexDiff(w, r)
<1>1. SlotOf(w) = SlotAfter(r, d)
  BY WriteSlot
<1>2. d \in 0..Capacity /\ w \in Nat /\ r \in Nat
  BY CapacityAssumption
<1> HIDE DEF d
<1>3. ASSUME NEW k \in 0 .. b - 1, NEW j \in 0 .. n - 1,
             SlotAfter(w, k) = SlotAfter(r, j)
      PROVE  FALSE
  <2>1. /\ k \in Nat /\ d + k < Capacity
        /\ d + k \in 0 .. Capacity - 1 /\ j \in 0 .. Capacity - 1
        /\ j < d + k
    BY <1>2, CapacityAssumption DEF d
  <2>2. SlotAfter(w, k) = SlotAfter(r, d + k)
    BY <1>1, <1>2, <2>1, SlotAfterCompose
  <2>3. d + k = j
    BY <1>2, <1>3, <2>1, <2>2, SlotAfterInjective
  <2> QED
    BY <2>1, <2>3
<1> QED
  BY <1>3 DEF Slots

-----------------------------------------------------------------------------
LEMMA RingInvMeansNoDataRace == Unbroken /\ RingInv => NoDataRace
<1> SUFFICES ASSUME Unbroken, RingInv, capPc = "copy", playPc = "copy"
             PROVE  Slots(writeIndex, blockFrames)
                      \cap Slots(readIndex, readableFrames) = {}
  BY DEF NoDataRace
<1> DEFINE d == IndexDiff(writeindex, readindex)
<1>1. /\ writeindex \in 0 .. IndexModulus - 1
      /\ readindex \in 0 .. IndexModulus - 1
      /\ writeIndex = writeindex /\ readIndex = readindex
      /\ d \in 0..Capacity
      /\ writableFrames \in 0..Capacity /\ writableFrames >= 1
      /\ d + writableFrames <= Capacity
      /\ readableFrames \in Nat /\ readableFrames <= d
  BY DEF RingInv, TypeOK, IndexInv, BacklogBounded, CaptureRoom, PlaybackStock
<1>2. blockFrames \in 1..Capacity /\ blockFrames <= writableFrames
  BY <1>1, BlockFramesType
<1>3. /\ blockFrames \in 0..Capacity /\ d + blockFrames <= Capacity
      /\ readableFrames \in 0..Capacity
  <2> HIDE DEF d
  <2> QED
    BY <1>1, <1>2, CapacityAssumption
<1>4. Aligned \/ readindex <= writeindex
  BY DEF Unbroken
<1> QED
  BY <1>1, <1>3, <1>4, FreeSlotsAreDisjoint

(* The two real-time callbacks never touch the same slot at the same time, *)
(* for every aligned capacity, and for any other until an index passes its *)
(* range: ringStorage_ needs no lock.                                      *)
THEOREM NoRaceOnTheStorage == SlotsFollow => (Spec => []NoDataRace)
<1> SUFFICES ASSUME SlotsFollow
             PROVE  Spec => []NoDataRace
  OBVIOUS
<1>1. Unbroken /\ RingInv => NoDataRace
  BY RingInvMeansNoDataRace
<1> QED
  BY <1>1, SpecImpliesUnbroken, SpecImpliesRingInv, PTL
=============================================================================
