---------------------------- MODULE PipeWireRing ----------------------------
(***************************************************************************)
(* The ring buffer between the two streams of the PipeWire backend         *)
(* (PipeWireBackend.cpp).  processCapture() receives frames from the       *)
(* virtual sink, has the compressor process them block by block and writes *)
(* them to ringStorage_; processPlayback() moves them to the hardware      *)
(* sink and pads with silence.  The two are real-time callbacks of two     *)
(* streams, each called once per graph cycle; they share the storage and   *)
(* spa_ringbuffer's two free-running 32-bit indices, and take no lock.     *)
(*                                                                         *)
(* A frame is its number: 1, 2, 3... in the order the virtual sink         *)
(* delivers them; 0 is silence.                                            *)
(***************************************************************************)
EXTENDS Integers, Sequences

CONSTANTS
  Capacity,      \* ringCapacityFrames_
  IndexModulus,  \* 2^32: the indices are uint32_t
  BlockMax,      \* maximumBlockFrames
  BufferSizes,   \* frames a capture buffer may hold
  RequestSizes,  \* frames the playback stream may be asked for
  MaxFrames      \* bound: frames captured in a behaviour

(* The constructor refuses a storage above 2^32 - 1 bytes, and a frame has *)
(* at least four: the capacity is below a quarter of the index range.      *)
ASSUME CapacityAssumption ==
  /\ Capacity \in Nat \ {0}
  /\ IndexModulus \in Nat
  /\ 4 * Capacity <= IndexModulus
ASSUME BlockAssumption == BlockMax \in Nat \ {0}
ASSUME SizesAssumption ==
  /\ BufferSizes \subseteq Nat \ {0}
  /\ RequestSizes \subseteq Nat \ {0}
  /\ MaxFrames \in Nat

VARIABLES
  writeindex, readindex, \* spa_ringbuffer: the two shared indices
  ringStorage,           \* slot -> number of the frame stored there
  capPc,                 \* where processCapture() is
  writeIndex,            \* its local variables; one that decides nothing
                         \* once the callback returned is 0 then
  inputBase,             \* ... number of the frame before its buffer
  inputOffset,
  writableFrames,
  playPc,                \* where processPlayback() is
  readIndex,             \* its local variables
  requestedFrames,
  readableFrames,
  output,                \* frames it wrote to its buffer
  captured,              \* history: frames the virtual sink delivered
  newest,                \* history: the frame published last
  heard                  \* history: the frame played last

capture == <<capPc, writeIndex, inputBase, inputOffset, writableFrames>>
playback == <<playPc, readIndex, requestedFrames, readableFrames, output>>
vars == <<writeindex, readindex, ringStorage, capture, playback,
          captured, newest, heard>>

AtMost(a, b) == IF a <= b THEN a ELSE b

-----------------------------------------------------------------------------
(* spa_ringbuffer *)

(* Bug: the index is widened and never wraps.                              *)
IndexAddUnwrapped(i, n) == i + n

(* uint32_t addition of a number of frames below the index range.          *)
IndexAdd(i, n) ==
  IF i + n < IndexModulus THEN i + n ELSE i + n - IndexModulus

(* (int32_t)(w - r) for two uint32_t.                                      *)
IndexDiff(w, r) ==
  LET d == IF w >= r THEN w - r ELSE w - r + IndexModulus
  IN  IF 2 * d < IndexModulus THEN d ELSE d - IndexModulus

(* spa_ringbuffer_write_data and _read_data copy a contiguous run of slots *)
(* from the index's slot on, and go on at slot 0 when it reaches the end.  *)
SlotOf(i) == i % Capacity

SlotAfter(i, k) ==
  IF SlotOf(i) + k < Capacity THEN SlotOf(i) + k ELSE SlotOf(i) + k - Capacity

Slots(i, n) == {SlotAfter(i, k) : k \in 0 .. n - 1}

WriteData(i, n, first) ==
  [s \in 0 .. Capacity - 1 |->
     LET k == IF s >= SlotOf(i) THEN s - SlotOf(i) ELSE s - SlotOf(i) + Capacity
     IN  IF k < n THEN first + k ELSE ringStorage[s]]

ReadData(i, n) == [k \in 1..n |-> ringStorage[SlotAfter(i, k - 1)]]

-----------------------------------------------------------------------------
(* processCapture *)

blockFrames == AtMost(writableFrames, BlockMax)

(* Bug: the room is taken from the capacity, not from what is free.        *)
CaptureBeginOverfull(frames) ==
  /\ capPc = "idle"
  /\ captured + frames <= MaxFrames
  /\ captured' = captured + frames
  /\ capPc' = "copy"
  /\ writeIndex' = writeindex
  /\ inputBase' = captured
  /\ inputOffset' = 0
  /\ writableFrames' = AtMost(frames, Capacity)
  /\ UNCHANGED <<writeindex, readindex, ringStorage, playback, newest, heard>>

(* The ring is free of at most Capacity - filled frames: the tail of the   *)
(* buffer that does not fit is dropped.                                    *)
CaptureBegin(frames) ==
  LET filled == IndexDiff(writeindex, readindex) IN
  /\ capPc = "idle"
  /\ captured + frames <= MaxFrames
  /\ captured' = captured + frames
  /\ IF filled < 0 \/ filled >= Capacity
       THEN UNCHANGED capture
       ELSE /\ capPc' = "copy"
            /\ writeIndex' = writeindex
            /\ inputBase' = captured
            /\ inputOffset' = 0
            /\ writableFrames' = AtMost(frames, Capacity - filled)
  /\ UNCHANGED <<writeindex, readindex, ringStorage, playback, newest, heard>>

(* One block: through the compressor and into the storage.                 *)
CaptureCopy ==
  /\ capPc = "copy"
  /\ capPc' = "publish"
  /\ ringStorage' = WriteData(writeIndex, blockFrames,
                              inputBase + inputOffset + 1)
  /\ UNCHANGED <<writeindex, readindex, writeIndex, inputBase, inputOffset,
                 writableFrames, playback, captured, newest, heard>>

(* Bug: the next block starts at the beginning of the buffer again.        *)
CapturePublishSameInput ==
  /\ capPc = "publish"
  /\ writeIndex' = IndexAdd(writeIndex, blockFrames)
  /\ writeindex' = IndexAdd(writeIndex, blockFrames)
  /\ newest' = inputBase + inputOffset + blockFrames
  /\ writableFrames' = writableFrames - blockFrames
  /\ capPc' = IF writableFrames > blockFrames THEN "copy" ELSE "idle"
  /\ UNCHANGED <<readindex, ringStorage, inputBase, inputOffset, playback,
                 captured, heard>>

(* Bug: the first block publishes the whole buffer.                        *)
CapturePublishEarly ==
  /\ capPc = "publish"
  /\ writeIndex' = IndexAdd(writeIndex, blockFrames)
  /\ writeindex' = IndexAdd(writeIndex, writableFrames)
  /\ newest' = inputBase + inputOffset + writableFrames
  /\ inputOffset' = inputOffset + blockFrames
  /\ writableFrames' = writableFrames - blockFrames
  /\ capPc' = IF writableFrames > blockFrames THEN "copy" ELSE "idle"
  /\ UNCHANGED <<readindex, ringStorage, inputBase, playback, captured, heard>>

CapturePublish ==
  /\ capPc = "publish"
  /\ writeIndex' = IndexAdd(writeIndex, blockFrames)
  /\ writeindex' = IndexAdd(writeIndex, blockFrames)
  /\ newest' = inputBase + inputOffset + blockFrames
  /\ IF writableFrames > blockFrames
       THEN /\ capPc' = "copy"
            /\ inputOffset' = inputOffset + blockFrames
            /\ writableFrames' = writableFrames - blockFrames
            /\ UNCHANGED inputBase
       ELSE /\ capPc' = "idle"
            /\ inputOffset' = 0
            /\ writableFrames' = 0
            /\ inputBase' = 0
  /\ UNCHANGED <<readindex, ringStorage, playback, captured, heard>>

-----------------------------------------------------------------------------
(* processPlayback *)

(* Bug: the slots are given back before they are read.                     *)
PlaybackBeginReleasing(requested) ==
  LET available == IndexDiff(writeindex, readindex) IN
  /\ playPc = "idle"
  /\ readIndex' = readindex
  /\ requestedFrames' = requested
  /\ readableFrames' = IF available > 0 THEN AtMost(available, requested) ELSE 0
  /\ readindex' = IndexAdd(readindex, readableFrames')
  /\ output' = <<>>
  /\ playPc' = IF available > 0 THEN "copy" ELSE "pad"
  /\ UNCHANGED <<writeindex, ringStorage, capture, captured, newest, heard>>

PlaybackBegin(requested) ==
  LET available == IndexDiff(writeindex, readindex) IN
  /\ playPc = "idle"
  /\ readIndex' = readindex
  /\ requestedFrames' = requested
  /\ readableFrames' = IF available > 0 THEN AtMost(available, requested) ELSE 0
  /\ output' = <<>>
  /\ playPc' = IF available > 0 THEN "copy" ELSE "pad"
  /\ UNCHANGED <<writeindex, readindex, ringStorage, capture,
                 captured, newest, heard>>

PlaybackCopy ==
  /\ playPc = "copy"
  /\ output' = ReadData(readIndex, readableFrames)
  /\ heard' = ReadData(readIndex, readableFrames)[readableFrames]
  /\ playPc' = "update"
  /\ UNCHANGED <<writeindex, readindex, ringStorage, capture, readIndex,
                 requestedFrames, readableFrames, captured, newest>>

(* Bug: the read index is not moved.                                       *)
PlaybackUpdateForgotten ==
  /\ playPc = "update"
  /\ playPc' = "pad"
  /\ UNCHANGED <<writeindex, readindex, ringStorage, capture, readIndex,
                 requestedFrames, readableFrames, output, captured, newest,
                 heard>>

PlaybackUpdate ==
  /\ playPc = "update"
  /\ readindex' = IndexAdd(readIndex, readableFrames)
  /\ playPc' = "pad"
  /\ UNCHANGED <<writeindex, ringStorage, capture, readIndex, requestedFrames,
                 readableFrames, output, captured, newest, heard>>

(* Silence for the frames that are missing; the buffer goes to the graph.  *)
PlaybackPad ==
  /\ playPc = "pad"
  /\ output' = output \o [k \in 1 .. requestedFrames - readableFrames |-> 0]
  /\ playPc' = "idle"
  /\ UNCHANGED <<writeindex, readindex, ringStorage, capture, readIndex,
                 requestedFrames, readableFrames, captured, newest, heard>>

-----------------------------------------------------------------------------
(* start() resets both indices; the storage starts silent.                 *)
Init ==
  /\ writeindex = 0 /\ readindex = 0
  /\ ringStorage = [s \in 0 .. Capacity - 1 |-> 0]
  /\ capPc = "idle" /\ writeIndex = 0
  /\ inputBase = 0 /\ inputOffset = 0 /\ writableFrames = 0
  /\ playPc = "idle" /\ readIndex = 0
  /\ requestedFrames = 0 /\ readableFrames = 0 /\ output = <<>>
  /\ captured = 0 /\ newest = 0 /\ heard = 0

Capture ==
  \/ \E frames \in BufferSizes : CaptureBegin(frames)
  \/ CaptureCopy
  \/ CapturePublish

Playback ==
  \/ \E requested \in RequestSizes : PlaybackBegin(requested)
  \/ PlaybackCopy
  \/ PlaybackUpdate
  \/ PlaybackPad

Next == Capture \/ Playback

Spec == Init /\ [][Next]_vars

(* A callback that has begun runs to its end, and the graph calls the      *)
(* playback stream again and again.  Nothing promises that anybody plays   *)
(* into the virtual sink.                                                  *)
FairSpec == Spec /\ WF_vars(CaptureCopy \/ CapturePublish) /\ WF_vars(Playback)

-----------------------------------------------------------------------------
(* Properties *)

TypeOK ==
  /\ writeindex \in 0 .. IndexModulus - 1
  /\ readindex \in 0 .. IndexModulus - 1
  /\ ringStorage \in [0 .. Capacity - 1 -> Nat]
  /\ capPc \in {"idle", "copy", "publish"}
  /\ writeIndex \in 0 .. IndexModulus - 1
  /\ inputBase \in Nat /\ inputOffset \in Nat
  /\ writableFrames \in 0..Capacity
  /\ playPc \in {"idle", "copy", "update", "pad"}
  /\ readIndex \in 0 .. IndexModulus - 1
  /\ requestedFrames \in Nat
  /\ readableFrames \in 0..requestedFrames
  /\ output \in Seq(Nat)
  /\ captured \in Nat /\ newest \in Nat /\ heard \in Nat

(* What the free-running indices say is stored is never negative and never *)
(* more than the ring holds, also when they wrap between two callbacks:    *)
(* the early return of processInterleaved() for an overrun ring            *)
(* (PipeWireBackend.cpp:360) is never taken for that reason.               *)
BacklogBounded == IndexDiff(writeindex, readindex) \in 0..Capacity

(* No lock guards the storage: the slots a capture callback is about to    *)
(* write are never among those a playback callback is about to read,       *)
(* whichever way the two interleave.                                       *)
NoDataRace ==
  capPc = "copy" /\ playPc = "copy" =>
    Slots(writeIndex, blockFrames) \cap Slots(readIndex, readableFrames) = {}

(* What reaches the hardware sink is newer than everything played before   *)
(* and in the order of capture: no frame is played twice, none overtakes   *)
(* another, no slot is read before it was written.                         *)
PlaysInOrder ==
  [][PlaybackCopy =>
       \A j \in DOMAIN output' :
         output'[j] > (IF j = 1 THEN heard ELSE output'[j - 1])]_vars

(* No frame stays in the ring: playback moves the read index for ever, or   *)
(* again and again everything that was published has been played.          *)
FramesReachPlayback ==
  \/ []<><<PlaybackUpdate>>_readindex
  \/ []<>(heard = newest)

-----------------------------------------------------------------------------
(* The ring implements the bounded queue.  A frame enters the queue when   *)
(* its block is published and leaves it when it is copied to the output,   *)
(* before the read index moves.                                            *)
firstUnread ==
  IF playPc = "update" THEN IndexAdd(readIndex, readableFrames) ELSE readindex

queued == ReadData(firstUnread, IndexDiff(writeindex, firstUnread))

(* The output buffer without the silence.                                  *)
emitted == IF playPc = "copy" THEN <<>> ELSE SubSeq(output, 1, readableFrames)

Queue == INSTANCE FrameQueue WITH QueueBound <- Capacity, queue <- queued

(* Every behaviour of the ring is one of the queue: accepted frames are    *)
(* delivered exactly once, unaltered and in order.                         *)
RefinesQueue == Queue!Spec
=============================================================================
