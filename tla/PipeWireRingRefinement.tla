----------------------- MODULE PipeWireRingRefinement -----------------------
(***************************************************************************)
(* Proof that the PipeWire ring plays frames in the order of capture, none *)
(* twice and none that was not written, for every interleaving of the two  *)
(* callbacks; and that it implements FrameQueue, a bounded first-in        *)
(* first-out queue: each step of a callback is a step of the queue or      *)
(* leaves it alone.                                                        *)
(***************************************************************************)
EXTENDS PipeWireRingProofs, SequenceTheorems

-----------------------------------------------------------------------------
(* What the slots hold, counted from the read index on.                    *)

backlog == IndexDiff(writeindex, readindex)

Stored(k) == ringStorage[SlotAfter(readindex, k)]

(* Frames that were played already but whose slots are not given back.     *)
played == IF playPc = "update" THEN readableFrames ELSE 0

StoredAscends ==
  \A j \in 0 .. backlog - 1 : \A k \in 0 .. backlog - 1 :
    j < k => Stored(j) < Stored(k)

StoredIsOld == \A k \in 0 .. backlog - 1 : Stored(k) <= newest

StoredIsUnheard == \A k \in played .. backlog - 1 : Stored(k) > heard

HistoryAscends == heard <= newest /\ newest <= captured

(* A capture callback writes what is newer than everything published.      *)
InputIsNew ==
  capPc # "idle" =>
    /\ newest <= inputBase + inputOffset
    /\ inputBase + inputOffset + writableFrames <= captured

(* Before a block is published it is in the slots after the backlog.       *)
BlockIsStored ==
  capPc = "publish" =>
    \A k \in 0 .. blockFrames - 1 :
      Stored(backlog + k) = inputBase + inputOffset + 1 + k

OrderInv ==
  /\ StoredAscends
  /\ StoredIsOld
  /\ StoredIsUnheard
  /\ HistoryAscends
  /\ InputIsNew
  /\ BlockIsStored

-----------------------------------------------------------------------------
(* What RingInv says of the backlog, in the form the lemmas need it.       *)
LEMMA BacklogFacts ==
  ASSUME RingInv
  PROVE  /\ writeindex \in 0 .. IndexModulus - 1 /\ writeindex \in Nat
         /\ readindex \in 0 .. IndexModulus - 1 /\ readindex \in Nat
         /\ backlog \in 0..Capacity
         /\ \A k \in 0 .. Capacity - 1 : Stored(k) \in Nat
<1>1. /\ writeindex \in 0 .. IndexModulus - 1 /\ writeindex \in Nat
      /\ readindex \in 0 .. IndexModulus - 1 /\ readindex \in Nat
      /\ backlog \in 0..Capacity
  BY CapacityAssumption DEF RingInv, TypeOK, IndexInv, BacklogBounded, backlog
<1>2. ASSUME NEW k \in 0 .. Capacity - 1
      PROVE  Stored(k) \in Nat
  <2>1. k \in 0..Capacity
    BY CapacityAssumption
  <2>2. SlotAfter(readindex, k) \in 0 .. Capacity - 1
    BY <1>1, <2>1, SlotAfterType
  <2> QED
    BY <2>2 DEF Stored, RingInv, TypeOK
<1> QED
  BY <1>1, <1>2

(* While a block is under way, it fits behind the backlog.                 *)
LEMMA BlockFacts ==
  ASSUME RingInv, capPc # "idle"
  PROVE  /\ writeIndex = writeindex
         /\ blockFrames \in 1..Capacity
         /\ blockFrames <= writableFrames
         /\ backlog + writableFrames <= Capacity
<1>1. /\ writeIndex = writeindex
      /\ writableFrames \in 0..Capacity /\ writableFrames >= 1
      /\ backlog + writableFrames <= Capacity
  BY DEF RingInv, TypeOK, IndexInv, CaptureRoom, backlog
<1> QED
  BY <1>1, BlockFramesType

(* A playback callback in progress reads a prefix of the backlog.          *)
LEMMA ReadFacts ==
  ASSUME RingInv, playPc \in {"copy", "update"}
  PROVE  /\ readIndex = readindex
         /\ readableFrames \in 1..Capacity
         /\ readableFrames <= backlog
<1>1. backlog \in 0..Capacity
  BY BacklogFacts
<1> QED
  BY <1>1, CapacityAssumption
     DEF RingInv, TypeOK, IndexInv, PlaybackStock, backlog

(* The slot k places past the write index is the slot backlog + k places   *)
(* past the read index.                                                    *)
LEMMA FreeSlot ==
  ASSUME Unbroken, RingInv, NEW k \in Nat, backlog + k < Capacity
  PROVE  SlotAfter(writeindex, k) = SlotAfter(readindex, backlog + k)
<1>1. SlotOf(writeindex) = SlotAfter(readindex, backlog)
  BY BacklogFacts, WriteSlot DEF backlog, Unbroken
<1> QED
  BY <1>1, BacklogFacts, SlotAfterCompose

(* The stored frames are before the wrap, or it does no harm.              *)
LEMMA BacklogIsUnbroken ==
  ASSUME Unbroken, RingInv, NEW n \in 0..Capacity, n <= backlog
  PROVE  Aligned \/ readindex + n < IndexModulus
BY BacklogFacts, CapacityAssumption DEF Unbroken, backlog, IndexDiff

(* Moving the read index by n renumbers what is stored.                    *)
LEMMA SlotAfterAdvance ==
  ASSUME NEW r \in 0 .. IndexModulus - 1, NEW n \in 0..Capacity,
         Aligned \/ r + n < IndexModulus,
         NEW k \in Nat, n + k < Capacity
  PROVE  SlotAfter(IndexAdd(r, n), k) = SlotAfter(r, n + k)
<1>1. SlotOf(IndexAdd(r, n)) = SlotAfter(r, n)
  BY SlotOfAdd
<1>2. IndexAdd(r, n) \in Nat /\ r \in Nat
  BY IndexAddType, CapacityAssumption
<1> QED
  BY <1>1, <1>2, SlotAfterCompose

(* spa_ringbuffer_write_data: the n slots from i on hold the new frames,   *)
(* every other slot what it held.                                          *)
LEMMA WriteDataSlots ==
  ASSUME NEW i \in Nat, NEW n \in 0..Capacity, NEW first \in Nat
  PROVE  /\ \A k \in 0 .. n - 1 : WriteData(i, n, first)[SlotAfter(i, k)] = first + k
         /\ \A s \in 0 .. Capacity - 1 \ Slots(i, n) :
              WriteData(i, n, first)[s] = ringStorage[s]
<1>1. SlotOf(i) \in 0 .. Capacity - 1
  BY SlotOfType
<1>2. ASSUME NEW k \in 0 .. n - 1
      PROVE  WriteData(i, n, first)[SlotAfter(i, k)] = first + k
  <2> DEFINE s == SlotAfter(i, k)
             j == IF s >= SlotOf(i) THEN s - SlotOf(i)
                  ELSE s - SlotOf(i) + Capacity
  <2>1. s \in 0 .. Capacity - 1
    BY <1>1, CapacityAssumption DEF SlotAfter
  <2>2. j = k
    BY <1>1, CapacityAssumption DEF SlotAfter
  <2>3. WriteData(i, n, first)[s] = IF j < n THEN first + j ELSE ringStorage[s]
    <3> HIDE DEF s
    <3> QED
      BY <2>1 DEF WriteData
  <2> QED
    BY <2>2, <2>3
<1>3. ASSUME NEW s \in 0 .. Capacity - 1, s \notin Slots(i, n)
      PROVE  WriteData(i, n, first)[s] = ringStorage[s]
  <2> DEFINE j == IF s >= SlotOf(i) THEN s - SlotOf(i)
                  ELSE s - SlotOf(i) + Capacity
  <2>1. j \in Nat /\ SlotAfter(i, j) = s
    BY <1>1, CapacityAssumption DEF SlotAfter
  <2>2. ~(j < n)
    BY <1>3, <2>1 DEF Slots
  <2>3. WriteData(i, n, first)[s] = IF j < n THEN first + j ELSE ringStorage[s]
    BY DEF WriteData
  <2> QED
    BY <2>2, <2>3
<1> QED
  BY <1>2, <1>3

-----------------------------------------------------------------------------
(* OrderInv is inductive                                                   *)

LEMMA InitEstablishesOrderInv == Init => OrderInv
BY CapacityAssumption
   DEF Init, OrderInv, StoredAscends, StoredIsOld, StoredIsUnheard,
       HistoryAscends, InputIsNew, BlockIsStored, backlog, played, IndexDiff

(* Steps that move neither index and write no slot leave what is stored.   *)
LEMMA SameStored ==
  ASSUME OrderInv, UNCHANGED <<writeindex, readindex, ringStorage, newest>>
  PROVE  /\ backlog' = backlog
         /\ \A k \in Int : Stored(k)' = Stored(k)
         /\ StoredAscends'
         /\ StoredIsOld'
<1>1. backlog' = backlog
  BY DEF backlog, IndexDiff
<1>2. \A k \in Int : Stored(k)' = Stored(k)
  BY DEF Stored, SlotAfter, SlotOf
<1> QED
  BY <1>1, <1>2 DEF OrderInv, StoredAscends, StoredIsOld

LEMMA CaptureBeginKeepsOrderInv ==
  ASSUME RingInv, OrderInv, NEW frames \in BufferSizes, CaptureBegin(frames)
  PROVE  OrderInv'
<1>1. /\ frames \in Nat /\ backlog \in 0..Capacity
      /\ captured \in Nat /\ newest \in Nat /\ heard \in Nat
  BY SizesAssumption, BacklogFacts DEF RingInv, TypeOK
<1>2. /\ capPc = "idle"
      /\ captured' = captured + frames
      /\ UNCHANGED <<writeindex, readindex, ringStorage, playback, newest, heard>>
      /\ \/ UNCHANGED capture
         \/ /\ capPc' = "copy"
            /\ inputBase' = captured
            /\ inputOffset' = 0
            /\ writableFrames' = AtMost(frames, Capacity - backlog)
  BY DEF CaptureBegin, backlog
<1>3. StoredAscends' /\ StoredIsOld'
  BY <1>2, SameStored
<1>4. StoredIsUnheard'
  BY <1>2, SameStored DEF OrderInv, StoredIsUnheard, played, playback
<1>5. HistoryAscends'
  BY <1>1, <1>2 DEF OrderInv, HistoryAscends
<1>6. InputIsNew'
  <2>1. newest <= captured
    BY DEF OrderInv, HistoryAscends
  <2>2. AtMost(frames, Capacity - backlog) <= frames
    BY <1>1, CapacityAssumption DEF AtMost
  <2>3. AtMost(frames, Capacity - backlog) \in Int
    BY <1>1, CapacityAssumption DEF AtMost
  <2> QED
    BY <1>1, <1>2, <2>1, <2>2, <2>3 DEF InputIsNew, capture
<1>7. BlockIsStored'
  BY <1>2 DEF BlockIsStored, capture
<1> QED
  BY <1>3, <1>4, <1>5, <1>6, <1>7 DEF OrderInv

(* The slots of the backlog keep their frames; those after it get the      *)
(* block.                                                                  *)
LEMMA CaptureCopyStores ==
  ASSUME Unbroken, RingInv, CaptureCopy
  PROVE  /\ backlog' = backlog
         /\ \A k \in 0 .. backlog - 1 : Stored(k)' = Stored(k)
         /\ \A k \in 0 .. blockFrames - 1 :
              Stored(backlog + k)' = inputBase + inputOffset + 1 + k
<1> DEFINE n == blockFrames
           first == inputBase + inputOffset + 1
<1>1. /\ capPc = "copy"
      /\ ringStorage' = WriteData(writeIndex, n, first)
      /\ capPc' = "publish"
      /\ UNCHANGED <<writeindex, readindex, writeIndex, inputBase, inputOffset,
                     writableFrames, playback, captured, newest, heard>>
  BY DEF CaptureCopy
<1>2. /\ writeIndex = writeindex /\ n \in 1..Capacity /\ n <= writableFrames
      /\ backlog + writableFrames <= Capacity /\ writableFrames \in Int
      /\ first \in Nat
  BY <1>1, BlockFacts DEF RingInv, TypeOK
<1>3. backlog' = backlog /\ n' = n /\ first' = first
  BY <1>1 DEF backlog, IndexDiff, blockFrames
<1>4. /\ backlog \in 0..Capacity /\ writeindex \in Nat /\ readindex \in Nat
  BY BacklogFacts
<1> HIDE DEF n, first
<1>5. /\ n \in 0..Capacity /\ backlog + n <= Capacity /\ n \in Int
  BY <1>2, <1>4, CapacityAssumption
<1>6. ASSUME NEW k \in 0 .. backlog - 1
      PROVE  Stored(k)' = Stored(k)
  <2>1. k \in 0 .. Capacity - 1 /\ k \in 0..Capacity
    BY <1>4, CapacityAssumption
  <2>2. SlotAfter(readindex, k) \in 0 .. Capacity - 1
    BY <1>4, <2>1, SlotAfterType
  <2>3. ASSUME NEW j \in 0 .. n - 1, SlotAfter(readindex, k) = SlotAfter(writeindex, j)
        PROVE  FALSE
    <3>1. /\ j \in Nat /\ backlog + j < Capacity
          /\ backlog + j \in 0 .. Capacity - 1 /\ k < backlog + j
      BY <1>4, <1>5, CapacityAssumption
    <3>2. SlotAfter(readindex, k) = SlotAfter(readindex, backlog + j)
      BY <2>3, <3>1, FreeSlot
    <3>3. k = backlog + j
      BY <1>4, <2>1, <3>1, <3>2, SlotAfterInjective
    <3> QED
      BY <1>4, <3>1, <3>3
  <2>4. SlotAfter(readindex, k) \notin Slots(writeindex, n)
    BY <2>3 DEF Slots
  <2>5. \A s \in 0 .. Capacity - 1 \ Slots(writeindex, n) :
          ringStorage'[s] = ringStorage[s]
    BY <1>1, <1>2, <1>4, <1>5, WriteDataSlots
  <2>6. ringStorage'[SlotAfter(readindex, k)] = ringStorage[SlotAfter(readindex, k)]
    BY <2>2, <2>4, <2>5
  <2> QED
    BY <1>1, <2>6 DEF Stored, SlotAfter, SlotOf
<1>7. ASSUME NEW k \in 0 .. n - 1
      PROVE  Stored(backlog + k)' = first + k
  <2>1. k \in Nat /\ backlog + k < Capacity
    BY <1>4, <1>5, CapacityAssumption
  <2>2. SlotAfter(writeindex, k) = SlotAfter(readindex, backlog + k)
    BY <2>1, FreeSlot
  <2>3. ringStorage'[SlotAfter(writeindex, k)] = first + k
    BY <1>1, <1>2, <1>4, <1>5, WriteDataSlots
  <2>4. SlotAfter(readindex, backlog + k)' = SlotAfter(readindex, backlog + k)
    BY <1>1, <1>3 DEF SlotAfter, SlotOf
  <2> QED
    BY <2>2, <2>3, <2>4 DEF Stored
<1> QED
  BY <1>3, <1>6, <1>7 DEF n, first

LEMMA CaptureCopyKeepsOrderInv ==
  ASSUME Unbroken, RingInv, OrderInv, CaptureCopy
  PROVE  OrderInv'
<1>1. /\ backlog' = backlog
      /\ \A k \in 0 .. backlog - 1 : Stored(k)' = Stored(k)
      /\ \A k \in 0 .. blockFrames - 1 :
           Stored(backlog + k)' = inputBase + inputOffset + 1 + k
  BY CaptureCopyStores
<1>2. UNCHANGED <<writeindex, readindex, writeIndex, inputBase, inputOffset,
                  writableFrames, playback, captured, newest, heard>>
  BY DEF CaptureCopy
<1>3. StoredAscends'
  BY <1>1 DEF OrderInv, StoredAscends
<1>4. StoredIsOld'
  BY <1>1, <1>2 DEF OrderInv, StoredIsOld
<1>5. StoredIsUnheard'
  <2>1. played' = played
    BY <1>2 DEF played, playback
  <2>2. ASSUME NEW k \in played .. backlog - 1
        PROVE  k \in 0 .. backlog - 1
    BY BacklogFacts DEF RingInv, TypeOK, played
  <2> QED
    BY <1>1, <1>2, <2>1, <2>2 DEF OrderInv, StoredIsUnheard
<1>6. HistoryAscends' /\ InputIsNew'
  BY <1>2 DEF OrderInv, HistoryAscends, InputIsNew, CaptureCopy
<1>7. BlockIsStored'
  BY <1>1, <1>2 DEF BlockIsStored, blockFrames
<1> QED
  BY <1>3, <1>4, <1>5, <1>6, <1>7 DEF OrderInv

LEMMA CapturePublishKeepsOrderInv ==
  ASSUME RingInv, OrderInv, CapturePublish
  PROVE  OrderInv'
<1> DEFINE n == blockFrames
           base == inputBase + inputOffset
<1>1. /\ capPc = "publish"
      /\ writeindex' = IndexAdd(writeIndex, n)
      /\ newest' = base + n
      /\ UNCHANGED <<readindex, ringStorage, playback, captured, heard>>
      /\ \/ /\ writableFrames > n
            /\ capPc' = "copy"
            /\ inputOffset' = inputOffset + n
            /\ writableFrames' = writableFrames - n
            /\ UNCHANGED inputBase
         \/ capPc' = "idle"
  BY DEF CapturePublish
<1>2. /\ writeIndex = writeindex /\ n \in 1..Capacity /\ n <= writableFrames
      /\ backlog + writableFrames <= Capacity /\ writableFrames \in Int
      /\ base \in Nat /\ inputBase \in Nat /\ inputOffset \in Nat
      /\ newest \in Nat /\ captured \in Nat /\ heard \in Nat
  BY <1>1, BlockFacts DEF RingInv, TypeOK
<1>3. /\ backlog \in 0..Capacity
      /\ writeindex \in 0 .. IndexModulus - 1
      /\ readindex \in 0 .. IndexModulus - 1
      /\ \A k \in 0 .. Capacity - 1 : Stored(k) \in Nat
  BY BacklogFacts
<1>4. /\ newest <= base
      /\ base + writableFrames <= captured
      /\ heard <= newest
      /\ \A k \in 0 .. n - 1 : Stored(backlog + k) = base + 1 + k
  BY <1>1 DEF OrderInv, InputIsNew, HistoryAscends, BlockIsStored
<1>5. \A k \in Int : Stored(k)' = Stored(k)
  BY <1>1 DEF Stored, SlotAfter, SlotOf
<1> HIDE DEF n, base
<1>6. n \in 0..Capacity /\ n \in Int /\ backlog + n <= Capacity
  BY <1>2, <1>3, CapacityAssumption
<1>7. backlog' = backlog + n
  BY <1>1, <1>2, <1>3, <1>6, CapacityAssumption, PublishAdds DEF backlog
(* The backlog after the step: old frames, then the block.                 *)
<1>8. ASSUME NEW k \in 0 .. backlog' - 1
      PROVE  /\ k \in Int /\ Stored(k)' = Stored(k) /\ Stored(k) \in Nat
             /\ \/ k \in 0 .. backlog - 1 /\ Stored(k) <= newest
                \/ k \in backlog .. backlog + n - 1
                     /\ Stored(k) = base + 1 + (k - backlog)
  <2>1. k \in 0 .. backlog + n - 1 /\ k \in 0 .. Capacity - 1
    BY <1>3, <1>6, <1>7, CapacityAssumption
  <2>2. Stored(k)' = Stored(k) /\ Stored(k) \in Nat
    BY <1>3, <1>5, <2>1
  <2>3. CASE k < backlog
    BY <1>3, <2>1, <2>2, <2>3 DEF OrderInv, StoredIsOld
  <2>4. CASE k >= backlog
    <3>1. k - backlog \in 0 .. n - 1
      BY <1>3, <1>6, <2>1, <2>4
    <3>2. Stored(backlog + (k - backlog)) = base + 1 + (k - backlog)
      BY <1>4, <3>1
    <3>3. backlog + (k - backlog) = k
      BY <1>3, <2>1
    <3> QED
      BY <1>3, <1>6, <2>1, <2>2, <2>4, <3>2, <3>3
  <2> QED
    BY <1>3, <2>1, <2>3, <2>4
<1>9. StoredAscends'
  <2>1. SUFFICES ASSUME NEW j \in 0 .. backlog' - 1, NEW k \in 0 .. backlog' - 1,
                        j < k
                 PROVE  Stored(j)' < Stored(k)'
    BY DEF StoredAscends
  <2>2. CASE k \in 0 .. backlog - 1
    <3>1. j \in 0 .. backlog - 1
      BY <1>3, <1>8, <2>1, <2>2
    <3> QED
      BY <1>8, <2>1, <2>2, <3>1 DEF OrderInv, StoredAscends
  <2>3. CASE k \in backlog .. backlog + n - 1 /\ Stored(k) = base + 1 + (k - backlog)
    BY <1>2, <1>3, <1>4, <1>6, <1>8, <2>1, <2>3
  <2> QED
    BY <1>8, <2>2, <2>3
<1>10. StoredIsOld'
  <2>1. SUFFICES ASSUME NEW k \in 0 .. backlog' - 1
                 PROVE  Stored(k)' <= newest'
    BY DEF StoredIsOld
  <2> QED
    BY <1>1, <1>2, <1>3, <1>4, <1>6, <1>8
<1>11. StoredIsUnheard'
  <2>1. played' = played /\ played \in Nat
    BY <1>1 DEF played, playback, RingInv, TypeOK
  <2>2. SUFFICES ASSUME NEW k \in played .. backlog' - 1
                 PROVE  Stored(k)' > heard
    BY <1>1, <2>1 DEF StoredIsUnheard
  <2>3. k \in 0 .. backlog' - 1
    BY <1>3, <1>6, <1>7, <2>1, <2>2
  <2>4. CASE k \in 0 .. backlog - 1
    <3>1. k \in played .. backlog - 1
      BY <1>3, <2>1, <2>2, <2>4
    <3> QED
      BY <1>8, <2>3, <3>1 DEF OrderInv, StoredIsUnheard
  <2>5. CASE k \in backlog .. backlog + n - 1 /\ Stored(k) = base + 1 + (k - backlog)
    BY <1>2, <1>3, <1>4, <1>6, <1>8, <2>3, <2>5
  <2> QED
    BY <1>8, <2>3, <2>4, <2>5
<1>12. HistoryAscends' /\ InputIsNew'
  <2>1. newest <= newest' /\ newest' <= captured
    BY <1>1, <1>2, <1>4, <1>6
  <2>2. HistoryAscends'
    BY <1>1, <1>2, <1>4, <1>6, <2>1 DEF HistoryAscends
  <2>3. InputIsNew'
    BY <1>1, <1>2, <1>4, <1>6 DEF InputIsNew, base
  <2> QED
    BY <2>2, <2>3
<1>13. BlockIsStored'
  BY <1>1 DEF BlockIsStored
<1> QED
  BY <1>9, <1>10, <1>11, <1>12, <1>13 DEF OrderInv
LEMMA PlaybackBeginKeepsOrderInv ==
  ASSUME RingInv, OrderInv, NEW requested \in RequestSizes,
         PlaybackBegin(requested)
  PROVE  OrderInv'
<1>1. /\ playPc = "idle" /\ playPc' \in {"copy", "pad"}
      /\ UNCHANGED <<writeindex, readindex, ringStorage, capture, captured,
                     newest, heard>>
  BY DEF PlaybackBegin
<1>2. StoredAscends' /\ StoredIsOld'
  BY <1>1, SameStored
<1>3. StoredIsUnheard'
  BY <1>1, SameStored DEF OrderInv, StoredIsUnheard, played
<1>4. HistoryAscends' /\ InputIsNew'
  BY <1>1 DEF OrderInv, HistoryAscends, InputIsNew, capture
<1>5. BlockIsStored'
  BY <1>1 DEF OrderInv, BlockIsStored, Stored, backlog, blockFrames, SlotAfter,
              SlotOf, IndexDiff, capture
<1> QED
  BY <1>2, <1>3, <1>4, <1>5 DEF OrderInv

(* What a playback callback copies: the oldest frames of the backlog.      *)
LEMMA CopiedFrames ==
  ASSUME RingInv, PlaybackCopy
  PROVE  /\ readableFrames \in 1..Capacity /\ readableFrames <= backlog
         /\ DOMAIN output' = 1..readableFrames
         /\ \A j \in 1..readableFrames : output'[j] = Stored(j - 1)
         /\ heard' = Stored(readableFrames - 1)
<1>1. /\ readIndex = readindex
      /\ readableFrames \in 1..Capacity
      /\ readableFrames <= backlog
  BY ReadFacts DEF PlaybackCopy
<1>2. output' = [j \in 1..readableFrames |-> Stored(j - 1)]
  BY <1>1 DEF PlaybackCopy, ReadData, Stored
<1>3. heard' = output'[readableFrames]
  BY DEF PlaybackCopy
<1> QED
  BY <1>1, <1>2, <1>3

LEMMA PlaybackCopyKeepsOrderInv ==
  ASSUME RingInv, OrderInv, PlaybackCopy
  PROVE  OrderInv'
<1> DEFINE n == readableFrames
<1>1. /\ n \in 1..Capacity /\ n <= backlog
      /\ heard' = Stored(n - 1)
  BY CopiedFrames
<1>2. /\ playPc' = "update"
      /\ UNCHANGED <<writeindex, readindex, ringStorage, capture,
                     readableFrames, captured, newest>>
  BY DEF PlaybackCopy
<1>3. /\ backlog \in 0..Capacity
      /\ newest \in Nat /\ captured \in Nat
      /\ Stored(n - 1) \in Nat
  BY <1>1, BacklogFacts, CapacityAssumption DEF RingInv, TypeOK
<1>4. n - 1 \in 0 .. backlog - 1
  BY <1>1, <1>3, CapacityAssumption
<1>5. StoredAscends' /\ StoredIsOld'
  BY <1>2, SameStored
<1>6. StoredIsUnheard'
  <2>1. backlog' = backlog /\ played' = n
    BY <1>2, SameStored DEF played
  <2>2. SUFFICES ASSUME NEW k \in n .. backlog - 1
                 PROVE  Stored(k)' > heard'
    BY <2>1 DEF StoredIsUnheard
  <2>3. k \in 0 .. backlog - 1 /\ k \in 0 .. Capacity - 1 /\ n - 1 < k
    BY <1>1, <1>3, CapacityAssumption
  <2>4. Stored(n - 1) < Stored(k) /\ Stored(k) \in Nat
    BY <1>4, <2>3, BacklogFacts DEF OrderInv, StoredAscends
  <2>5. Stored(k)' = Stored(k)
    BY <1>2, <2>3, SameStored
  <2> QED
    BY <1>1, <1>3, <2>4, <2>5
<1>7. HistoryAscends'
  BY <1>1, <1>2, <1>3, <1>4
     DEF OrderInv, HistoryAscends, StoredIsOld
<1>8. InputIsNew'
  BY <1>2 DEF OrderInv, InputIsNew, capture
<1>9. BlockIsStored'
  BY <1>2 DEF OrderInv, BlockIsStored, Stored, backlog, blockFrames, SlotAfter,
              SlotOf, IndexDiff, capture
<1> QED
  BY <1>5, <1>6, <1>7, <1>8, <1>9 DEF OrderInv

(* The backlog loses the frames that were played; the others move up.      *)
LEMMA PlaybackUpdateRenumbers ==
  ASSUME Unbroken, RingInv, PlaybackUpdate
  PROVE  /\ readableFrames \in 1..Capacity /\ readableFrames <= backlog
         /\ backlog' = backlog - readableFrames
         /\ \A k \in Nat : readableFrames + k < Capacity
              => Stored(k)' = Stored(readableFrames + k)
<1> DEFINE n == readableFrames
<1>1. /\ playPc = "update" /\ playPc' = "pad"
      /\ readindex' = IndexAdd(readIndex, n)
      /\ UNCHANGED <<writeindex, ringStorage, capture, readableFrames, captured,
                     newest, heard>>
  BY DEF PlaybackUpdate
<1>2. /\ readIndex = readindex /\ n \in 1..Capacity /\ n <= backlog
  BY <1>1, ReadFacts
<1>3. /\ backlog \in 0..Capacity
      /\ writeindex \in 0 .. IndexModulus - 1
      /\ readindex \in 0 .. IndexModulus - 1
  BY BacklogFacts
<1>4. n \in 0..Capacity /\ n \in Int
  BY <1>2, CapacityAssumption
<1>5. backlog' = backlog - n
  <2>1. backlog <= Capacity
    BY <1>3, CapacityAssumption
  <2> QED
    BY <1>1, <1>2, <1>3, <1>4, <2>1, ConsumeTakes DEF backlog
<1>6. ASSUME NEW k \in Nat, n + k < Capacity
      PROVE  Stored(k)' = Stored(n + k)
  <2>1. SlotAfter(readindex', k) = SlotAfter(readindex, n + k)
    BY <1>1, <1>2, <1>3, <1>4, <1>6, BacklogIsUnbroken, SlotAfterAdvance
  <2> QED
    BY <1>1, <2>1 DEF Stored, SlotAfter, SlotOf
<1> QED
  BY <1>2, <1>5, <1>6

LEMMA PlaybackUpdateKeepsOrderInv ==
  ASSUME Unbroken, RingInv, OrderInv, PlaybackUpdate
  PROVE  OrderInv'
<1> DEFINE n == readableFrames
<1>1. /\ playPc = "update" /\ playPc' = "pad"
      /\ UNCHANGED <<capture, captured, newest, heard>>
  BY DEF PlaybackUpdate
<1>2. /\ n \in 1..Capacity /\ n <= backlog
      /\ backlog' = backlog - n
      /\ \A k \in Nat : n + k < Capacity => Stored(k)' = Stored(n + k)
  BY PlaybackUpdateRenumbers
<1>3. backlog \in 0..Capacity
  BY BacklogFacts
<1>4. n \in Int
  BY <1>2, CapacityAssumption
<1> HIDE DEF n
<1>5. ASSUME NEW k \in 0 .. backlog' - 1
      PROVE  /\ n + k \in 0 .. backlog - 1 /\ n + k \in n .. backlog - 1
             /\ Stored(k)' = Stored(n + k)
  <2>1. /\ k \in Nat /\ n + k < Capacity
        /\ n + k \in 0 .. backlog - 1 /\ n + k \in n .. backlog - 1
    BY <1>2, <1>3, <1>4, CapacityAssumption
  <2> QED
    BY <1>2, <2>1
<1>6. StoredAscends'
  <2>1. SUFFICES ASSUME NEW j \in 0 .. backlog' - 1, NEW k \in 0 .. backlog' - 1,
                        j < k
                 PROVE  Stored(j)' < Stored(k)'
    BY DEF StoredAscends
  <2>2. n + j < n + k
    BY <1>2, <1>3, <1>4, <2>1
  <2> QED
    BY <1>5, <2>2 DEF OrderInv, StoredAscends
<1>7. StoredIsOld'
  BY <1>1, <1>5 DEF OrderInv, StoredIsOld
<1>8. StoredIsUnheard'
  <2>1. played = n /\ played' = 0
    BY <1>1 DEF played, n
  <2> QED
    BY <1>1, <1>5, <2>1 DEF OrderInv, StoredIsUnheard
<1>9. HistoryAscends' /\ InputIsNew'
  BY <1>1 DEF OrderInv, HistoryAscends, InputIsNew, capture
<1>10. BlockIsStored'
  <2>1. /\ capPc' = capPc /\ inputBase' = inputBase
        /\ inputOffset' = inputOffset /\ blockFrames' = blockFrames
    BY <1>1 DEF blockFrames, capture
  <2>2. SUFFICES ASSUME capPc = "publish", NEW k \in 0 .. blockFrames - 1
                 PROVE  Stored(backlog + k)' = inputBase + inputOffset + 1 + k
    BY <2>1 DEF BlockIsStored
  <2>3. Stored(backlog + k) = inputBase + inputOffset + 1 + k
    BY <2>2 DEF OrderInv, BlockIsStored
  <2>4. /\ blockFrames \in 1..Capacity /\ blockFrames <= writableFrames
        /\ backlog + writableFrames <= Capacity /\ writableFrames \in Int
    BY <2>2, BlockFacts DEF RingInv, TypeOK
  <2>5. PICK m \in Nat : m = backlog' + k
    BY <1>2, <1>3, <1>4, <2>4
  <2>6. n + m = backlog + k /\ n + m < Capacity
    BY <1>2, <1>3, <1>4, <2>4, <2>5, CapacityAssumption
  <2>7. Stored(m)' = Stored(backlog + k)
    BY <1>2, <2>6
  <2>8. Stored(backlog + k)' = Stored(m)'
    BY <2>5 DEF Stored
  <2> QED
    BY <2>3, <2>7, <2>8
<1> QED
  BY <1>6, <1>7, <1>8, <1>9, <1>10 DEF OrderInv

LEMMA PlaybackPadKeepsOrderInv ==
  ASSUME RingInv, OrderInv, PlaybackPad
  PROVE  OrderInv'
<1>1. /\ playPc = "pad" /\ playPc' = "idle"
      /\ UNCHANGED <<writeindex, readindex, ringStorage, capture, captured,
                     newest, heard>>
  BY DEF PlaybackPad
<1>2. StoredAscends' /\ StoredIsOld'
  BY <1>1, SameStored
<1>3. StoredIsUnheard'
  BY <1>1, SameStored DEF OrderInv, StoredIsUnheard, played
<1>4. HistoryAscends' /\ InputIsNew'
  BY <1>1 DEF OrderInv, HistoryAscends, InputIsNew, capture
<1>5. BlockIsStored'
  BY <1>1 DEF OrderInv, BlockIsStored, Stored, backlog, blockFrames, SlotAfter,
              SlotOf, IndexDiff, capture
<1> QED
  BY <1>2, <1>3, <1>4, <1>5 DEF OrderInv
LEMMA NextKeepsOrderInv ==
  Unbroken /\ RingInv /\ OrderInv /\ [Next]_vars => OrderInv'
<1> SUFFICES ASSUME Unbroken, RingInv, OrderInv, [Next]_vars
             PROVE  OrderInv'
  OBVIOUS
<1>1. ASSUME NEW frames \in BufferSizes, CaptureBegin(frames)
      PROVE  OrderInv'
  BY <1>1, CaptureBeginKeepsOrderInv
<1>2. CASE CaptureCopy
  BY <1>2, CaptureCopyKeepsOrderInv
<1>3. CASE CapturePublish
  BY <1>3, CapturePublishKeepsOrderInv
<1>4. ASSUME NEW requested \in RequestSizes, PlaybackBegin(requested)
      PROVE  OrderInv'
  BY <1>4, PlaybackBeginKeepsOrderInv
<1>5. CASE PlaybackCopy
  BY <1>5, PlaybackCopyKeepsOrderInv
<1>6. CASE PlaybackUpdate
  BY <1>6, PlaybackUpdateKeepsOrderInv
<1>7. CASE PlaybackPad
  BY <1>7, PlaybackPadKeepsOrderInv
<1>8. CASE UNCHANGED vars
  BY <1>8
     DEF vars, capture, playback, OrderInv, StoredAscends, StoredIsOld,
         StoredIsUnheard, HistoryAscends, InputIsNew, BlockIsStored, Stored,
         backlog, played, blockFrames, SlotAfter, SlotOf, IndexDiff
<1> QED
  BY <1>1, <1>2, <1>3, <1>4, <1>5, <1>6, <1>7, <1>8
     DEF Next, Capture, Playback

-----------------------------------------------------------------------------
(* What one copy plays is newer than what was played before, and ascends.  *)
LEMMA CopyPlaysInOrder ==
  ASSUME RingInv, OrderInv, PlaybackCopy
  PROVE  \A j \in DOMAIN output' :
           output'[j] > (IF j = 1 THEN heard ELSE output'[j - 1])
<1>1. /\ readableFrames \in 1..Capacity /\ readableFrames <= backlog
      /\ DOMAIN output' = 1..readableFrames
      /\ \A j \in 1..readableFrames : output'[j] = Stored(j - 1)
  BY CopiedFrames
<1>2. /\ backlog \in 0..Capacity
      /\ \A k \in 0 .. Capacity - 1 : Stored(k) \in Nat
  BY BacklogFacts
<1> SUFFICES ASSUME NEW j \in 1..readableFrames
             PROVE  output'[j] > (IF j = 1 THEN heard ELSE output'[j - 1])
  BY <1>1
<1>3. /\ output'[j] = Stored(j - 1) /\ Stored(j - 1) \in Nat
      /\ j - 1 \in 0 .. backlog - 1
  BY <1>1, <1>2, CapacityAssumption
<1>4. CASE j = 1
  <2>1. played = 0 /\ 0 \in 0 .. backlog - 1
    BY <1>3, <1>4 DEF PlaybackCopy, played
  <2>2. Stored(0) > heard
    BY <2>1 DEF OrderInv, StoredIsUnheard
  <2> QED
    BY <1>3, <1>4, <2>2
<1>5. CASE j # 1
  <2>1. /\ j - 1 \in 1..readableFrames /\ (j - 1) - 1 \in 0 .. backlog - 1
        /\ (j - 1) - 1 \in 0 .. Capacity - 1 /\ (j - 1) - 1 < j - 1
    BY <1>1, <1>2, <1>5, CapacityAssumption
  <2>2. /\ output'[j - 1] = Stored((j - 1) - 1)
        /\ Stored((j - 1) - 1) \in Nat
    BY <1>1, <1>2, <2>1
  <2>3. Stored((j - 1) - 1) < Stored(j - 1)
    BY <1>3, <2>1 DEF OrderInv, StoredAscends
  <2> QED
    BY <1>3, <1>5, <2>2, <2>3
<1> QED
  BY <1>4, <1>5

(* What reaches the hardware sink is in the order of capture, no frame     *)
(* twice and none that was never captured: through every wrap of the two   *)
(* indices for an aligned capacity, up to the first wrap for any other.    *)
THEOREM FramesPlayInOrder == SlotsFollow => (Spec => PlaysInOrder)
<1> SUFFICES ASSUME SlotsFollow
             PROVE  Spec => PlaysInOrder
  OBVIOUS
<1>1. Init => OrderInv
  BY InitEstablishesOrderInv
<1>2. Unbroken /\ RingInv /\ OrderInv /\ [Next]_vars => OrderInv'
  BY NextKeepsOrderInv
<1>3. RingInv /\ OrderInv /\ [Next]_vars
        => [PlaybackCopy =>
              \A j \in DOMAIN output' :
                output'[j] > (IF j = 1 THEN heard ELSE output'[j - 1])]_vars
  BY CopyPlaysInOrder
<1> QED
  BY <1>1, <1>2, <1>3, SpecImpliesUnbroken, SpecImpliesRingInv, PTL
     DEF Spec, PlaysInOrder

-----------------------------------------------------------------------------
(* The queue is the part of the backlog that was not played.               *)
QueueIsBacklog ==
  /\ queued \in Seq(Nat)
  /\ Len(queued) = backlog - played
  /\ \A k \in played .. backlog - 1 : queued[k + 1 - played] = Stored(k)

(* The output buffer holds what was read, except before it is read.        *)
OutputIsFilled == playPc # "copy" => readableFrames <= Len(output)

QueueInv == captured <= MaxFrames /\ OutputIsFilled

-----------------------------------------------------------------------------
LEMMA NextKeepsQueueInv == RingInv /\ QueueInv /\ [Next]_vars => QueueInv'
<1> SUFFICES ASSUME RingInv, QueueInv, [Next]_vars
             PROVE  QueueInv'
  OBVIOUS
<1>1. /\ readableFrames \in Nat /\ requestedFrames - readableFrames \in Nat
      /\ output \in Seq(Nat)
  BY DEF RingInv, TypeOK
<1>2. ASSUME NEW frames \in BufferSizes, CaptureBegin(frames)
      PROVE  QueueInv'
  BY <1>2 DEF CaptureBegin, playback, QueueInv, OutputIsFilled
<1>3. CASE CaptureCopy
  BY <1>3 DEF CaptureCopy, playback, QueueInv, OutputIsFilled
<1>4. CASE CapturePublish
  BY <1>4 DEF CapturePublish, playback, QueueInv, OutputIsFilled
<1>5. ASSUME NEW requested \in RequestSizes, PlaybackBegin(requested)
      PROVE  QueueInv'
  <2>1. /\ captured' = captured
        /\ output' = <<>>
        /\ playPc' # "copy" => readableFrames' = 0
    BY <1>5 DEF PlaybackBegin
  <2> QED
    BY <2>1 DEF QueueInv, OutputIsFilled
<1>6. CASE PlaybackCopy
  <2>1. /\ captured' = captured
        /\ readableFrames' = readableFrames
        /\ output' = ReadData(readIndex, readableFrames)
    BY <1>6 DEF PlaybackCopy
  <2>2. Len(output') = readableFrames
    BY <1>1, <2>1 DEF ReadData
  <2> QED
    BY <1>1, <2>1, <2>2 DEF QueueInv, OutputIsFilled
<1>7. CASE PlaybackUpdate
  BY <1>7 DEF PlaybackUpdate, QueueInv, OutputIsFilled
<1>8. CASE PlaybackPad
  <2> DEFINE silence == [k \in 1 .. requestedFrames - readableFrames |-> 0]
  <2>1. silence \in Seq(Nat)
    BY <1>1
  <2>2. /\ captured' = captured
        /\ readableFrames' = readableFrames
        /\ output' = output \o silence
        /\ readableFrames <= Len(output)
    BY <1>8 DEF PlaybackPad, QueueInv, OutputIsFilled
  <2> HIDE DEF silence
  <2>3. Len(output') = Len(output) + Len(silence)
    BY <1>1, <2>1, <2>2
  <2>4. Len(output) \in Nat /\ Len(silence) \in Nat
    BY <1>1, <2>1
  <2> QED
    BY <1>1, <2>2, <2>3, <2>4 DEF QueueInv, OutputIsFilled
<1>9. CASE UNCHANGED vars
  BY <1>9 DEF vars, playback, QueueInv, OutputIsFilled
<1> QED
  BY <1>2, <1>3, <1>4, <1>5, <1>6, <1>7, <1>8, <1>9
     DEF Next, Capture, Playback

-----------------------------------------------------------------------------
(* After the copy and before the read index moves, the queue begins behind *)
(* the frames that were copied.                                            *)
LEMMA RingInvMeansQueueIsBacklog == Unbroken /\ RingInv => QueueIsBacklog
<1> SUFFICES ASSUME Unbroken, RingInv
             PROVE  QueueIsBacklog
  OBVIOUS
<1> DEFINE n == backlog - played
<1>1. /\ backlog \in 0..Capacity
      /\ writeindex \in 0 .. IndexModulus - 1
      /\ readindex \in 0 .. IndexModulus - 1
      /\ \A k \in 0 .. Capacity - 1 : Stored(k) \in Nat
  BY BacklogFacts
<1>2. /\ played \in 0..Capacity /\ played <= backlog
      /\ firstUnread = IndexAdd(readindex, played)
  <2>1. CASE playPc = "update"
    <3>1. /\ readIndex = readindex /\ readableFrames \in 1..Capacity
          /\ readableFrames <= backlog
      BY <2>1, ReadFacts
    <3> QED
      BY <2>1, <3>1, CapacityAssumption DEF played, firstUnread
  <2>2. CASE playPc # "update"
    <3>1. IndexAdd(readindex, 0) = readindex
      BY <1>1, CapacityAssumption DEF IndexAdd
    <3> QED
      BY <1>1, <2>2, <3>1, CapacityAssumption DEF played, firstUnread
  <2> QED
    BY <2>1, <2>2
<1>3. IndexDiff(writeindex, firstUnread) = n
  <2>1. backlog <= Capacity
    BY <1>1, CapacityAssumption
  <2> QED
    BY <1>1, <1>2, <2>1, ConsumeTakes DEF backlog
<1>4. n \in 0..Capacity /\ played + n <= Capacity /\ played \in Nat
  BY <1>1, <1>2, CapacityAssumption
<1>5. queued = [k \in 1..n |-> ringStorage[SlotAfter(firstUnread, k - 1)]]
  BY <1>3 DEF queued, ReadData
<1> HIDE DEF n
<1>6. ASSUME NEW k \in 1..n
      PROVE  /\ ringStorage[SlotAfter(firstUnread, k - 1)] = Stored(played + (k - 1))
             /\ Stored(played + (k - 1)) \in Nat
  <2>1. /\ k - 1 \in Nat /\ played + (k - 1) < Capacity
        /\ played + (k - 1) \in 0 .. Capacity - 1
    BY <1>4, CapacityAssumption
  <2>2. SlotAfter(firstUnread, k - 1) = SlotAfter(readindex, played + (k - 1))
    BY <1>1, <1>2, <2>1, BacklogIsUnbroken, SlotAfterAdvance
  <2> QED
    BY <1>1, <2>1, <2>2 DEF Stored
<1>7. queued \in [1..n -> Nat]
  BY <1>5, <1>6
<1>8. queued \in Seq(Nat) /\ Len(queued) = n
  BY <1>4, <1>7
<1>9. ASSUME NEW k \in played .. backlog - 1
      PROVE  queued[k + 1 - played] = Stored(k)
  <2>1. PICK j \in 1..n : j = k + 1 - played
    BY <1>1, <1>4 DEF n
  <2>2. queued[j] = Stored(played + (j - 1))
    BY <1>5, <1>6
  <2>3. played + (j - 1) = k
    BY <1>4, <2>1
  <2> QED
    BY <2>1, <2>2, <2>3
<1> QED
  BY <1>8, <1>9 DEF QueueIsBacklog, n

-----------------------------------------------------------------------------
(* Each step is one of the queue                                           *)

SimInv == RingInv /\ OrderInv /\ QueueInv /\ QueueIsBacklog

LEMMA PlayedFacts ==
  ASSUME RingInv
  PROVE  played \in Nat /\ played <= backlog /\ backlog \in 0..Capacity
<1>1. backlog \in 0..Capacity
  BY BacklogFacts
<1>2. CASE playPc = "update"
  BY <1>1, <1>2, ReadFacts, CapacityAssumption DEF played
<1>3. CASE playPc # "update"
  BY <1>1, <1>3, CapacityAssumption DEF played
<1> QED
  BY <1>1, <1>2, <1>3

LEMMA CaptureBeginStutters ==
  ASSUME SimInv, SimInv', NEW frames \in BufferSizes, CaptureBegin(frames)
  PROVE  UNCHANGED Queue!vars
<1>1. UNCHANGED <<writeindex, readindex, ringStorage, playback, newest>>
  BY DEF CaptureBegin
<1>2. /\ queued' = queued
      /\ emitted' = emitted
  BY <1>1 DEF queued, firstUnread, emitted, ReadData, SlotAfter, SlotOf,
              IndexDiff, playback
<1> QED
  BY <1>1, <1>2 DEF Queue!vars

LEMMA CaptureCopyStutters ==
  ASSUME Unbroken, SimInv, SimInv', CaptureCopy
  PROVE  UNCHANGED Queue!vars
<1>1. UNCHANGED <<playback, newest>>
  BY DEF CaptureCopy
<1>2. emitted' = emitted /\ played' = played
  BY <1>1 DEF emitted, played, playback
<1>3. /\ backlog' = backlog
      /\ \A k \in 0 .. backlog - 1 : Stored(k)' = Stored(k)
  BY CaptureCopyStores DEF SimInv
<1>4. /\ played \in Nat /\ backlog \in Nat /\ played <= backlog
      /\ queued \in Seq(Nat) /\ Len(queued) = backlog - played
      /\ queued' \in Seq(Nat) /\ Len(queued') = backlog - played
      /\ \A k \in played .. backlog - 1 : queued[k + 1 - played] = Stored(k)
      /\ \A k \in played .. backlog - 1 : queued'[k + 1 - played] = Stored(k)'
  BY <1>2, <1>3, PlayedFacts, CapacityAssumption DEF SimInv, QueueIsBacklog
<1>5. queued' = queued
  <2>1. ASSUME NEW i \in 1 .. backlog - played
        PROVE  queued'[i] = queued[i]
    <3>1. PICK k \in played .. backlog - 1 : i = k + 1 - played /\ k \in 0 .. backlog - 1
      BY <1>4
    <3> QED
      BY <1>3, <1>4, <3>1
  <2> QED
    BY <1>4, <2>1, SeqEqual
<1> QED
  BY <1>1, <1>2, <1>5 DEF Queue!vars

LEMMA CapturePublishAccepts ==
  ASSUME SimInv, SimInv', CapturePublish
  PROVE  \E first \in newest + 1 .. MaxFrames : \E n \in 1..Capacity :
           Queue!Accept(first, n)
<1> DEFINE n == blockFrames
           first == inputBase + inputOffset + 1
           block == [k \in 1..n |-> first + k - 1]
<1>1. /\ capPc = "publish"
      /\ writeindex' = IndexAdd(writeIndex, n)
      /\ newest' = inputBase + inputOffset + n
      /\ UNCHANGED <<readindex, ringStorage, playback>>
  BY DEF CapturePublish
<1>2. /\ writeIndex = writeindex /\ n \in 1..Capacity /\ n <= writableFrames
      /\ backlog + writableFrames <= Capacity /\ writableFrames \in Int
      /\ inputBase \in Nat /\ inputOffset \in Nat /\ newest \in Nat
      /\ captured \in Nat /\ first \in Nat
  <2>1. /\ inputBase \in Nat /\ inputOffset \in Nat /\ newest \in Nat
        /\ captured \in Nat /\ writableFrames \in Int /\ RingInv
    BY DEF SimInv, RingInv, TypeOK
  <2>2. first \in Nat
    BY <2>1
  <2> HIDE DEF first
  <2> QED
    BY <1>1, <2>1, <2>2, BlockFacts
<1>3. /\ writeindex \in 0 .. IndexModulus - 1
      /\ readindex \in 0 .. IndexModulus - 1
      /\ played \in Nat /\ played <= backlog /\ backlog \in 0..Capacity
  BY BacklogFacts, PlayedFacts DEF SimInv
<1>4. /\ newest <= inputBase + inputOffset
      /\ inputBase + inputOffset + writableFrames <= captured
      /\ captured <= MaxFrames
      /\ \A k \in 0 .. n - 1 : Stored(backlog + k) = inputBase + inputOffset + 1 + k
  BY <1>1 DEF SimInv, QueueInv, OrderInv, InputIsNew, BlockIsStored
<1>5. /\ emitted' = emitted /\ played' = played
      /\ \A k \in Int : Stored(k)' = Stored(k)
  BY <1>1 DEF emitted, played, playback, Stored, SlotAfter, SlotOf
<1>6. first \in newest + 1 .. MaxFrames
  BY <1>2, <1>4, SizesAssumption
<1>7. n \in 0..Capacity /\ n \in Nat /\ backlog + n <= Capacity
  BY <1>2, <1>3, CapacityAssumption
<1> HIDE DEF n
<1>8. backlog' = backlog + n
  BY <1>1, <1>2, <1>3, <1>7, CapacityAssumption, PublishAdds DEF backlog
<1>9. block \in Seq(Nat) /\ Len(block) = n
      /\ \A k \in 1..n : block[k] = first + k - 1
  BY <1>2, <1>7
<1> HIDE DEF block
<1>10. /\ queued \in Seq(Nat) /\ Len(queued) = backlog - played
       /\ queued' \in Seq(Nat) /\ Len(queued') = backlog + n - played
       /\ \A k \in played .. backlog - 1 : queued[k + 1 - played] = Stored(k)
       /\ \A k \in played .. backlog + n - 1 : queued'[k + 1 - played] = Stored(k)'
  <2>1. /\ queued \in Seq(Nat) /\ Len(queued) = backlog - played
        /\ \A k \in played .. backlog - 1 : queued[k + 1 - played] = Stored(k)
    BY DEF SimInv, QueueIsBacklog
  <2>2. /\ queued' \in Seq(Nat) /\ Len(queued') = backlog' - played'
        /\ \A k \in played' .. backlog' - 1 :
             queued'[k + 1 - played'] = Stored(k)'
    BY DEF SimInv, QueueIsBacklog
  <2>3. /\ backlog' = backlog + n /\ played' = played
        /\ backlog \in Int /\ played \in Int /\ n \in Int
    <3>1. backlog \in Int /\ played \in Int /\ n \in Int
      BY <1>3, <1>7, CapacityAssumption
    <3> QED
      BY <1>5, <1>8, <3>1
  <2>4. Len(queued') = backlog + n - played
    BY <2>2, <2>3
  <2>5. ASSUME NEW k \in played .. backlog + n - 1
        PROVE  queued'[k + 1 - played] = Stored(k)'
    <3>1. k \in played' .. backlog' - 1
      BY <2>3
    <3>2. queued'[k + 1 - played'] = Stored(k)'
      BY <2>2, <3>1
    <3> QED
      BY <2>3, <3>2
  <2> QED
    BY <2>1, <2>2, <2>4, <2>5
<1>11. queued' = queued \o block
  <2>1. /\ queued \o block \in Seq(Nat)
        /\ Len(queued \o block) = backlog + n - played
        /\ \A k \in 1 .. backlog + n - played :
             (queued \o block)[k] = IF k <= backlog - played THEN queued[k]
                                    ELSE block[k - (backlog - played)]
    <3>1. Len(queued) + Len(block) = backlog + n - played
      BY <1>3, <1>7, <1>9, <1>10
    <3>2. /\ queued \o block \in Seq(Nat)
          /\ Len(queued \o block) = Len(queued) + Len(block)
          /\ \A k \in 1 .. Len(queued) + Len(block) :
               (queued \o block)[k] = IF k <= Len(queued) THEN queued[k]
                                      ELSE block[k - Len(queued)]
      <4>1. queued \in Seq(Nat) /\ block \in Seq(Nat)
        BY <1>9, <1>10
      <4> QED
        BY <4>1, ConcatProperties
    <3> QED
      BY <1>10, <3>1, <3>2
  <2>2. ASSUME NEW i \in 1 .. backlog + n - played
        PROVE  queued'[i] = (queued \o block)[i]
    <3>1. PICK k \in played .. backlog + n - 1 : i = k + 1 - played /\ k \in Int
      BY <1>3, <1>7
    <3>2. queued'[i] = Stored(k)
      BY <1>5, <1>10, <3>1
    <3>3. CASE k < backlog
      <4>1. k \in played .. backlog - 1 /\ i <= backlog - played
        BY <1>3, <3>1, <3>3
      <4> QED
        BY <1>10, <2>1, <3>1, <3>2, <4>1
    <3>4. CASE k >= backlog
      <4>1. PICK j \in 1..n : j = i - (backlog - played)
        BY <1>3, <1>7, <3>1, <3>4
      <4>2. block[j] = inputBase + inputOffset + j
        BY <1>2, <1>7, <1>9
      <4>3. j - 1 \in 0 .. n - 1 /\ k = backlog + (j - 1)
        BY <1>3, <1>7, <3>1, <4>1
      <4>4. Stored(k) = inputBase + inputOffset + 1 + (j - 1)
        BY <1>4, <4>3
      <4>5. Stored(k) = inputBase + inputOffset + j
        BY <1>2, <1>7, <4>4
      <4>6. ~(i <= backlog - played)
        BY <1>3, <1>7, <4>1
      <4> QED
        BY <2>1, <3>2, <4>1, <4>2, <4>5, <4>6
    <3>5. k < backlog \/ k >= backlog
      BY <1>3, <3>1, CapacityAssumption
    <3> QED
      BY <3>3, <3>4, <3>5
  <2> QED
    BY <1>10, <2>1, <2>2, SeqEqual
<1>12. /\ Len(queued) + n <= Capacity
       /\ newest' = first + n - 1
  BY <1>1, <1>2, <1>3, <1>7, <1>10, CapacityAssumption
<1>13. Queue!Accept(first, n)
  BY <1>5, <1>11, <1>12 DEF Queue!Accept, block
<1> QED
  BY <1>2, <1>6, <1>13
LEMMA PlaybackBeginRequests ==
  ASSUME SimInv, NEW requested \in RequestSizes, PlaybackBegin(requested)
  PROVE  Queue!Request
<1>1. /\ playPc = "idle" /\ playPc' \in {"copy", "pad"}
      /\ playPc' = "pad" => readableFrames' = 0
      /\ output' = <<>>
      /\ UNCHANGED <<writeindex, readindex, ringStorage, newest>>
  BY DEF PlaybackBegin
<1>2. queued' = queued
  BY <1>1 DEF queued, firstUnread, ReadData, SlotAfter, SlotOf, IndexDiff
<1>3. emitted' = <<>>
  <2>1. CASE playPc' = "copy"
    BY <2>1 DEF emitted
  <2>2. CASE playPc' = "pad"
    <3>1. SubSeq(output', 1, 0) = <<>>
      BY SubSeqEmpty
    <3> QED
      BY <1>1, <2>2, <3>1 DEF emitted
  <2> QED
    BY <1>1, <2>1, <2>2
<1> QED
  BY <1>1, <1>2, <1>3 DEF Queue!Request

LEMMA PlaybackCopyDelivers ==
  ASSUME SimInv, SimInv', PlaybackCopy
  PROVE  \E n \in 1..Len(queued) : Queue!Deliver(n)
<1> DEFINE n == readableFrames
           len == Len(queued)
<1>1. /\ n \in 1..Capacity /\ n <= backlog
      /\ DOMAIN output' = 1..n
      /\ \A j \in 1..n : output'[j] = Stored(j - 1)
  BY CopiedFrames DEF SimInv
<1>2. /\ playPc = "copy" /\ playPc' = "update"
      /\ UNCHANGED <<writeindex, readindex, ringStorage, readableFrames, newest>>
  BY DEF PlaybackCopy
<1>3. backlog \in Nat /\ n \in Nat /\ n >= 1
  BY <1>1, BacklogFacts, CapacityAssumption DEF SimInv
<1>4. /\ played = 0 /\ played' = n /\ backlog' = backlog
      /\ \A k \in Int : Stored(k)' = Stored(k)
  BY <1>2 DEF played, backlog, Stored, SlotAfter, SlotOf, IndexDiff
<1>5. /\ queued \in Seq(Nat) /\ len = backlog
      /\ \A k \in 0 .. backlog - 1 : queued[k + 1] = Stored(k)
  <2>1. /\ queued \in Seq(Nat) /\ len = backlog - played
        /\ \A k \in played .. backlog - 1 : queued[k + 1 - played] = Stored(k)
    BY DEF SimInv, QueueIsBacklog
  <2> HIDE DEF len
  <2> QED
    BY <1>3, <1>4, <2>1
<1>6. /\ queued' \in Seq(Nat) /\ Len(queued') = backlog - n
      /\ \A k \in n .. backlog - 1 : queued'[k + 1 - n] = Stored(k)
  <2>1. /\ queued' \in Seq(Nat) /\ Len(queued') = backlog' - played'
        /\ \A k \in played' .. backlog' - 1 :
             queued'[k + 1 - played'] = Stored(k)'
    BY DEF SimInv, QueueIsBacklog
  <2> HIDE DEF n
  <2> QED
    BY <1>3, <1>4, <2>1
<1> HIDE DEF n, len
<1>7. ASSUME NEW i \in 1..len
      PROVE  queued[i] = Stored(i - 1) /\ queued[i] \in Nat
  <2>1. PICK k \in 0 .. backlog - 1 : i = k + 1 /\ i - 1 = k
    BY <1>3, <1>5
  <2> QED
    BY <1>5, <2>1 DEF len
<1>8. output' \in Seq(Nat) /\ Len(output') = n
  <2>1. output' \in Seq(Nat)
    BY DEF SimInv, RingInv, TypeOK
  <2> QED
    BY <1>1, <1>3, <2>1
<1>9. emitted' = SubSeq(queued, 1, n)
  <2>1. /\ SubSeq(output', 1, n) \in Seq(Nat) /\ Len(SubSeq(output', 1, n)) = n
        /\ \A i \in 1..n : SubSeq(output', 1, n)[i] = output'[i]
    <3>1. \A i \in 1..n : output'[i] \in Nat
      BY <1>3, <1>8
    <3>2. \A i \in 1..n : 1 + i - 1 = i
      BY <1>3
    <3> QED
      BY <1>3, <3>1, <3>2, SubSeqProperties
  <2>2. /\ SubSeq(queued, 1, n) \in Seq(Nat) /\ Len(SubSeq(queued, 1, n)) = n
        /\ \A i \in 1..n : SubSeq(queued, 1, n)[i] = queued[i]
    <3>1. \A i \in 1..n : queued[i] \in Nat
      BY <1>1, <1>3, <1>5, <1>7
    <3>2. \A i \in 1..n : 1 + i - 1 = i
      BY <1>3
    <3> QED
      BY <1>3, <3>1, <3>2, SubSeqProperties
  <2>3. \A i \in 1..n : output'[i] = queued[i]
    BY <1>1, <1>3, <1>5, <1>7
  <2>4. SubSeq(output', 1, n) = SubSeq(queued, 1, n)
    BY <2>1, <2>2, <2>3, SeqEqual
  <2>5. emitted' = SubSeq(output', 1, n)
    BY <1>2 DEF emitted, n
  <2> QED
    BY <2>4, <2>5
<1>10. queued' = SubSeq(queued, n + 1, len)
  <2> DEFINE rest == SubSeq(queued, n + 1, len)
  <2>1. /\ rest \in Seq(Nat) /\ Len(rest) = backlog - n
        /\ \A i \in 1 .. backlog - n : rest[i] = queued[n + i]
    <3>1. \A i \in n + 1 .. len : queued[i] \in Nat
      BY <1>3, <1>7
    <3>2. /\ len \in Int /\ n + 1 \in Int
          /\ len - (n + 1) + 1 = backlog - n
          /\ ~(n + 1 <= len) => backlog - n = 0
          /\ \A i \in 1 .. backlog - n : n + 1 + i - 1 = n + i
      BY <1>1, <1>3, <1>5
    <3>3. /\ rest \in Seq(Nat)
          /\ Len(rest) = IF n + 1 <= len THEN len - (n + 1) + 1 ELSE 0
          /\ \A i \in 1 .. len - (n + 1) + 1 : rest[i] = queued[n + 1 + i - 1]
      BY <3>1, <3>2, SubSeqProperties
    <3> HIDE DEF rest
    <3> QED
      BY <3>2, <3>3
  <2> HIDE DEF rest
  <2>2. ASSUME NEW i \in 1 .. backlog - n
        PROVE  queued'[i] = rest[i]
    <3>1. PICK k \in n .. backlog - 1 : i = k + 1 - n /\ k = n + i - 1
      BY <1>3
    <3>2. queued'[i] = Stored(k)
      BY <1>6, <3>1
    <3>3. n + i \in 1..len /\ (n + i) - 1 = k
      BY <1>3, <1>5, <3>1
    <3>4. queued[n + i] = Stored(k)
      BY <1>7, <3>3
    <3> QED
      BY <2>1, <3>2, <3>4
  <2>3. queued' = rest
    BY <1>6, <2>1, <2>2, SeqEqual
  <2> QED
    BY <2>3 DEF rest
<1>11. Queue!Deliver(n)
  BY <1>2, <1>9, <1>10 DEF Queue!Deliver, len
<1>12. n \in 1..Len(queued)
  BY <1>1, <1>3, <1>5 DEF len
<1> QED
  BY <1>11, <1>12

LEMMA PlaybackUpdateStutters ==
  ASSUME Unbroken, SimInv, SimInv', PlaybackUpdate
  PROVE  UNCHANGED Queue!vars
<1> DEFINE n == readableFrames
<1>1. /\ playPc = "update" /\ playPc' = "pad"
      /\ UNCHANGED <<readableFrames, output, newest>>
  BY DEF PlaybackUpdate
<1>2. emitted' = emitted
  BY <1>1 DEF emitted
<1>3. /\ n \in 1..Capacity /\ n <= backlog
      /\ backlog' = backlog - n
      /\ \A k \in Nat : n + k < Capacity => Stored(k)' = Stored(n + k)
  BY PlaybackUpdateRenumbers DEF SimInv
<1>4. /\ backlog \in Nat /\ backlog <= Capacity /\ n \in Nat
      /\ Capacity \in Nat
  BY <1>3, BacklogFacts, CapacityAssumption DEF SimInv
<1>5. played = n /\ played' = 0
  BY <1>1 DEF played
<1>6. /\ queued \in Seq(Nat) /\ Len(queued) = backlog - n
      /\ \A k \in n .. backlog - 1 : queued[k + 1 - n] = Stored(k)
  <2>1. /\ queued \in Seq(Nat) /\ Len(queued) = backlog - played
        /\ \A k \in played .. backlog - 1 : queued[k + 1 - played] = Stored(k)
    BY DEF SimInv, QueueIsBacklog
  <2> HIDE DEF n
  <2> QED
    BY <1>4, <1>5, <2>1
<1>7. /\ queued' \in Seq(Nat) /\ Len(queued') = backlog - n
      /\ \A k \in 0 .. backlog - n - 1 : queued'[k + 1] = Stored(k)'
  <2>1. /\ queued' \in Seq(Nat) /\ Len(queued') = backlog' - played'
        /\ \A k \in played' .. backlog' - 1 :
             queued'[k + 1 - played'] = Stored(k)'
    BY DEF SimInv, QueueIsBacklog
  <2> HIDE DEF n
  <2> QED
    BY <1>3, <1>4, <1>5, <2>1
<1> HIDE DEF n
<1>8. ASSUME NEW i \in 1 .. backlog - n
      PROVE  queued'[i] = queued[i]
  <2>1. PICK k \in 0 .. backlog - n - 1 : i = k + 1
    BY <1>4
  <2>2. /\ k \in Nat /\ n + k < Capacity
        /\ n + k \in n .. backlog - 1 /\ (n + k) + 1 - n = i
    BY <1>4, <2>1
  <2>3. queued'[i] = Stored(n + k)
    BY <1>3, <1>7, <2>1, <2>2
  <2>4. queued[(n + k) + 1 - n] = Stored(n + k)
    BY <1>6, <2>2
  <2> QED
    BY <2>2, <2>3, <2>4
<1>9. queued' = queued
  BY <1>6, <1>7, <1>8, SeqEqual
<1> QED
  BY <1>1, <1>2, <1>9 DEF Queue!vars

LEMMA PrefixProperties ==
  ASSUME NEW s \in Seq(Nat), NEW n \in 0 .. Len(s)
  PROVE  /\ SubSeq(s, 1, n) \in Seq(Nat)
         /\ Len(SubSeq(s, 1, n)) = n
         /\ \A i \in 1..n : SubSeq(s, 1, n)[i] = s[i]
<1>1. /\ Len(s) \in Nat /\ n \in Nat /\ n <= Len(s)
      /\ \A i \in 1 .. Len(s) : s[i] \in Nat
  OBVIOUS
<1>2. SubSeq(s, 1, n) = [i \in 1..n |-> s[i]]
  BY <1>1
<1>3. \A i \in 1..n : s[i] \in Nat
  BY <1>1
<1> QED
  BY <1>1, <1>2, <1>3

LEMMA PlaybackPadStutters ==
  ASSUME SimInv, PlaybackPad
  PROVE  UNCHANGED Queue!vars
<1> DEFINE n == readableFrames
           silence == [k \in 1 .. requestedFrames - n |-> 0]
<1>1. /\ playPc = "pad" /\ playPc' = "idle"
      /\ output' = output \o silence
      /\ UNCHANGED <<writeindex, readindex, ringStorage, readableFrames, newest>>
  BY DEF PlaybackPad
<1>2. /\ output \in Seq(Nat) /\ n \in Nat /\ requestedFrames - n \in Nat
      /\ n <= Len(output)
  BY <1>1 DEF SimInv, RingInv, TypeOK, QueueInv, OutputIsFilled
<1>3. silence \in Seq(Nat) /\ Len(silence) \in Nat
  BY <1>2
<1>4. queued' = queued
  BY <1>1 DEF queued, firstUnread, ReadData, SlotAfter, SlotOf, IndexDiff
<1> HIDE DEF silence
<1>5. emitted = SubSeq(output, 1, n) /\ emitted' = SubSeq(output', 1, n)
  BY <1>1 DEF emitted
<1> HIDE DEF n
<1>6. /\ output \in Seq(Nat) /\ n \in 0 .. Len(output)
      /\ output' \in Seq(Nat) /\ n \in 0 .. Len(output')
      /\ \A i \in 1..n : output'[i] = output[i]
  <2>1. Len(output) \in Nat
    BY <1>2
  <2>2. /\ output' \in Seq(Nat)
        /\ Len(output') = Len(output) + Len(silence)
        /\ \A i \in 1 .. Len(output) + Len(silence) :
             output'[i] = IF i <= Len(output) THEN output[i]
                          ELSE silence[i - Len(output)]
    <3>1. output \in Seq(Nat) /\ silence \in Seq(Nat) /\ output' = output \o silence
      BY <1>1, <1>2, <1>3
    <3> QED
      BY <3>1, ConcatProperties
  <2>3. n \in 0 .. Len(output) /\ n \in 0 .. Len(output')
    BY <1>2, <1>3, <2>1, <2>2
  <2>4. ASSUME NEW i \in 1..n
        PROVE  output'[i] = output[i]
    <3>1. i <= Len(output) /\ i \in 1 .. Len(output) + Len(silence)
      BY <1>2, <1>3, <2>1
    <3> QED
      BY <2>2, <3>1
  <2> QED
    BY <1>2, <2>2, <2>3, <2>4
<1>7. /\ SubSeq(output, 1, n) \in Seq(Nat)
      /\ Len(SubSeq(output, 1, n)) = n
      /\ \A i \in 1..n : SubSeq(output, 1, n)[i] = output[i]
      /\ SubSeq(output', 1, n) \in Seq(Nat)
      /\ Len(SubSeq(output', 1, n)) = n
      /\ \A i \in 1..n : SubSeq(output', 1, n)[i] = output'[i]
  BY <1>6, PrefixProperties
<1>8. SubSeq(output', 1, n) = SubSeq(output, 1, n)
  BY <1>6, <1>7, SeqEqual
<1> QED
  BY <1>1, <1>4, <1>5, <1>8 DEF Queue!vars
-----------------------------------------------------------------------------
LEMMA InitIsQueueInit == Init => QueueInv /\ Queue!Init
<1> SUFFICES ASSUME Init
             PROVE  QueueInv /\ Queue!Init
  OBVIOUS
<1>1. QueueInv
  BY SizesAssumption DEF Init, QueueInv, OutputIsFilled
<1>2. newest = 0
  BY DEF Init
<1>3. queued = <<>>
  <2>1. firstUnread = 0 /\ IndexDiff(writeindex, firstUnread) = 0
    BY CapacityAssumption DEF Init, firstUnread, IndexDiff
  <2>2. queued = [k \in 1..0 |-> ringStorage[SlotAfter(0, k - 1)]]
    BY <2>1 DEF queued, ReadData
  <2>3. 1..0 = {}
    OBVIOUS
  <2> QED
    BY <2>2, <2>3
<1>4. emitted = <<>>
  <2>1. emitted = SubSeq(output, 1, 0)
    BY DEF Init, emitted
  <2> QED
    BY <2>1, SubSeqEmpty
<1> QED
  BY <1>1, <1>2, <1>3, <1>4 DEF Queue!Init

LEMMA NextIsQueueNext ==
  Unbroken /\ SimInv /\ SimInv' /\ [Next]_vars => [Queue!Next]_Queue!vars
<1> SUFFICES ASSUME Unbroken, SimInv, SimInv', [Next]_vars
             PROVE  Queue!Next \/ UNCHANGED Queue!vars
  OBVIOUS
<1>1. ASSUME NEW frames \in BufferSizes, CaptureBegin(frames)
      PROVE  UNCHANGED Queue!vars
  BY <1>1, CaptureBeginStutters
<1>2. CASE CaptureCopy
  BY <1>2, CaptureCopyStutters
<1>3. CASE CapturePublish
  BY <1>3, CapturePublishAccepts DEF Queue!Next
<1>4. ASSUME NEW requested \in RequestSizes, PlaybackBegin(requested)
      PROVE  Queue!Next
  BY <1>4, PlaybackBeginRequests DEF Queue!Next
<1>5. CASE PlaybackCopy
  BY <1>5, PlaybackCopyDelivers DEF Queue!Next
<1>6. CASE PlaybackUpdate
  BY <1>6, PlaybackUpdateStutters
<1>7. CASE PlaybackPad
  BY <1>7, PlaybackPadStutters
<1>8. CASE UNCHANGED vars
  BY <1>8
     DEF vars, capture, playback, Queue!vars, queued, firstUnread, emitted,
         ReadData, SlotAfter, SlotOf, IndexDiff
<1> QED
  BY <1>1, <1>2, <1>3, <1>4, <1>5, <1>6, <1>7, <1>8
     DEF Next, Capture, Playback

(* The two lock-free callbacks on the shared ring are a bounded first-in   *)
(* first-out queue, for every aligned capacity and for any other up to the *)
(* first wrap: every accepted frame is delivered once, unaltered and in    *)
(* order, and at most a capacity of frames waits.                          *)
THEOREM RingImplementsQueue == SlotsFollow => (Spec => RefinesQueue)
<1> SUFFICES ASSUME SlotsFollow
             PROVE  Spec => RefinesQueue
  OBVIOUS
<1>1. Init => OrderInv /\ QueueInv /\ Queue!Init
  BY InitEstablishesOrderInv, InitIsQueueInit
<1>2. Unbroken /\ RingInv /\ OrderInv /\ QueueInv /\ [Next]_vars
        => OrderInv' /\ QueueInv'
  BY NextKeepsOrderInv, NextKeepsQueueInv
<1>3. Unbroken /\ RingInv => QueueIsBacklog
  BY RingInvMeansQueueIsBacklog
<1>4. /\ Unbroken /\ RingInv /\ OrderInv /\ QueueInv /\ QueueIsBacklog
      /\ RingInv' /\ OrderInv' /\ QueueInv' /\ QueueIsBacklog'
      /\ [Next]_vars
      => [Queue!Next]_Queue!vars
  BY NextIsQueueNext DEF SimInv
<1> QED
  BY <1>1, <1>2, <1>3, <1>4, SpecImpliesUnbroken, SpecImpliesRingInv, PTL
     DEF Spec, RefinesQueue, Queue!Spec
=============================================================================
