----------------------------- MODULE FrameQueue -----------------------------
(***************************************************************************)
(* What the PipeWire backend promises about audio frames, whatever its     *)
(* ring buffer does: between the virtual sink (capture) and the hardware   *)
(* sink (playback) sits a bounded first-in first-out queue.  Captured      *)
(* frames carry increasing numbers.  A frame may be refused on entry; one  *)
(* that was accepted leaves exactly once, unaltered and in order.          *)
(***************************************************************************)
EXTENDS Integers, Sequences

CONSTANTS QueueBound, \* the most frames the queue may hold
          MaxFrames   \* bound: frames captured in a behaviour

VARIABLES queue,    \* numbers of the accepted frames that were not delivered
          newest,   \* number of the frame accepted last, 0 before the first
          emitted   \* frames delivered in the current playback cycle

vars == <<queue, newest, emitted>>

Init ==
  /\ queue = <<>>
  /\ newest = 0
  /\ emitted = <<>>

(* A run of n consecutive captured frames is accepted; the frames between  *)
(* `newest` and `first` were refused.                                      *)
Accept(first, n) ==
  /\ Len(queue) + n <= QueueBound
  /\ queue' = queue \o [k \in 1..n |-> first + k - 1]
  /\ newest' = first + n - 1
  /\ UNCHANGED emitted

(* A playback cycle starts with an empty output buffer.                    *)
Request ==
  /\ emitted' = <<>>
  /\ UNCHANGED <<queue, newest>>

(* The n oldest frames go to the output, in order.                         *)
Deliver(n) ==
  /\ emitted' = SubSeq(queue, 1, n)
  /\ queue' = SubSeq(queue, n + 1, Len(queue))
  /\ UNCHANGED newest

Next ==
  \/ \E first \in newest + 1 .. MaxFrames : \E n \in 1..QueueBound :
       Accept(first, n)
  \/ Request
  \/ \E n \in 1..Len(queue) : Deliver(n)

Spec == Init /\ [][Next]_vars
=============================================================================
