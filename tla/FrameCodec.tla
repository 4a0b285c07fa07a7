----------------------------- MODULE FrameCodec -----------------------------
(***************************************************************************)
(* Length-prefixed control frames (pkg/mesh/proto/codec.go) and the loop   *)
(* that reads them (startControlLoop in pkg/mesh/api/control.go).  The     *)
(* control stream is the sequence of units not yet read: a header unit     *)
(* carries a length, a byte unit one byte of a frame.  Lengths are scaled  *)
(* down: MaxFrameSize and the reader's budget are constants.  Any unit may *)
(* be read as a header once the reader has lost the frame boundary.        *)
(***************************************************************************)
EXTENDS Integers, Sequences

CONSTANTS MaxFrameSize,    \* codec.go, 256 KiB
          FrameBudget,     \* peerFrameBudget, 2 MiB
          FrameSizes,      \* the sizes of the frames that are written
          MaxFrames        \* bound on the number of frames written

ASSUME FrameAssumption ==
    /\ MaxFrameSize \in Nat \ {0} /\ FrameBudget \in Nat
    /\ FrameSizes \subseteq Nat /\ MaxFrames \in Nat

VARIABLES wire,        \* units written and not yet read
          sentFrames,        \* history: sizes of the frames WriteFrame was called with
          broken,      \* the stream failed: no more units will come
          memoryUsed,  \* FrameReader.memoryUsed
          expecting,   \* the header whose payload is being read, or NoFrame
          received,    \* history: the frames handed to the dispatcher
          reading      \* the control loop is still running

frameVars == <<wire, sentFrames, broken, memoryUsed, expecting, received, reading>>

Header(n) == [kind |-> "header", frame |-> Len(sentFrames) + 1, len |-> n]
NoFrame == [kind |-> "none", frame |-> 0, len |-> 0]
Byte == [kind |-> "byte", frame |-> Len(sentFrames) + 1, len |-> 0]

FrameInit ==
    /\ wire = <<>> /\ sentFrames = <<>> /\ received = <<>>
    /\ broken = FALSE /\ memoryUsed = 0 /\ reading = TRUE /\ expecting = NoFrame

(* Header and payload are two writes without a check of the size, and the  *)
(* connection may fail in the second one.  WriteRawFrame writes the same.  *)
WriteFrame(n) ==
    /\ ~broken /\ Len(sentFrames) < MaxFrames
    /\ sentFrames' = Append(sentFrames, n)
    /\ \/ /\ wire' = wire \o <<Header(n)>> \o [i \in 1..n |-> Byte]
          /\ UNCHANGED broken
       \/ /\ \E k \in 0..n : wire' = wire \o <<Header(n)>> \o [i \in 1..k |-> Byte]
          /\ broken' = TRUE
    /\ UNCHANGED <<memoryUsed, expecting, received, reading>>

(* io.ReadFull and io.CopyN take what is there when the stream is broken.  *)
Available(n) == Len(wire) >= n \/ broken
Take(n) == wire' = SubSeq(wire, n + 1, Len(wire))

(* Any error of ReadFrame ends the control loop and kills the peer. *)
ReadFails == reading' = FALSE /\ UNCHANGED <<received, memoryUsed, expecting>>

(* What a unit says when it is read as a header. *)
LengthOf(unit) == IF unit.kind = "header" THEN unit.len ELSE 0

ReadEOF ==
    /\ broken /\ wire = <<>> /\ expecting = NoFrame
    /\ ReadFails /\ UNCHANGED wire

(* The loop goes on after an oversized frame. *)
ReadOversized_Continues(n) ==
    /\ n > MaxFrameSize /\ Available(MaxFrameSize + 1)
    /\ Take(MaxFrameSize + 1)
    /\ UNCHANGED <<reading, received, memoryUsed, expecting>>

(* An oversized frame is drained only up to MaxFrameSize. *)
ReadOversized(n) ==
    /\ n > MaxFrameSize /\ Available(MaxFrameSize + 1)
    /\ Take(MaxFrameSize + 1)
    /\ ReadFails

(* A length of zero is an empty frame. *)
ReadEmpty(n) ==
    /\ n = 0
    /\ Take(1)
    /\ received' = Append(received, [frame |-> wire[1].frame, bytes |-> <<>>])
    /\ UNCHANGED <<reading, memoryUsed, expecting>>

ReadOverBudget(n) ==
    /\ n \in 1..MaxFrameSize /\ memoryUsed + n > FrameBudget /\ Available(n + 1)
    /\ Take(n + 1)
    /\ ReadFails

(* The budget is charged before the payload is read ... *)
ReadHeader(n) ==
    /\ n \in 1..MaxFrameSize /\ memoryUsed + n <= FrameBudget
    /\ memoryUsed' = memoryUsed + n
    /\ expecting' = wire[1]
    /\ Take(1)
    /\ UNCHANGED <<reading, received>>

(* ... and given back by a deferred call when the payload is there or the  *)
(* stream has failed; a pooled buffer is cut to the frame's length.        *)
ReadPayload ==
    LET n == expecting.len IN
    /\ expecting # NoFrame /\ Available(n)
    /\ memoryUsed' = memoryUsed - n
    /\ expecting' = NoFrame
    /\ Take(n)
    /\ IF Len(wire) >= n
       THEN /\ received' = Append(received, [frame |-> expecting.frame, bytes |-> SubSeq(wire, 1, n)])
            /\ UNCHANGED reading
       ELSE reading' = FALSE /\ UNCHANGED received

ReadFrame ==
    /\ reading
    /\ \/ ReadEOF
       \/ ReadPayload
       \/ /\ wire # <<>> /\ expecting = NoFrame
          /\ LET n == LengthOf(wire[1])
             IN  ReadOversized(n) \/ ReadEmpty(n) \/ ReadOverBudget(n) \/ ReadHeader(n)
    /\ UNCHANGED <<sentFrames, broken>>

FrameNext == ReadFrame \/ \E n \in FrameSizes : WriteFrame(n)

(* The dispatcher sees a prefix of the frames that were written, each with *)
(* its own bytes: whatever is oversized, over budget or cut off, the       *)
(* control loop never goes on with bytes of one frame read as another, and *)
(* the reader's budget is given back on every path of ReadFrame.           *)
FramesStayWhole ==
    /\ \A i \in 1..Len(received) :
         /\ received[i].frame = i /\ Len(received[i].bytes) = sentFrames[i]
         /\ \A j \in 1..sentFrames[i] : received[i].bytes[j].kind = "byte" /\ received[i].bytes[j].frame = i
    /\ expecting = NoFrame => memoryUsed = 0
=============================================================================
