---------------------------- MODULE ControlWriter ---------------------------
(***************************************************************************)
(* The outbound control plane of one peer connection                       *)
(* (pkg/mesh/api/async_writer.go and sendBootstrapReliable): goroutines    *)
(* put frames into a bounded channel without ever blocking, one writer     *)
(* goroutine drains it, and handlePeerDeath stops the writer. Sending on a *)
(* closed channel would crash the process; what prevents it is the order   *)
(* of writerStopped, close(writeCh) and the read-write lock writeMu.       *)
(***************************************************************************)
EXTENDS Naturals, Sequences

CONSTANTS
    Senders,    \* goroutines that call sendControl or sendControlRaw
    NumChunks,  \* bootstrap frames of the local resolver cache
    QueueSize,  \* controlWriteQueueSize
    MaxFrames   \* bound: frames offered by Senders

ASSUME WriterAssumption ==
    NumChunks \in Nat /\ QueueSize \in Nat \ {0} /\ MaxFrames \in Nat

Frame == 0                         \* any frame that is not a bootstrap chunk
Messages == 0..NumChunks           \* chunk i is the message i

VARIABLES
    writeCh,    \* the channel's buffer
    chClosed,   \* close(writeCh) has happened
    stopped,    \* writerStopped
    wlocked,    \* writeMu is write-locked
    sendPc,     \* sender -> "idle", or "locked": between RLock and the send
    offered,    \* frames Senders have tried to send
    bootPc,     \* sendBootstrapReliable
    chunk,      \* the chunk it is sending
    writerPc,   \* controlWriteLoop
    writing,    \* the message it is writing
    controlUp,  \* the control stream is open
    readerPc,   \* startControlLoop of this peer
    deathPc,    \* handlePeerDeath
    deadCh,     \* closed by closeDead
    ctxDone,    \* the node's context is cancelled
    received    \* chunks the peer has got, in order

sendVars == <<sendPc, offered, bootPc, chunk>>
vars == <<writeCh, chClosed, stopped, wlocked, sendVars, writerPc, writing,
          controlUp, readerPc, deathPc, deadCh, ctxDone, received>>

BootStates == {"try", "locked", "backoff", "done", "aborted"}
DeathStates == {"none", "spawned", "stopping", "locked", "unlocked", "waiting", "done"}

(* newPeerConnWithWriter, then initPeerControlPlane. *)
Init ==
    /\ writeCh = <<>> /\ chClosed = FALSE /\ stopped = FALSE /\ wlocked = FALSE
    /\ sendPc = [s \in Senders |-> "idle"] /\ offered = 0
    /\ bootPc = (IF NumChunks = 0 THEN "done" ELSE "try") /\ chunk = 1
    /\ writerPc = "range" /\ writing = Frame
    /\ controlUp = TRUE /\ readerPc = "reading"
    /\ deathPc = "none" /\ deadCh = FALSE /\ ctxDone = FALSE
    /\ received = <<>>

-----------------------------------------------------------------------------
(* select { case writeCh <- m: default: } *)
Full == Len(writeCh) >= QueueSize

(* sendControl / sendControlRaw: RLock, then the test of writerStopped. *)
SendLock(s) ==
    /\ sendPc[s] = "idle" /\ offered < MaxFrames /\ ~wlocked
    /\ offered' = offered + 1
    /\ sendPc' = IF stopped THEN sendPc ELSE [sendPc EXCEPT ![s] = "locked"]
    /\ UNCHANGED <<writeCh, chClosed, stopped, wlocked, bootPc, chunk, writerPc,
                   writing, controlUp, readerPc, deathPc, deadCh, ctxDone, received>>

(* The non-blocking send, then RUnlock. A full queue drops the frame. *)
Send(s) ==
    /\ sendPc[s] = "locked"
    /\ sendPc' = [sendPc EXCEPT ![s] = "idle"]
    /\ writeCh' = IF Full THEN writeCh ELSE Append(writeCh, Frame)
    /\ UNCHANGED <<chClosed, stopped, wlocked, offered, bootPc, chunk, writerPc,
                   writing, controlUp, readerPc, deathPc, deadCh, ctxDone, received>>

-----------------------------------------------------------------------------
unchangedByBoot == <<chClosed, stopped, wlocked, sendPc, offered, writerPc,
                     writing, controlUp, readerPc, deathPc, deadCh, ctxDone,
                     received>>

(* sendBootstrapReliable calls sendControl for the current chunk. *)
BootLock ==
    /\ bootPc = "try" /\ ~wlocked
    /\ bootPc' = IF stopped THEN "backoff" ELSE "locked"
    /\ UNCHANGED <<unchangedByBoot, writeCh, chunk>>

NextChunk == IF chunk = NumChunks THEN "done" ELSE "try"

BootSend_SkipsFailed ==
    /\ bootPc = "locked"
    /\ writeCh' = IF Full THEN writeCh ELSE Append(writeCh, chunk)
    /\ bootPc' = NextChunk
    /\ chunk' = IF chunk = NumChunks THEN chunk ELSE chunk + 1
    /\ UNCHANGED unchangedByBoot

BootSend ==
    /\ bootPc = "locked"
    /\ IF Full
       THEN bootPc' = "backoff" /\ UNCHANGED <<writeCh, chunk>>
       ELSE /\ writeCh' = Append(writeCh, chunk)
            /\ bootPc' = NextChunk
            /\ chunk' = IF chunk = NumChunks THEN chunk ELSE chunk + 1
    /\ UNCHANGED unchangedByBoot

BootRetry ==
    /\ bootPc = "backoff"
    /\ bootPc' = "try"
    /\ UNCHANGED <<unchangedByBoot, writeCh, chunk>>

(* <-pc.dead() or <-n.ctx.Done() *)
BootAbort ==
    /\ bootPc = "backoff" /\ (deadCh \/ ctxDone)
    /\ bootPc' = "aborted"
    /\ UNCHANGED <<unchangedByBoot, writeCh, chunk>>

-----------------------------------------------------------------------------
unchangedByWriter == <<chClosed, stopped, wlocked, sendVars, readerPc, deathPc,
                       deadCh, ctxDone>>

(* for msg := range writeCh *)
WriterTake ==
    /\ writerPc = "range" /\ writeCh # <<>>
    /\ writerPc' = "writing"
    /\ writing' = Head(writeCh)
    /\ writeCh' = Tail(writeCh)
    /\ UNCHANGED <<unchangedByWriter, controlUp, received>>

WriterRangeEnds ==
    /\ writerPc = "range" /\ writeCh = <<>> /\ chClosed
    /\ writerPc' = "exited"
    /\ UNCHANGED <<unchangedByWriter, writeCh, writing, controlUp, received>>

WriterWrites ==
    /\ writerPc = "writing" /\ controlUp
    /\ writerPc' = "range"
    /\ received' = IF writing = Frame THEN received ELSE Append(received, writing)
    /\ writing' = Frame
    /\ UNCHANGED <<unchangedByWriter, writeCh, controlUp>>

WriterFails_KeepsStream ==
    /\ writerPc = "writing"
    /\ writerPc' = "exited"
    /\ writing' = Frame
    /\ UNCHANGED <<unchangedByWriter, writeCh, controlUp, received>>

(* The stream is closed or controlWriteDeadline passes: close the stream so *)
(* that the control loop notices, and return.                              *)
WriterFails ==
    /\ writerPc = "writing"
    /\ writerPc' = "exited"
    /\ writing' = Frame
    /\ controlUp' = FALSE
    /\ UNCHANGED <<unchangedByWriter, writeCh, received>>

-----------------------------------------------------------------------------
unchangedByEvents == <<writeCh, chClosed, stopped, wlocked, sendVars, writerPc,
                       writing, received>>

(* The remote end hangs up. *)
Break ==
    /\ controlUp
    /\ controlUp' = FALSE
    /\ UNCHANGED <<unchangedByEvents, readerPc, deathPc, deadCh, ctxDone>>

DeathOnceDo == deathPc' = IF deathPc = "none" THEN "spawned" ELSE deathPc

(* startControlLoop: ReadFrame fails. *)
ReaderFails ==
    /\ readerPc = "reading" /\ ~controlUp
    /\ readerPc' = "exited"
    /\ DeathOnceDo
    /\ UNCHANGED <<unchangedByEvents, controlUp, deadCh, ctxDone>>

(* acceptDataStreams: the data session is gone (a connection of its own in *)
(* dual mode).                                                             *)
SessionFails ==
    /\ deathPc = "none"
    /\ DeathOnceDo
    /\ UNCHANGED <<unchangedByEvents, controlUp, readerPc, deadCh, ctxDone>>

(* handleBootstrapFrame with another protocol version: closeDead, no more. *)
VersionMismatch ==
    /\ readerPc = "reading" /\ ~deadCh
    /\ deadCh' = TRUE
    /\ UNCHANGED <<unchangedByEvents, controlUp, readerPc, deathPc, ctxDone>>

(* Node.Close *)
Cancel ==
    /\ ~ctxDone
    /\ ctxDone' = TRUE
    /\ UNCHANGED <<unchangedByEvents, controlUp, readerPc, deathPc, deadCh>>

-----------------------------------------------------------------------------
unchangedByDeath == <<writeCh, sendVars, writerPc, writing, readerPc, ctxDone,
                      received>>

(* handlePeerDeath: closeDead, peers.Remove, session.Close. *)
DeathBegins ==
    /\ deathPc = "spawned"
    /\ deathPc' = "stopping"
    /\ deadCh' = TRUE
    /\ UNCHANGED <<unchangedByDeath, chClosed, stopped, wlocked, controlUp>>

NobodySending == bootPc # "locked" /\ \A s \in Senders : sendPc[s] # "locked"

StopLock_NoMutex ==
    /\ deathPc = "stopping"
    /\ deathPc' = "locked"
    /\ wlocked' = TRUE
    /\ stopped' = TRUE
    /\ UNCHANGED <<unchangedByDeath, chClosed, deadCh, controlUp>>

(* stopWriter: writeMu.Lock (waits for the readers), writerStopped. *)
StopLock ==
    /\ deathPc = "stopping" /\ NobodySending
    /\ deathPc' = "locked"
    /\ wlocked' = TRUE
    /\ stopped' = TRUE
    /\ UNCHANGED <<unchangedByDeath, chClosed, deadCh, controlUp>>

StopCloseCh_LeavesOpen ==
    /\ deathPc = "locked"
    /\ deathPc' = "unlocked"
    /\ wlocked' = FALSE
    /\ UNCHANGED <<unchangedByDeath, chClosed, stopped, deadCh, controlUp>>

(* close(writeCh), writeMu.Unlock. *)
StopCloseCh ==
    /\ deathPc = "locked"
    /\ deathPc' = "unlocked"
    /\ chClosed' = TRUE
    /\ wlocked' = FALSE
    /\ UNCHANGED <<unchangedByDeath, stopped, deadCh, controlUp>>

(* control.Close *)
StopCloseStream ==
    /\ deathPc = "unlocked"
    /\ deathPc' = "waiting"
    /\ controlUp' = FALSE
    /\ UNCHANGED <<unchangedByDeath, chClosed, stopped, wlocked, deadCh>>

(* writerWg.Wait returns. *)
StopWait ==
    /\ deathPc = "waiting" /\ writerPc = "exited"
    /\ deathPc' = "done"
    /\ UNCHANGED <<unchangedByDeath, chClosed, stopped, wlocked, deadCh, controlUp>>

BootStep == BootLock \/ BootSend \/ BootRetry \/ BootAbort
WriterStep == WriterTake \/ WriterRangeEnds \/ WriterWrites \/ WriterFails
DeathStep == DeathBegins \/ StopLock \/ StopCloseCh \/ StopCloseStream \/ StopWait

Next ==
    \/ \E s \in Senders : SendLock(s) \/ Send(s)
    \/ BootStep \/ WriterStep \/ DeathStep
    \/ Break \/ ReaderFails \/ SessionFails \/ VersionMismatch \/ Cancel

Spec == Init /\ [][Next]_vars

(***************************************************************************)
(* Every goroutine makes progress; the abort cases of the bootstrap select *)
(* are taken when they stay ready. Nothing is assumed of the peer.         *)
(***************************************************************************)
WriterFairness ==
    /\ \A s \in Senders : WF_vars(Send(s))
    /\ WF_vars(BootStep) /\ SF_vars(BootAbort)
    /\ WF_vars(WriterStep) /\ WF_vars(DeathStep) /\ WF_vars(ReaderFails)

FairSpec == Spec /\ WriterFairness

-----------------------------------------------------------------------------
(***************************************************************************)
(* Properties                                                              *)
(***************************************************************************)

(* Type correctness; the queue never exceeds its capacity. *)
TypeOK ==
    /\ writeCh \in Seq(Messages) /\ Len(writeCh) <= QueueSize
    /\ chClosed \in BOOLEAN /\ stopped \in BOOLEAN /\ wlocked \in BOOLEAN
    /\ sendPc \in [Senders -> {"idle", "locked"}] /\ offered \in 0..MaxFrames
    /\ bootPc \in BootStates /\ chunk \in Nat
    /\ bootPc # "done" => chunk \in 1..NumChunks
    /\ writerPc \in {"range", "writing", "exited"} /\ writing \in Messages
    /\ controlUp \in BOOLEAN /\ readerPc \in {"reading", "exited"}
    /\ deathPc \in DeathStates /\ deadCh \in BOOLEAN /\ ctxDone \in BOOLEAN
    /\ received \in Seq(Messages)

(* No goroutine is about to send on the closed channel: sendControl,       *)
(* sendBootstrapReliable and stopWriter may interleave in any order.       *)
NoSendOnClosedChannel == chClosed => NobodySending

(* What is on its way: received, being written, queued. *)
Pipeline == received \o <<writing>> \o writeCh
Chunks == {Pipeline[i] : i \in 1..Len(Pipeline)} \ {Frame}

(* Chunks that sendBootstrapReliable has put into the queue. *)
SentChunks == IF bootPc = "done" THEN NumChunks ELSE chunk - 1

(* Retries, drops of other frames and the death of the peer never reorder, *)
(* skip or repeat a bootstrap chunk: while the writer lives, the chunks    *)
(* received, in flight and queued are the ones sent so far, in order.      *)
BootstrapInOrder ==
    /\ \A i \in 1..Len(received) : received[i] = i
    /\ writerPc # "exited" =>
         /\ Chunks = 1..SentChunks
         /\ \A i, j \in 1..Len(Pipeline) :
              i < j /\ Pipeline[i] # Frame /\ Pipeline[j] # Frame => Pipeline[i] < Pipeline[j]

(* A bootstrap that reports full delivery means it: every chunk arrives    *)
(* unless the connection dies.                                             *)
BootstrapDelivered ==
    bootPc = "done" ~> Len(received) = NumChunks \/ ~controlUp

(* The bootstrap goroutine never retries for ever: a write that fails      *)
(* closes the stream, the control loop notices, handlePeerDeath closes     *)
(* deadCh.                                                                 *)
BootstrapEnds == <>(bootPc \in {"done", "aborted"})

(* handlePeerDeath never hangs in writerWg.Wait, and after it nothing is   *)
(* queued any more.                                                        *)
WriterStops == deathPc = "spawned" ~> deathPc = "done" /\ writerPc = "exited"
=============================================================================
