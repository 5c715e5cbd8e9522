-------------------------------- MODULE Fifo --------------------------------
(***************************************************************************)
(* What audio_vbuffer promises: a bounded first-in first-out queue of      *)
(* audio frames between a writer and a reader.  A write moves a prefix of  *)
(* the caller's frames to the queue and falls short only on a full queue;  *)
(* a read moves the oldest frames to the caller and falls short only on an *)
(* empty queue.  Frames move in chunks of any size.                        *)
(***************************************************************************)
EXTENDS Integers, Sequences

CONSTANTS frame_count,   \* frames the buffer holds
          Frames,        \* frame contents
          MaxRequest     \* bound: frames of one read or write call

VARIABLES src,     \* frames the current write has still to move
          queue,   \* frames in the buffer, oldest first
          want,    \* frames the current read has still to move
          dst,     \* frames the current read has moved
          writing, reading  \* is a write (a read) call in progress?

fifoVars == <<src, queue, want, dst, writing, reading>>

Requests == UNION {[1 .. n -> Frames] : n \in 0 .. MaxRequest}

FifoInit ==
  /\ src = <<>> /\ queue = <<>> /\ dst = <<>> /\ want = 0
  /\ writing = FALSE /\ reading = FALSE

CallWrite ==
  /\ ~writing /\ ~reading
  /\ writing' = TRUE
  /\ src' \in Requests
  /\ UNCHANGED <<queue, want, dst, reading>>

Enqueue ==
  /\ writing
  /\ \E n \in 1 .. Len(src) :
       /\ Len(queue) + n <= frame_count
       /\ queue' = queue \o SubSeq(src, 1, n)
       /\ src' = SubSeq(src, n + 1, Len(src))
  /\ UNCHANGED <<want, dst, writing, reading>>

\* The frames left in src are the ones the caller is told were not written.
ReturnWrite ==
  /\ writing
  /\ src = <<>> \/ Len(queue) = frame_count
  /\ writing' = FALSE
  /\ src' = <<>>
  /\ UNCHANGED <<queue, want, dst, reading>>

CallRead ==
  /\ ~reading /\ ~writing
  /\ reading' = TRUE
  /\ want' \in 0 .. MaxRequest
  /\ dst' = <<>>
  /\ UNCHANGED <<src, queue, writing>>

Dequeue ==
  /\ reading
  /\ \E n \in 1 .. want :
       /\ n <= Len(queue)
       /\ dst' = dst \o SubSeq(queue, 1, n)
       /\ queue' = SubSeq(queue, n + 1, Len(queue))
       /\ want' = want - n
  /\ UNCHANGED <<src, writing, reading>>

ReturnRead ==
  /\ reading
  /\ want = 0 \/ queue = <<>>
  /\ reading' = FALSE
  /\ want' = 0
  /\ UNCHANGED <<src, queue, dst, writing>>

FifoNext == \/ CallWrite \/ Enqueue \/ ReturnWrite
            \/ CallRead \/ Dequeue \/ ReturnRead

FifoSpec == FifoInit /\ [][FifoNext]_fifoVars
=============================================================================
