------------------------------- MODULE VBuffer -------------------------------
(***************************************************************************)
(* audio_vbuffer: the ring buffer of frames between an audio stream's      *)
(* client and its worker thread.  A call takes the buffer's lock and moves *)
(* frames in contiguous chunks, one action per turn of its loop.           *)
(***************************************************************************)
EXTENDS Integers, Sequences

CONSTANTS frame_count, Frames, MaxRequest

ASSUME SizeAssumption ==
  /\ frame_count \in Nat \ {0}
  /\ MaxRequest \in Nat

VARIABLES data,               \* frame slots 0 .. frame_count - 1
          head, tail, live,   \* next slot to write, to read; frames held
          lock,               \* "free", or the call that holds it
          src,                \* write: the caller's frames not yet copied
          want, dst           \* read: frames still asked for, frames copied

vars == <<data, head, tail, live, lock, src, want, dst>>

Slots == 0 .. frame_count - 1
MIN(a, b) == IF a < b THEN a ELSE b

\* Mutant: a position wraps only beyond the end of the data.
AdvanceTooFar(pos, frames) ==
  IF pos + frames > frame_count THEN (pos + frames) % frame_count
  ELSE pos + frames

\* The slot frames after pos.
Advance(pos, frames) == (pos + frames) % frame_count

-----------------------------------------------------------------------------
\* audio_vbuffer_init: calloc clears the data.  Any frame stands for silence.
Init ==
  /\ \E f \in Frames : data = [s \in Slots |-> f]
  /\ head = 0 /\ tail = 0 /\ live = 0
  /\ lock = "free" /\ src = <<>> /\ want = 0 /\ dst = <<>>

\* audio_vbuffer_write: take the lock.
WriteBegin ==
  /\ lock = "free"
  /\ lock' = "write"
  /\ src' \in UNION {[1 .. n -> Frames] : n \in 0 .. MaxRequest}
  /\ UNCHANGED <<data, head, tail, live, want, dst>>

\* Mutant: the empty buffer is taken for a full one.
CanWriteForgetsEmpty == head # tail

\* Can the loop go on?  head = tail means full unless nothing is live.
CanWrite == live = 0 \/ head # tail

\* The size of the next chunk: up to the end of the data or up to the tail.
WriteFrames ==
  IF live = 0 \/ head > tail THEN MIN(Len(src), frame_count - head)
  ELSE MIN(Len(src), tail - head)

\* One turn of the loop.
WriteChunk ==
  /\ lock = "write" /\ src # <<>> /\ CanWrite
  /\ LET frames == WriteFrames
     IN /\ data' = [s \in Slots |-> IF head <= s /\ s < head + frames
                                    THEN src[s - head + 1] ELSE data[s]]
        /\ live' = live + frames
        /\ src' = SubSeq(src, frames + 1, Len(src))
        /\ head' = Advance(head, frames)
  /\ UNCHANGED <<tail, lock, want, dst>>

\* All frames copied, or the buffer is full: release the lock and return.
WriteEnd ==
  /\ lock = "write"
  /\ src = <<>> \/ ~CanWrite
  /\ lock' = "free"
  /\ src' = <<>>
  /\ UNCHANGED <<data, head, tail, live, want, dst>>

\* audio_vbuffer_read: take the lock.
ReadBegin ==
  /\ lock = "free"
  /\ lock' = "read"
  /\ want' \in 0 .. MaxRequest
  /\ dst' = <<>>
  /\ UNCHANGED <<data, head, tail, live, src>>

\* Can the loop go on?  head = tail means empty unless all is live.
CanRead == live = frame_count \/ head # tail

\* Mutant: one slot is kept between tail and head.
ReadFramesKeepsGap ==
  IF live = frame_count \/ tail > head THEN MIN(want, frame_count - tail)
  ELSE MIN(want, head - tail - 1)

\* The size of the next chunk: up to the end of the data or up to the head.
ReadFrames ==
  IF live = frame_count \/ tail > head THEN MIN(want, frame_count - tail)
  ELSE MIN(want, head - tail)

\* Mutant: live is not counted down.
ReadChunkKeepsLive ==
  /\ lock = "read" /\ want # 0 /\ CanRead
  /\ LET frames == ReadFrames
     IN /\ dst' = dst \o [i \in 1 .. frames |-> data[tail + i - 1]]
        /\ want' = want - frames
        /\ tail' = Advance(tail, frames)
  /\ UNCHANGED <<data, head, live, lock, src>>

\* One turn of the loop.
ReadChunk ==
  /\ lock = "read" /\ want # 0 /\ CanRead
  /\ LET frames == ReadFrames
     IN /\ dst' = dst \o [i \in 1 .. frames |-> data[tail + i - 1]]
        /\ live' = live - frames
        /\ want' = want - frames
        /\ tail' = Advance(tail, frames)
  /\ UNCHANGED <<data, head, lock, src>>

\* All frames copied, or the buffer is empty: release the lock and return.
ReadEnd ==
  /\ lock = "read"
  /\ want = 0 \/ ~CanRead
  /\ lock' = "free"
  /\ want' = 0
  /\ UNCHANGED <<data, head, tail, live, src, dst>>

Next == \/ WriteBegin \/ WriteChunk \/ WriteEnd
        \/ ReadBegin \/ ReadChunk \/ ReadEnd

Spec == Init /\ [][Next]_vars

\* A thread inside a call runs on to its end: it never blocks holding the
\* lock.
FairSpec == Spec /\ WF_vars(WriteChunk \/ WriteEnd) /\ WF_vars(ReadChunk \/ ReadEnd)

-----------------------------------------------------------------------------
(* Properties.                                                             *)

\* Every variable has its type: the positions are slots, so that memcpy
\* stays inside the data, and live never exceeds the buffer.
TypeOK ==
  /\ data \in [Slots -> Frames]
  /\ head \in Slots /\ tail \in Slots /\ live \in 0 .. frame_count
  /\ lock \in {"free", "write", "read"}
  /\ src \in Seq(Frames) /\ dst \in Seq(Frames) /\ want \in Nat

\* The three counters the code updates one by one agree: head is live slots
\* after tail, so that head = tail is told apart as full or empty by live.
RingConsistent == head = (tail + live) % frame_count

\* The queue the ring holds: live frames from tail on.
queue == [i \in 1 .. live |-> data[(tail + i - 1) % frame_count]]

\* The ring buffer implements the bounded FIFO queue.
F == INSTANCE Fifo WITH writing <- (lock = "write"), reading <- (lock = "read")
ImplementsFifo == F!FifoSpec

\* Every call returns: each turn of a loop moves at least one frame.
CallsReturn == lock # "free" ~> lock = "free"
=============================================================================
