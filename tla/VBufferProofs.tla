---------------------------- MODULE VBufferProofs ----------------------------
(* The ring buffer keeps its counters consistent and implements the bounded *)
(* FIFO queue, for every buffer size, frame content and request size.       *)
EXTENDS VBuffer, SequenceTheorems, TLAPS

LEMMA Size == frame_count \in Nat /\ frame_count > 0 /\ MaxRequest \in Nat
BY SizeAssumption

\* A position that is moved by at most the size of the buffer wraps once.
LEMMA Wrap ==
  ASSUME NEW p \in Slots, NEW k \in 0 .. frame_count
  PROVE  (p + k) % frame_count =
           IF p + k < frame_count THEN p + k ELSE p + k - frame_count
<1>1. CASE p + k < frame_count
  BY <1>1, Size DEF Slots
<1>2. CASE p + k >= frame_count
  <2>1. p + k = 1 * frame_count + (p + k - frame_count)
        /\ p + k - frame_count \in 0 .. frame_count - 1
    BY <1>2, Size DEF Slots
  <2>2. (p + k) % frame_count = p + k - frame_count
    BY <2>1, Size DEF Slots
  <2> QED
    BY <1>2, <2>2, Size DEF Slots
<1> QED
  BY <1>1, <1>2, Size DEF Slots

\* head as a function of tail and live, without division.
LEMMA HeadForm ==
  ASSUME TypeOK, RingConsistent
  PROVE  /\ live \in Nat /\ head \in Nat /\ tail \in Nat
         /\ head < frame_count /\ tail < frame_count /\ live <= frame_count
         /\ head = IF tail + live < frame_count THEN tail + live
                   ELSE tail + live - frame_count
<1>1. /\ live \in Nat /\ head \in Nat /\ tail \in Nat
      /\ head < frame_count /\ tail < frame_count /\ live <= frame_count
  BY Size DEF TypeOK, Slots
<1> QED
  BY <1>1, Wrap, Size DEF TypeOK, RingConsistent

\* Every slot is a slot of the data.
LEMMA SlotType ==
  ASSUME NEW x \in Nat
  PROVE  x % frame_count \in Slots
BY Size DEF Slots

\* What a turn of the write loop moves, and where.
LEMMA WriteChunkFacts ==
  ASSUME TypeOK, RingConsistent, src # <<>>, CanWrite
  PROVE  /\ WriteFrames \in 1 .. Len(src)
         /\ live + WriteFrames <= frame_count
         /\ head + WriteFrames <= frame_count
         /\ \A i \in 1 .. live :
              LET s == (tail + i - 1) % frame_count
              IN s < head \/ s >= head + WriteFrames
         /\ \A j \in 1 .. WriteFrames :
              (tail + live + j - 1) % frame_count = head + j - 1
         /\ (head + WriteFrames) % frame_count =
              (tail + live + WriteFrames) % frame_count
<1> DEFINE n == WriteFrames
<1>1. Len(src) \in Nat /\ Len(src) >= 1
  <2>1. src \in Seq(Frames)
    BY DEF TypeOK
  <2> QED
    BY <2>1, EmptySeq
<1>2. n \in Int /\ n >= 1 /\ n <= Len(src)
  <2>1. CASE live = 0 \/ head > tail
    BY <1>1, <2>1, HeadForm, Size DEF WriteFrames, MIN
  <2>2. CASE live # 0 /\ head < tail
    BY <1>1, <2>2, HeadForm, Size DEF WriteFrames, MIN
  <2> QED
    BY <2>1, <2>2, HeadForm, Size DEF CanWrite
<1>3. live + n <= frame_count /\ head + n <= frame_count
  <2>1. CASE live = 0
    BY <1>1, <2>1, HeadForm, Size DEF WriteFrames, MIN
  <2>2. CASE live # 0 /\ head > tail
    BY <1>1, <2>2, HeadForm, Size DEF WriteFrames, MIN
  <2>3. CASE live # 0 /\ head < tail
    BY <1>1, <2>3, HeadForm, Size DEF WriteFrames, MIN
  <2> QED
    BY <2>1, <2>2, <2>3, HeadForm, Size DEF CanWrite
<1>4. ASSUME NEW i \in 1 .. live
      PROVE  LET s == (tail + i - 1) % frame_count
             IN s < head \/ s >= head + n
  <2>1. (tail + (i - 1)) % frame_count =
           IF tail + (i - 1) < frame_count THEN tail + (i - 1)
           ELSE tail + (i - 1) - frame_count
    <3>1. tail \in Slots /\ i - 1 \in 0 .. frame_count
      BY HeadForm, Size DEF TypeOK
    <3> HIDE DEF n
    <3> QED
      BY <3>1, Wrap
  <2>2. tail + i - 1 = tail + (i - 1)
    BY HeadForm
  <2>3. CASE live = 0
    BY <2>3
  <2>4. CASE live # 0 /\ head > tail
    BY <1>2, <1>3, <2>1, <2>2, <2>4, HeadForm, Size
  <2>5. CASE live # 0 /\ head < tail
    <3>1. n <= tail - head
      BY <1>1, <2>5, HeadForm, Size DEF WriteFrames, MIN
    <3> HIDE DEF n
    <3> QED
      BY <1>2, <2>1, <2>2, <2>5, <3>1, HeadForm, Size
  <2> HIDE DEF n
  <2> QED
    BY <2>3, <2>4, <2>5, HeadForm, Size DEF CanWrite
<1>5. ASSUME NEW j \in 1 .. n
      PROVE  (tail + live + j - 1) % frame_count = head + j - 1
  <2> HIDE DEF n
  <2>0. n \in Int /\ j \in Int /\ j >= 1 /\ j <= n
    BY <1>2
  <2>1. live + j - 1 \in 0 .. frame_count
    BY <1>3, <2>0, HeadForm, Size
  <2>2. (tail + (live + j - 1)) % frame_count =
           IF tail + (live + j - 1) < frame_count THEN tail + (live + j - 1)
           ELSE tail + (live + j - 1) - frame_count
    BY <2>1, Wrap DEF TypeOK
  <2>3. tail + live + j - 1 = tail + (live + j - 1)
    BY <2>0, HeadForm
  <2>4. head + j - 1 < frame_count
    BY <1>3, <2>0, HeadForm, Size
  <2> QED
    BY <2>0, <2>2, <2>3, <2>4, HeadForm, Size
<1>6. (head + n) % frame_count = (tail + live + n) % frame_count
  <2> HIDE DEF n
  <2>1. n \in 0 .. frame_count /\ live + n \in 0 .. frame_count
    BY <1>2, <1>3, HeadForm, Size
  <2>2. (head + n) % frame_count =
           IF head + n < frame_count THEN head + n ELSE head + n - frame_count
    BY <2>1, Wrap DEF TypeOK
  <2>3. (tail + (live + n)) % frame_count =
           IF tail + (live + n) < frame_count THEN tail + (live + n)
           ELSE tail + (live + n) - frame_count
    BY <2>1, Wrap DEF TypeOK
  <2>4. tail + live + n = tail + (live + n)
    BY <1>2, HeadForm
  <2> QED
    BY <1>2, <1>3, <2>2, <2>3, <2>4, HeadForm, Size
<1> QED
  BY <1>2, <1>3, <1>4, <1>5, <1>6

\* What a turn of the read loop moves, and from where.
LEMMA ReadChunkFacts ==
  ASSUME TypeOK, RingConsistent, want # 0, CanRead
  PROVE  /\ ReadFrames \in 1 .. want
         /\ ReadFrames <= live
         /\ tail + ReadFrames <= frame_count
         /\ (tail + ReadFrames) % frame_count =
              IF tail + ReadFrames < frame_count THEN tail + ReadFrames ELSE 0
<1> DEFINE n == ReadFrames
<1>0. want \in Nat /\ want >= 1
  BY DEF TypeOK
<1>1. n \in Int /\ n >= 1 /\ n <= want /\ tail + n <= frame_count
  BY <1>0, HeadForm, Size DEF ReadFrames, MIN, CanRead
<1>2. n <= live
  <2>1. CASE live = frame_count
    BY <1>1, <2>1, HeadForm, Size
  <2>2. CASE live # frame_count /\ tail > head
    BY <1>1, <2>2, HeadForm, Size
  <2>3. CASE live # frame_count /\ tail < head
    BY <1>0, <2>3, HeadForm, Size DEF ReadFrames, MIN
  <2> QED
    BY <2>1, <2>2, <2>3, HeadForm, Size DEF CanRead
<1>3. (tail + n) % frame_count =
           IF tail + n < frame_count THEN tail + n ELSE 0
  <2> HIDE DEF n
  <2>1. n \in 0 .. frame_count
    BY <1>1, <1>2, HeadForm, Size
  <2>2. (tail + n) % frame_count =
           IF tail + n < frame_count THEN tail + n ELSE tail + n - frame_count
    BY <2>1, Wrap DEF TypeOK
  <2> QED
    BY <1>1, <2>2, HeadForm, Size
<1> QED
  BY <1>0, <1>1, <1>2, <1>3
-----------------------------------------------------------------------------
(* Type correctness and the consistency of the counters.                   *)

LEMMA RingInit == Init => TypeOK /\ RingConsistent
<1> SUFFICES ASSUME Init
             PROVE  TypeOK /\ RingConsistent
  OBVIOUS
<1>1. PICK f \in Frames : data = [s \in Slots |-> f]
  BY DEF Init
<1>2. 0 % frame_count = 0
  BY Size
<1>3. src \in Seq(Frames) /\ dst \in Seq(Frames)
  BY EmptySeq DEF Init
<1> QED
  BY <1>1, <1>2, <1>3, Size DEF Init, TypeOK, RingConsistent, Slots

\* Copying a part of src leaves a sequence of frames.
LEMMA SrcRest ==
  ASSUME TypeOK, NEW n \in 0 .. Len(src)
  PROVE  /\ SubSeq(src, n + 1, Len(src)) \in Seq(Frames)
         /\ SubSeq(src, 1, n) \in Seq(Frames)
         /\ Len(SubSeq(src, 1, n)) = n
         /\ \A j \in 1 .. n : SubSeq(src, 1, n)[j] = src[j]
<1>1. Len(src) \in Nat /\ src \in [1 .. Len(src) -> Frames]
  BY LenProperties DEF TypeOK
<1>2. \A i \in n + 1 .. Len(src) : src[i] \in Frames
  BY <1>1
<1>3. \A i \in 1 .. n : src[i] \in Frames
  BY <1>1
<1>4. SubSeq(src, n + 1, Len(src)) \in Seq(Frames)
  BY <1>1, <1>2, SubSeqProperties
<1>5. /\ SubSeq(src, 1, n) \in Seq(Frames)
      /\ Len(SubSeq(src, 1, n)) = IF 1 <= n THEN n - 1 + 1 ELSE 0
      /\ \A j \in 1 .. n - 1 + 1 : SubSeq(src, 1, n)[j] = src[1 + j - 1]
  BY <1>1, <1>3, SubSeqProperties
<1> QED
  BY <1>1, <1>4, <1>5

LEMMA WriteChunkRing ==
  ASSUME TypeOK, RingConsistent, WriteChunk
  PROVE  TypeOK' /\ RingConsistent'
<1> DEFINE n == WriteFrames
<1>1. /\ n \in 1 .. Len(src) /\ live + n <= frame_count
      /\ head + n <= frame_count
      /\ (head + n) % frame_count = (tail + live + n) % frame_count
  BY WriteChunkFacts DEF WriteChunk
<1>2. /\ data' = [s \in Slots |-> IF head <= s /\ s < head + n
                                  THEN src[s - head + 1] ELSE data[s]]
      /\ live' = live + n
      /\ src' = SubSeq(src, n + 1, Len(src))
      /\ head' = (head + n) % frame_count
      /\ UNCHANGED <<tail, lock, want, dst>>
  BY DEF WriteChunk, Advance
<1> HIDE DEF n
<1>3. Len(src) \in Nat /\ src \in [1 .. Len(src) -> Frames] /\ n \in Nat
  BY <1>1, LenProperties DEF TypeOK
<1>4. data' \in [Slots -> Frames]
  <2>1. ASSUME NEW s \in Slots, head <= s, s < head + n
        PROVE  src[s - head + 1] \in Frames
    <3>1. s \in Int /\ head \in Int /\ n <= Len(src)
      BY <1>1, <1>3, HeadForm, Size DEF Slots
    <3>2. s - head + 1 \in 1 .. Len(src)
      BY <1>3, <2>1, <3>1
    <3> QED
      BY <1>3, <3>2
  <2> QED
    BY <1>2, <2>1 DEF TypeOK
<1>5. head' \in Slots
  BY <1>2, <1>3, SlotType, HeadForm
<1>6. src' \in Seq(Frames)
  BY <1>1, <1>2, <1>3, SrcRest
<1>7. live' \in 0 .. frame_count
  BY <1>1, <1>2, <1>3, HeadForm, Size
<1>8. tail' + live' = tail + live + n
  BY <1>2, <1>3, HeadForm
<1> QED
  BY <1>1, <1>2, <1>4, <1>5, <1>6, <1>7, <1>8 DEF TypeOK, RingConsistent

\* The frames a turn of the read loop copies.
Chunk == [i \in 1 .. ReadFrames |-> data[tail + i - 1]]

LEMMA ChunkType ==
  ASSUME TypeOK, RingConsistent, want # 0, CanRead
  PROVE  Chunk \in Seq(Frames) /\ Len(Chunk) = ReadFrames
<1> DEFINE n == ReadFrames
<1>1. n \in Nat /\ tail + n <= frame_count
  BY ReadChunkFacts DEF TypeOK
<1> HIDE DEF n
<1>2. \A i \in 1 .. n : data[tail + i - 1] \in Frames
  BY <1>1, HeadForm, Size DEF TypeOK, Slots
<1>3. [i \in 1 .. n |-> data[tail + i - 1]] \in Seq(Frames)
  BY <1>1, <1>2
<1>4. Len([i \in 1 .. n |-> data[tail + i - 1]]) = n
  BY <1>1
<1> QED
  BY <1>3, <1>4 DEF Chunk, n

LEMMA ReadChunkRing ==
  ASSUME TypeOK, RingConsistent, ReadChunk
  PROVE  TypeOK' /\ RingConsistent'
<1> DEFINE n == ReadFrames
<1>1. /\ n \in 1 .. want /\ n <= live /\ tail + n <= frame_count
      /\ (tail + n) % frame_count = IF tail + n < frame_count THEN tail + n ELSE 0
  BY ReadChunkFacts DEF ReadChunk
<1>2. /\ dst' = dst \o Chunk /\ live' = live - n /\ want' = want - n
      /\ tail' = (tail + n) % frame_count
      /\ UNCHANGED <<data, head, lock, src>>
  BY DEF ReadChunk, Advance, Chunk
<1>3. dst' \in Seq(Frames)
  BY <1>2, ChunkType, ConcatProperties DEF ReadChunk, TypeOK
<1> HIDE DEF n
<1>4. n \in Nat /\ n >= 1 /\ n <= want /\ want \in Nat
  BY <1>1 DEF TypeOK
<1>5. tail' \in Slots
  BY <1>2, <1>4, SlotType, HeadForm
<1>6. want' \in Nat /\ live' \in 0 .. frame_count
  BY <1>1, <1>2, <1>4, HeadForm, Size
<1>7. head = (tail' + live') % frame_count
  <2>1. (tail' + live') % frame_count =
          IF tail' + live' < frame_count THEN tail' + live'
          ELSE tail' + live' - frame_count
    BY <1>5, <1>6, Wrap
  <2>2. tail' = IF tail + n < frame_count THEN tail + n ELSE 0
    BY <1>1, <1>2
  <2>3. CASE tail + n < frame_count
    <3>1. tail' + live' = tail + live
      BY <1>2, <1>4, <2>2, <2>3, HeadForm
    <3>2. (tail' + live') % frame_count =
            IF tail + live < frame_count THEN tail + live
            ELSE tail + live - frame_count
      BY <1>5, <1>6, <2>1, <3>1, HeadForm, Size DEF Slots
    <3> QED
      BY <3>2, HeadForm
  <2>4. CASE tail + n = frame_count
    <3>1. tail' + live' = tail + live - frame_count
      BY <1>2, <1>4, <2>2, <2>4, HeadForm, Size
    <3> QED
      BY <1>1, <1>4, <2>1, <2>4, <3>1, HeadForm, Size
  <2> QED
    BY <1>1, <1>4, <2>3, <2>4, HeadForm, Size
<1> QED
  BY <1>2, <1>3, <1>5, <1>6, <1>7 DEF TypeOK, RingConsistent

LEMMA RingStep == TypeOK /\ RingConsistent /\ [Next]_vars => TypeOK' /\ RingConsistent'
<1> SUFFICES ASSUME TypeOK, RingConsistent, [Next]_vars
             PROVE  TypeOK' /\ RingConsistent'
  OBVIOUS
<1>1. CASE WriteBegin
  <2>1. src' \in Seq(Frames)
    BY <1>1, Size DEF WriteBegin
  <2> QED
    BY <1>1, <2>1 DEF WriteBegin, TypeOK, RingConsistent
<1>2. CASE WriteChunk
  BY <1>2, WriteChunkRing
<1>3. CASE WriteEnd
  BY <1>3, EmptySeq DEF WriteEnd, TypeOK, RingConsistent
<1>4. CASE ReadBegin
  BY <1>4, EmptySeq, Size DEF ReadBegin, TypeOK, RingConsistent
<1>5. CASE ReadChunk
  BY <1>5, ReadChunkRing
<1>6. CASE ReadEnd
  BY <1>6 DEF ReadEnd, TypeOK, RingConsistent
<1>7. CASE UNCHANGED vars
  BY <1>7 DEF vars, TypeOK, RingConsistent
<1> QED
  BY <1>1, <1>2, <1>3, <1>4, <1>5, <1>6, <1>7 DEF Next

\* Positions and counts stay in range: no memcpy of audio_vbuffer_write or
\* audio_vbuffer_read leaves the data.
THEOREM TypeCorrect == Spec => []TypeOK
BY RingInit, RingStep, PTL DEF Spec

\* head, tail and live agree after every turn of the loops of
\* audio_vbuffer_write and audio_vbuffer_read.
THEOREM RingConsistentAlways == Spec => []RingConsistent
BY RingInit, RingStep, PTL DEF Spec
-----------------------------------------------------------------------------
(* The ring buffer implements the FIFO queue.                              *)

\* The queue as a sequence of frames.
QueueIs ==
  /\ queue \in Seq(Frames) /\ Len(queue) = live /\ live \in Nat
  /\ \A i \in 1 .. live : queue[i] = data[(tail + i - 1) % frame_count]

LEMMA QueueForm == TypeOK => QueueIs
<1> SUFFICES ASSUME TypeOK
             PROVE  QueueIs
  OBVIOUS
<1>1. live \in Nat /\ tail \in Nat
  BY Size DEF TypeOK, Slots
<1>2. ASSUME NEW i \in 1 .. live
      PROVE  data[(tail + i - 1) % frame_count] \in Frames
  <2>1. tail + i - 1 \in Nat
    BY <1>1
  <2> QED
    BY <2>1, SlotType DEF TypeOK
<1>3. queue \in [1 .. live -> Frames]
  BY <1>2 DEF queue
<1>4. queue \in Seq(Frames) /\ Len(queue) = live
  BY <1>1, <1>3
<1> QED
  BY <1>1, <1>4 DEF queue, QueueIs

\* A turn of the write loop appends the frames it copies to the queue.
LEMMA WriteChunkQueue ==
  ASSUME TypeOK, RingConsistent, WriteChunk
  PROVE  queue' = queue \o SubSeq(src, 1, WriteFrames)
<1> DEFINE n == WriteFrames
           add == SubSeq(src, 1, n)
<1>1. /\ n \in 1 .. Len(src) /\ live + n <= frame_count
      /\ head + n <= frame_count
      /\ \A i \in 1 .. live : LET s == (tail + i - 1) % frame_count
                              IN s < head \/ s >= head + n
      /\ \A j \in 1 .. n : (tail + live + j - 1) % frame_count = head + j - 1
  BY WriteChunkFacts DEF WriteChunk
<1>2. /\ data' = [s \in Slots |-> IF head <= s /\ s < head + n
                                  THEN src[s - head + 1] ELSE data[s]]
      /\ live' = live + n /\ tail' = tail
  BY DEF WriteChunk
<1> HIDE DEF n
<1>3. Len(src) \in Nat
  BY LenProperties DEF TypeOK
<1>4. n \in Nat /\ n >= 1 /\ n <= Len(src)
  BY <1>1, <1>3
<1>5. add \in Seq(Frames) /\ Len(add) = n /\ \A j \in 1 .. n : add[j] = src[j]
  BY <1>3, <1>4, SrcRest
<1> HIDE DEF add
<1>6. /\ queue \in Seq(Frames) /\ Len(queue) = live /\ live \in Nat
      /\ \A i \in 1 .. live : queue[i] = data[(tail + i - 1) % frame_count]
  BY QueueForm DEF QueueIs
<1>7. TypeOK'
  BY WriteChunkRing
<1>8. /\ queue' \in Seq(Frames) /\ Len(queue') = live + n
      /\ \A i \in 1 .. live + n :
           queue'[i] = data'[(tail + i - 1) % frame_count]
  <2>1. TypeOK' => QueueIs'
    BY QueueForm, PTL
  <2> QED
    BY <1>2, <1>7, <2>1 DEF QueueIs
<1>9. /\ queue \o add \in Seq(Frames) /\ Len(queue \o add) = live + n
      /\ \A i \in 1 .. live + n : (queue \o add)[i] =
             IF i <= live THEN queue[i] ELSE add[i - live]
  BY <1>5, <1>6, ConcatProperties
<1>10. ASSUME NEW i \in 1 .. live + n
       PROVE  queue'[i] = (queue \o add)[i]
  <2>0. i \in Nat /\ i >= 1 /\ i <= live + n /\ tail \in Nat /\ head \in Nat
    BY <1>4, <1>6, HeadForm
  <2>1. CASE i <= live
    <3>1. i \in 1 .. live
      BY <1>6, <2>0, <2>1
    <3>2. (tail + i - 1) % frame_count \in Slots
      BY <2>0, SlotType
    <3>3. data'[(tail + i - 1) % frame_count] =
            data[(tail + i - 1) % frame_count]
      <4> DEFINE s == (tail + i - 1) % frame_count
      <4>1. s < head \/ s >= head + n
        BY <1>1, <3>1
      <4>2. s \in Slots
        BY <3>2
      <4> HIDE DEF s
      <4>3. s \in Int
        BY <4>2, Size DEF Slots
      <4>4. ~(head <= s /\ s < head + n)
        BY <1>4, <2>0, <4>1, <4>3
      <4>5. data'[s] = data[s]
        BY <1>2, <4>2, <4>4
      <4> QED
        BY <4>5 DEF s
    <3> QED
      BY <1>6, <1>8, <1>9, <2>1, <3>1, <3>3
  <2>2. CASE i > live
    <3> DEFINE j == i - live
    <3>1. j \in 1 .. n /\ i = live + j
      BY <1>4, <1>6, <2>0, <2>2
    <3> HIDE DEF j
    <3>2. tail + i - 1 = tail + live + j - 1
      BY <1>6, <2>0, <3>1
    <3>3. (tail + i - 1) % frame_count = head + j - 1
      BY <1>1, <3>1, <3>2
    <3>4. /\ head + j - 1 \in Slots /\ head <= head + j - 1
          /\ head + j - 1 < head + n /\ (head + j - 1) - head + 1 = j
      BY <1>1, <1>4, <2>0, <3>1, Size DEF Slots
    <3>5. data'[head + j - 1] = src[j]
      BY <1>2, <3>4
    <3>6. (queue \o add)[i] = add[j]
      BY <1>6, <1>9, <2>0, <2>2 DEF j
    <3> QED
      BY <1>5, <1>8, <3>1, <3>3, <3>5, <3>6
  <2>3. i <= live \/ i > live
    BY <1>6, <2>0
  <2> QED
    BY <2>1, <2>2, <2>3, Zenon
<1> QED
  BY <1>8, <1>9, <1>10, SeqEqual DEF add, n
\* A turn of the read loop copies the oldest frames and takes them off.
LEMMA ReadChunkQueue ==
  ASSUME TypeOK, RingConsistent, ReadChunk
  PROVE  /\ Chunk = SubSeq(queue, 1, ReadFrames)
         /\ queue' = SubSeq(queue, ReadFrames + 1, Len(queue))
<1> DEFINE n == ReadFrames
<1>1. /\ n \in 1 .. want /\ n <= live /\ tail + n <= frame_count
      /\ (tail + n) % frame_count = IF tail + n < frame_count THEN tail + n ELSE 0
  BY ReadChunkFacts DEF ReadChunk
<1>2. /\ live' = live - n /\ tail' = (tail + n) % frame_count /\ data' = data
  BY DEF ReadChunk, Advance
<1>3. /\ queue \in Seq(Frames) /\ Len(queue) = live /\ live \in Nat
      /\ \A i \in 1 .. live : queue[i] = data[(tail + i - 1) % frame_count]
  BY QueueForm DEF QueueIs
<1>4. Chunk \in Seq(Frames) /\ Len(Chunk) = n
      /\ \A i \in 1 .. n : Chunk[i] = data[tail + i - 1]
  BY ChunkType DEF ReadChunk, Chunk
<1> HIDE DEF n
<1>5. /\ n \in Nat /\ n >= 1 /\ n <= live /\ tail + n <= frame_count
      /\ tail \in Nat /\ tail < frame_count /\ live <= frame_count
  BY <1>1, HeadForm DEF TypeOK
<1>6. \A i \in 1 .. live : queue[i] \in Frames
  BY <1>3, ElementOfSeq
<1>7. Chunk = SubSeq(queue, 1, n)
  <2>1. \A i \in 1 .. n : queue[i] \in Frames
    BY <1>3, <1>5, <1>6
  <2>2. /\ SubSeq(queue, 1, n) \in Seq(Frames)
        /\ Len(SubSeq(queue, 1, n)) = IF 1 <= n THEN n - 1 + 1 ELSE 0
        /\ \A i \in 1 .. n - 1 + 1 : SubSeq(queue, 1, n)[i] = queue[1 + i - 1]
    BY <1>5, <2>1, SubSeqProperties
  <2>3. Len(SubSeq(queue, 1, n)) = n
    BY <1>5, <2>2
  <2>4. ASSUME NEW i \in 1 .. n
        PROVE  Chunk[i] = SubSeq(queue, 1, n)[i]
    <3>1. i \in 1 .. live /\ i \in 1 .. n - 1 + 1 /\ 1 + i - 1 = i
      BY <1>3, <1>5
    <3>2. (tail + i - 1) % frame_count = tail + i - 1
      <4>1. i - 1 \in 0 .. frame_count /\ tail + (i - 1) < frame_count
            /\ tail + i - 1 = tail + (i - 1)
        BY <1>5, Size
      <4>2. (tail + (i - 1)) % frame_count = tail + (i - 1)
        BY <4>1, Wrap DEF TypeOK
      <4> QED
        BY <4>1, <4>2
    <3>3. SubSeq(queue, 1, n)[i] = queue[i]
      BY <2>2, <3>1
    <3> QED
      BY <1>3, <1>4, <3>1, <3>2, <3>3
  <2> QED
    BY <1>4, <2>2, <2>3, <2>4, SeqEqual
<1>8. queue' = SubSeq(queue, n + 1, live)
  <2>1. TypeOK' => QueueIs'
    BY QueueForm, PTL
  <2>2. /\ queue' \in Seq(Frames) /\ Len(queue') = live - n
        /\ \A i \in 1 .. live - n :
             queue'[i] = data[(tail' + i - 1) % frame_count]
    BY <1>2, <2>1, ReadChunkRing DEF QueueIs
  <2>3. \A i \in n + 1 .. live : queue[i] \in Frames
    BY <1>3, <1>5, <1>6
  <2>4. /\ SubSeq(queue, n + 1, live) \in Seq(Frames)
        /\ Len(SubSeq(queue, n + 1, live)) =
             IF n + 1 <= live THEN live - (n + 1) + 1 ELSE 0
        /\ \A i \in 1 .. live - (n + 1) + 1 :
             SubSeq(queue, n + 1, live)[i] = queue[n + 1 + i - 1]
    BY <1>3, <1>5, <2>3, SubSeqProperties
  <2>5. Len(SubSeq(queue, n + 1, live)) = live - n
    BY <1>3, <1>5, <2>4
  <2>6. ASSUME NEW i \in 1 .. live - n
        PROVE  queue'[i] = SubSeq(queue, n + 1, live)[i]
    <3>1. /\ i \in Nat /\ i >= 1 /\ i <= live - n
          /\ n + i \in 1 .. live /\ i \in 1 .. live - (n + 1) + 1
          /\ n + 1 + i - 1 = n + i
      BY <1>3, <1>5
    <3>2. SubSeq(queue, n + 1, live)[i] = data[(tail + (n + i) - 1) % frame_count]
      BY <1>3, <2>4, <3>1
    <3>3. (tail' + i - 1) % frame_count = (tail + (n + i) - 1) % frame_count
      <4>1. CASE tail + n < frame_count
        <5>1. tail' = tail + n
          BY <1>1, <1>2, <4>1
        <5>2. tail' + i - 1 = tail + (n + i) - 1
          BY <1>5, <3>1, <5>1
        <5> QED
          BY <5>2
      <4>2. CASE tail + n = frame_count
        <5>1. tail' = 0
          BY <1>1, <1>2, <4>2, <1>5, Size
        <5>2. n + i - 1 \in 0 .. frame_count /\ 0 \in Slots
              /\ i - 1 \in 0 .. frame_count /\ i - 1 < frame_count
              /\ tail + (n + i - 1) >= frame_count
              /\ tail + (n + i - 1) - frame_count = i - 1
              /\ tail + (n + i - 1) = tail + (n + i) - 1
              /\ 0 + (i - 1) = tail' + i - 1
          BY <1>3, <1>5, <3>1, <4>2, <5>1, Size DEF Slots
        <5>3. (tail + (n + i - 1)) % frame_count = i - 1
          BY <5>2, <1>5, <3>1, Size, Wrap DEF TypeOK
        <5>4. (0 + (i - 1)) % frame_count = i - 1
          BY <5>2, <3>1, Wrap
        <5> QED
          BY <5>2, <5>3, <5>4
      <4> QED
        BY <1>5, <4>1, <4>2, Size
    <3> QED
      BY <2>2, <3>2, <3>3
  <2> QED
    BY <2>2, <2>4, <2>5, <2>6, SeqEqual
<1> QED
  BY <1>3, <1>7, <1>8 DEF n

LEMMA FifoInitLemma == Init => F!FifoInit
<1> SUFFICES ASSUME Init
             PROVE  F!FifoInit
  OBVIOUS
<1>1. TypeOK /\ live = 0
  BY RingInit DEF Init
<1>2. queue \in Seq(Frames) /\ Len(queue) = 0
  BY <1>1, QueueForm DEF QueueIs
<1>3. queue = <<>>
  BY <1>2, EmptySeq
<1> QED
  BY <1>3 DEF Init, F!FifoInit

LEMMA FifoStep ==
  TypeOK /\ RingConsistent /\ [Next]_vars => [F!FifoNext]_(F!fifoVars)
<1> SUFFICES ASSUME TypeOK, RingConsistent, [Next]_vars
             PROVE  [F!FifoNext]_(F!fifoVars)
  OBVIOUS
<1>1. /\ queue \in Seq(Frames) /\ Len(queue) = live /\ live \in Nat
  BY QueueForm DEF QueueIs
<1>2. UNCHANGED <<data, tail, live>> => queue' = queue
  BY DEF queue
<1>3. CASE WriteBegin
  <2>1. F!CallWrite
    BY <1>2, <1>3 DEF WriteBegin, F!CallWrite, F!Requests
  <2> QED
    BY <2>1 DEF F!FifoNext
<1>4. CASE WriteChunk
  <2> DEFINE n == WriteFrames
  <2>1. n \in 1 .. Len(src) /\ live + n <= frame_count
    BY <1>4, WriteChunkFacts DEF WriteChunk
  <2>2. queue' = queue \o SubSeq(src, 1, n)
    BY <1>4, WriteChunkQueue
  <2>3. /\ src' = SubSeq(src, n + 1, Len(src))
        /\ lock = "write" /\ UNCHANGED <<want, dst, lock>>
    BY <1>4 DEF WriteChunk
  <2> HIDE DEF n
  <2>4. F!Enqueue
    BY <1>1, <2>1, <2>2, <2>3 DEF F!Enqueue
  <2> QED
    BY <2>4 DEF F!FifoNext
<1>5. CASE WriteEnd
  <2>1. src = <<>> \/ Len(queue) = frame_count
    BY <1>1, <1>5, HeadForm, Size DEF WriteEnd, CanWrite
  <2>2. F!ReturnWrite
    BY <1>2, <1>5, <2>1 DEF WriteEnd, F!ReturnWrite
  <2> QED
    BY <2>2 DEF F!FifoNext
<1>6. CASE ReadBegin
  <2>1. F!CallRead
    BY <1>2, <1>6 DEF ReadBegin, F!CallRead
  <2> QED
    BY <2>1 DEF F!FifoNext
<1>7. CASE ReadChunk
  <2> DEFINE n == ReadFrames
  <2>1. n \in 1 .. want /\ n <= Len(queue)
    BY <1>1, <1>7, ReadChunkFacts DEF ReadChunk
  <2>2. /\ Chunk = SubSeq(queue, 1, n)
        /\ queue' = SubSeq(queue, n + 1, Len(queue))
    BY <1>7, ReadChunkQueue
  <2>3. /\ dst' = dst \o Chunk /\ want' = want - n
        /\ lock = "read" /\ UNCHANGED <<src, lock>>
    BY <1>7 DEF ReadChunk, Chunk
  <2> HIDE DEF n
  <2>4. F!Dequeue
    BY <2>1, <2>2, <2>3 DEF F!Dequeue
  <2> QED
    BY <2>4 DEF F!FifoNext
<1>8. CASE ReadEnd
  <2>1. want = 0 \/ live = 0
    BY <1>8, HeadForm, Size DEF ReadEnd, CanRead
  <2>2. want = 0 \/ queue = <<>>
    BY <1>1, <2>1, EmptySeq
  <2>3. F!ReturnRead
    BY <1>2, <1>8, <2>2 DEF ReadEnd, F!ReturnRead
  <2> QED
    BY <2>3 DEF F!FifoNext
<1>9. CASE UNCHANGED vars
  BY <1>2, <1>9 DEF vars, F!fifoVars
<1> QED
  BY <1>3, <1>4, <1>5, <1>6, <1>7, <1>8, <1>9 DEF Next

\* The ring buffer implements the bounded FIFO queue: frames come out once,
\* in the order they went in, and a call moves less than it was asked for
\* only on a full (empty) buffer.
THEOREM Refinement == Spec => ImplementsFifo
<1>1. Spec => [](TypeOK /\ RingConsistent)
  BY RingInit, RingStep, PTL DEF Spec
<1> QED
  BY <1>1, FifoInitLemma, FifoStep, PTL DEF Spec, ImplementsFifo, F!FifoSpec
=============================================================================
