--------------------------- MODULE InStreamProofs ---------------------------
(***************************************************************************)
(* Proofs of the safety properties of an input stream, for every sampling  *)
(* rate, oversleep, ring buffer and bound.                                 *)
(***************************************************************************)
EXTENDS InStream, TLAPS

-----------------------------------------------------------------------------
(* Arithmetic.                                                             *)

\* Division rounds down.
LEMMA DivBounds ==
  ASSUME NEW a \in Nat, NEW b \in Nat \ {0}
  PROVE  /\ a \div b \in Nat
         /\ (a \div b) * b <= a
         /\ a < (a \div b) * b + b
OBVIOUS

LEMMA DivAtLeast ==
  ASSUME NEW a \in Nat, NEW b \in Nat \ {0}, NEW q \in Int, q * b <= a
  PROVE  q <= a \div b
OBVIOUS

LEMMA ProductMonotone ==
  ASSUME NEW a \in Int, NEW b \in Int, NEW c \in Nat, a <= b
  PROVE  a * c <= b * c
OBVIOUS

LEMMA ProductOfSum ==
  ASSUME NEW a \in Int, NEW b \in Int, NEW c \in Int
  PROVE  (a + b) * c = a * c + b * c
OBVIOUS

LEMMA Numbers ==
  /\ rate \in Nat \ {0} /\ US \in Nat \ {0} /\ US >= rate
  /\ MinOversleep \in Nat /\ MinOversleep >= 1
  /\ period_size \in Nat /\ frame_count \in Nat
  /\ MaxRead \in Nat /\ MaxFrames \in Nat /\ MaxPosition \in Nat
  /\ MaxSince \in Nat /\ MaxFrames * US <= MaxSince * rate
<1>1. /\ rate \in Nat \ {0} /\ US \in Nat \ {0} /\ US >= rate
      /\ MinOversleep \in Nat /\ MinOversleep >= 1
      /\ period_size \in Nat /\ period_count \in Nat
      /\ MaxRead \in Nat /\ MaxFrames \in Nat /\ MaxPosition \in Nat
  BY InStreamAssumption
<1>2. frame_count \in Nat
  BY <1>1 DEF frame_count
<1>3. MaxFrames * US \in Nat
  BY <1>1
<1>4. /\ (MaxFrames * US) \div rate \in Nat
      /\ MaxFrames * US < ((MaxFrames * US) \div rate) * rate + rate
  BY <1>1, <1>3, DivBounds
<1>5. MaxSince * rate = ((MaxFrames * US) \div rate) * rate + rate
  BY <1>1, <1>4 DEF MaxSince
<1>6. MaxSince \in Nat /\ MaxSince * rate \in Nat
  BY <1>1, <1>4 DEF MaxSince
<1> QED
  BY <1>1, <1>2, <1>3, <1>4, <1>5, <1>6

-----------------------------------------------------------------------------
(* The inductive invariant.                                                *)

\* The Boolean and the other variables of TypeOK.
Flags ==
  /\ standby \in BOOLEAN /\ worker_standby \in BOOLEAN /\ worker_exit \in BOOLEAN
  /\ is_tone_generator \in BOOLEAN /\ read_mute \in BOOLEAN
  /\ mic_mute \in BOOLEAN /\ heard \in BOOLEAN
  /\ workerWoken \in BOOLEAN /\ restart \in BOOLEAN /\ pcm \in BOOLEAN

Values ==
  /\ standby_position \in 0 .. MaxPosition /\ standby_frames_read \in 0 .. MaxFrames
  /\ since \in 0 .. MaxSince /\ sleep \in Nat
  /\ device \in Devices /\ live \in 0 .. frame_count
  /\ reader \in Unlocked \cup {"join", "freed"}
  /\ frames \in 0 .. MaxRead
  /\ result \in {"none", "silence", "captured", "tone"}
  /\ worker \in Waits \cup {"top", "read", "done"}

LEMMA TypeParts == TypeOK <=> Flags /\ Values
BY Zenon DEF TypeOK, Flags, Values

\* The microseconds since the end of standby when the sleep is over.
Wakes == MIN(since + sleep, MaxSince)

\* A read that has not taken in->lock yet will have room for its frames.
ReadFits ==
  reader = "readLock" =>
    /\ frames \in 1 .. MaxRead
    /\ (IF standby THEN 0 ELSE standby_frames_read) + frames <= MaxFrames

\* What a read relies on while it sleeps without the lock, unless the stream
\* has been put in standby: the frames it will count will have been captured
\* by then, and the device is the one it saw.
ReadCounted ==
  reader = "readSleep" /\ ~standby =>
    /\ standby_frames_read + frames <= MaxFrames
    /\ (standby_frames_read + frames) * US <= Wakes * rate

ReadDevice ==
  reader = "readSleep" /\ ~standby =>
    /\ is_tone_generator <=> device = "tone"
    /\ device = "mic" /\ ~heard => read_mute

\* A mute that the read did not see came after it had begun.
ReadMute == reader = "readLock" /\ ~heard => read_mute

\* Between reads no more frames have been counted than captured.
IdleCounted ==
  reader \in {"idle", "readLock"} /\ ~standby => standby_frames_read * US <= since * rate

IInv ==
  /\ Flags /\ Values
  /\ worker_standby = standby
  /\ NoLostWakeup
  /\ ReadFits /\ ReadMute
  /\ ReadCounted /\ ReadDevice /\ IdleCounted

-----------------------------------------------------------------------------
(* The time in_read sleeps.                                                *)

\* Frames a read of n lacks, t microseconds after the end of standby when r
\* frames have been read.
Lack(t, r, n) ==
  LET available == (t * rate) \div US - r
  IN IF available > n THEN 0 ELSE n - available

LEMMA SleepTimeOf ==
  ASSUME Flags, Values, NEW n \in 1 .. MaxRead
  PROVE  SleepTime(n) =
           (Lack(IF standby THEN 0 ELSE since,
                 IF standby THEN 0 ELSE standby_frames_read, n) * US) \div rate
<1>1. (0 * rate) \div US - 0 = 0
  BY Numbers
<1>2. CASE standby
  BY <1>1, <1>2, Numbers DEF SleepTime, Lack, FramesAvailable, PositionSinceStandby
<1>3. CASE ~standby
  BY <1>3 DEF SleepTime, Lack, FramesAvailable, PositionSinceStandby
<1> QED
  BY <1>2, <1>3

\* The sleep, rounded down but one microsecond longer than asked for, covers
\* what is lacking.
LEMMA SleepCovers ==
  ASSUME NEW t \in 0 .. MaxSince, NEW r \in 0 .. MaxFrames, NEW n \in 1 .. MaxRead,
         r * US <= t * rate, r + n <= MaxFrames,
         NEW st, st = (Lack(t, r, n) * US) \div rate,
         NEW sl, sl = IF st > 0 THEN st + MinOversleep ELSE 0
  PROVE  sl \in Nat /\ (r + n) * US <= MIN(t + sl, MaxSince) * rate
<1> DEFINE p == (t * rate) \div US
           w == Lack(t, r, n)
<1>1. /\ t \in Nat /\ r \in Nat /\ n \in Nat /\ n >= 1 /\ t * rate \in Nat
      /\ t <= MaxSince
  BY Numbers
<1>2. p \in Nat /\ p * US <= t * rate /\ r <= p
  BY <1>1, Numbers, DivBounds, DivAtLeast
<1>3. w \in Nat /\ (w = 0 \/ w >= 1) /\ r + n <= p + w
  BY <1>1, <1>2 DEF Lack
<1>4. w * US \in Nat
  BY <1>3, Numbers
<1> HIDE DEF p, w
<1>5. st \in Nat /\ w * US < st * rate + rate
  BY <1>4, Numbers, DivBounds DEF w
<1>6. sl \in Nat
  BY <1>5, Numbers
<1>7. (r + n) * US <= p * US + w * US
  BY <1>1, <1>2, <1>3, Numbers, ProductMonotone, ProductOfSum
<1>8. (r + n) * US <= (t + sl) * rate
  <2>1. CASE w = 0
    <3>1. (r + n) * US <= t * rate
      BY <1>1, <1>2, <1>7, <2>1, Numbers
    <3>2. t * rate <= (t + sl) * rate
      BY <1>1, <1>6, Numbers, ProductMonotone
    <3> QED
      BY <1>1, <1>6, <3>1, <3>2, Numbers
  <2>2. CASE w >= 1
    <3>1. US <= w * US
      BY <1>3, <2>2, Numbers
    <3>2. st > 0
      BY <1>4, <1>5, <3>1, Numbers
    <3>3. st + 1 <= sl
      BY <1>5, <3>2, Numbers
    <3>4. (t + (st + 1)) * rate <= (t + sl) * rate
      BY <1>1, <1>5, <1>6, <3>3, Numbers, ProductMonotone
    <3>5. (t + (st + 1)) * rate = t * rate + st * rate + rate
      BY <1>1, <1>5, Numbers
    <3>6. st * rate \in Nat /\ (t + sl) * rate \in Nat /\ p * US \in Nat /\ (r + n) * US \in Nat
      BY <1>1, <1>2, <1>5, <1>6, Numbers
    <3> QED
      BY <1>1, <1>2, <1>4, <1>5, <1>7, <3>4, <3>5, <3>6, Numbers
  <2> QED
    BY <1>3, <2>1, <2>2
<1>9. (r + n) * US <= MaxSince * rate
  <2>1. (r + n) * US <= MaxFrames * US
    BY <1>1, Numbers, ProductMonotone
  <2> QED
    BY <1>1, <2>1, Numbers
<1> QED
  BY <1>6, <1>8, <1>9 DEF MIN

-----------------------------------------------------------------------------
(* Every step preserves the invariant.                                     *)

LEMMA IInvInit == Init => IInv
<1> SUFFICES ASSUME Init PROVE IInv
  OBVIOUS
<1>1. Flags
  BY DEF Init, Flags
<1>2. Values
  BY Numbers DEF Init, Values, Devices, Waits, Unlocked
<1>3. /\ worker_standby = standby /\ NoLostWakeup /\ ReadFits /\ ReadMute
      /\ ReadCounted /\ ReadDevice /\ IdleCounted
  BY DEF Init, NoLostWakeup, ReadFits, ReadMute, ReadCounted, ReadDevice, IdleCounted
<1> QED
  BY <1>1, <1>2, <1>3 DEF IInv

\* What is captured at one time is captured later.
LEMMA CapturedLater ==
  ASSUME NEW c \in Nat, NEW t \in Nat, NEW u \in Nat, t <= u, c * US <= t * rate
  PROVE  c * US <= u * rate
<1>1. t * rate <= u * rate
  BY Numbers, ProductMonotone
<1>2. c * US \in Nat /\ t * rate \in Nat /\ u * rate \in Nat
  BY Numbers
<1> QED
  BY <1>1, <1>2

LEMMA IInvTick == ASSUME IInv, Tick PROVE IInv'
<1>1. Flags'
  BY DEF IInv, Flags, Tick, flags, thread
<1>2. Values'
  BY Numbers DEF IInv, Values, Tick, thread, MIN, MAX
<1>3. (worker_standby = standby)' /\ NoLostWakeup' /\ ReadFits' /\ ReadMute' /\ ReadDevice'
  BY DEF IInv, NoLostWakeup, ReadFits, ReadMute, ReadDevice, Tick, flags, thread
<1>4. since \in Nat /\ sleep \in Nat /\ since <= MaxSince
  BY Numbers DEF IInv, Values
<1>5. Wakes <= Wakes' /\ Wakes \in Nat /\ Wakes' \in Nat
  BY <1>4, Numbers DEF Tick, Wakes, MIN, MAX
<1>6. ReadCounted'
  <2>1. standby_frames_read + frames \in Nat
    BY Numbers DEF IInv, Values
  <2> QED
    BY <1>5, <2>1, CapturedLater DEF IInv, ReadCounted, Tick, flags
<1>7. IdleCounted'
  <2>1. since' \in Nat /\ since <= since'
    BY <1>4, Numbers DEF Tick, MIN
  <2>2. standby_frames_read \in Nat
    BY Numbers DEF IInv, Values
  <2> QED
    BY <1>4, <2>1, <2>2, CapturedLater DEF IInv, IdleCounted, Tick, flags
<1> QED
  BY <1>1, <1>2, <1>3, <1>6, <1>7 DEF IInv

\* A read begins.
LEMMA IInvReadBegin ==
  ASSUME IInv, NEW n \in 1 .. MaxRead, InReadBegin(n)
  PROVE  IInv'
<1>1. Flags'
  BY DEF IInv, Flags, InReadBegin, flags, thread
<1>2. Values'
  BY Numbers DEF IInv, Values, InReadBegin, position, thread, Unlocked
<1>3. ReadFits'
  BY Numbers DEF InReadBegin, ReadFits, flags, position
<1>4. ReadMute'
  BY DEF InReadBegin, ReadMute
<1>5. (worker_standby = standby)' /\ NoLostWakeup' /\ ReadCounted' /\ ReadDevice'
  BY DEF IInv, InReadBegin, NoLostWakeup, ReadCounted, ReadDevice, flags, thread
<1>6. IdleCounted'
  BY DEF IInv, InReadBegin, IdleCounted, flags, position
<1> QED
  BY <1>1, <1>2, <1>3, <1>4, <1>5, <1>6 DEF IInv

\* The first critical section of a read.
LEMMA IInvRead == ASSUME IInv, InRead PROVE IInv'
<1> DEFINE t == IF standby THEN 0 ELSE since
           r == IF standby THEN 0 ELSE standby_frames_read
<1>1. Flags'
  BY DEF IInv, Flags, InRead, SignalWorker
<1>2. standby \in BOOLEAN /\ since \in 0 .. MaxSince /\ standby_frames_read \in 0 .. MaxFrames
  BY DEF IInv, Flags, Values
<1>3. /\ since' = t /\ standby_frames_read' = r /\ frames' = frames
      /\ frames \in 1 .. MaxRead /\ r + frames <= MaxFrames
      /\ sleep' = IF SleepTime(frames) > 0 THEN SleepTime(frames) + MinOversleep ELSE 0
  BY DEF IInv, ReadFits, InRead
<1>4. t \in 0 .. MaxSince /\ r \in 0 .. MaxFrames
  BY <1>2, Numbers
<1>5. r * US <= t * rate
  <2>1. CASE standby
    BY <2>1, Numbers
  <2>2. CASE ~standby
    BY <2>2 DEF IInv, IdleCounted, InRead
  <2> QED
    BY <2>1, <2>2
<1>6. SleepTime(frames) = (Lack(t, r, frames) * US) \div rate
  BY <1>3, SleepTimeOf DEF IInv
<1> HIDE DEF t, r
<1>7. sleep' \in Nat /\ (r + frames) * US <= MIN(t + sleep', MaxSince) * rate
  BY <1>3, <1>4, <1>5, <1>6, SleepCovers
<1>8. Values'
  BY <1>3, <1>4, <1>7, Numbers DEF IInv, Values, InRead, Unlocked
<1>9. ReadCounted'
  BY <1>3, <1>7 DEF ReadCounted, Wakes
<1>10. (worker_standby = standby)' /\ ReadFits' /\ ReadMute' /\ IdleCounted'
  BY DEF InRead, ReadFits, ReadMute, IdleCounted
<1>11. ReadDevice'
  BY DEF IInv, InRead, ReadMute, ReadDevice
<1>12. NoLostWakeup'
  BY DEF InRead, NoLostWakeup, SignalWorker, Waits
<1> QED
  BY <1>1, <1>8, <1>9, <1>10, <1>11, <1>12 DEF IInv

\* The second one: the frames it counts have been captured.
LEMMA IInvReadSlept == ASSUME IInv, InReadSlept PROVE IInv'
<1>1. Flags'
  BY DEF IInv, Flags, InReadSlept, flags, thread
<1>2. /\ standby_frames_read \in Nat /\ frames \in Nat /\ since \in Nat
      /\ since <= MaxSince /\ sleep = 0 /\ live \in 0 .. frame_count
  BY Numbers DEF IInv, Values, InReadSlept
<1>3. live - MIN(frames, live) \in 0 .. frame_count
  BY <1>2, Numbers DEF MIN
<1>4. ~standby => standby_frames_read + frames \in 0 .. MaxFrames
  BY <1>2, Numbers DEF IInv, ReadCounted, InReadSlept
<1>5. standby_frames_read' \in 0 .. MaxFrames /\ live' \in 0 .. frame_count
  BY <1>3, <1>4 DEF IInv, Values, InReadSlept
<1>6. result' \in {"none", "silence", "captured", "tone"}
  BY DEF InReadSlept, Returned
<1>7. Values'
  BY <1>5, <1>6, Numbers DEF IInv, Values, InReadSlept, thread, Unlocked
<1>8. /\ (worker_standby = standby)' /\ NoLostWakeup'
      /\ ReadFits' /\ ReadMute' /\ ReadDevice' /\ ReadCounted'
  BY DEF IInv, InReadSlept, NoLostWakeup, ReadFits, ReadMute, ReadDevice, ReadCounted, flags,
     thread
<1>9. Wakes = since
  BY <1>2, Numbers DEF Wakes, MIN
<1>10. IdleCounted'
  BY <1>9 DEF IInv, InReadSlept, ReadCounted, IdleCounted, flags
<1> QED
  BY <1>1, <1>7, <1>8, <1>10 DEF IInv

\* A mute that comes while a read is in progress leaves what it saw before.
LEMMA IInvSetMicMute == ASSUME IInv, NEW state \in BOOLEAN, SetMicMute(state) PROVE IInv'
<1>1. Flags'
  BY Zenon DEF IInv, Flags, SetMicMute, flags, thread
<1>2. Values'
  BY DEF IInv, Values, SetMicMute, position, thread
<1>3. (worker_standby = standby)' /\ NoLostWakeup' /\ ReadFits'
  BY DEF IInv, SetMicMute, NoLostWakeup, ReadFits, flags, position, thread
<1>4. ReadMute' /\ ReadDevice'
  BY DEF IInv, SetMicMute, ReadMute, ReadDevice, flags
<1>5. ReadCounted' /\ IdleCounted'
  BY DEF IInv, SetMicMute, ReadCounted, Wakes, IdleCounted, flags, position
<1> QED
  BY <1>1, <1>2, <1>3, <1>4, <1>5 DEF IInv

\* get_current_input_position.
LEMMA CaptureType == ASSUME Flags, Values PROVE CapturePosition \in 0 .. MaxPosition
<1>1. since * rate \in Nat /\ standby_position \in Nat
  BY Numbers DEF Values
<1>2. (since * rate) \div US \in Nat
  BY <1>1, Numbers, DivBounds
<1>3. PositionSinceStandby \in Nat
  BY <1>2 DEF PositionSinceStandby
<1> QED
  BY <1>1, <1>3, Numbers DEF CapturePosition, Position, MIN

\* do_in_standby.
LEMMA StandbyParts ==
  ASSUME IInv, DoInStandby
  PROVE  /\ standby' = TRUE /\ worker_standby' = TRUE
         /\ standby_position' \in 0 .. MaxPosition
<1>1. CapturePosition \in 0 .. MaxPosition
  BY CaptureType DEF IInv
<1> QED
  BY <1>1 DEF IInv, Flags, Values, DoInStandby

LEMMA IInvStandby == ASSUME IInv, InStandby \/ Close PROVE IInv'
<1>1. /\ standby' = TRUE /\ worker_standby' = TRUE
      /\ standby_position' \in 0 .. MaxPosition
  BY StandbyParts DEF InStandby, Close
<1>2. Flags'
  BY <1>1 DEF IInv, Flags, InStandby, Close, SignalWorker, call, thread
<1>3. Values'
  BY <1>1 DEF IInv, Values, InStandby, Close, call, thread
<1>4. (worker_standby = standby)' /\ NoLostWakeup' /\ ReadDevice' /\ ReadCounted' /\ IdleCounted'
  BY <1>1 DEF NoLostWakeup, ReadDevice, ReadCounted, IdleCounted
<1>5. ReadFits' /\ ReadMute'
  <2>1. standby_frames_read \in Nat
    BY Numbers DEF IInv, Values
  <2> QED
    BY <1>1, <2>1, Numbers DEF IInv, ReadFits, ReadMute, InStandby, Close, call
<1> QED
  BY <1>2, <1>3, <1>4, <1>5 DEF IInv

LEMMA IInvSetParameters ==
  ASSUME IInv, NEW d \in Devices, InSetParameters(d)
  PROVE  IInv'
<1>1. Flags'
  BY DEF IInv, Flags, InSetParameters, flags, call, thread
<1>2. Values'
  BY DEF IInv, Values, InSetParameters, position, call, thread
<1>3. (worker_standby = standby)' /\ NoLostWakeup' /\ ReadDevice' /\ ReadCounted' /\ IdleCounted'
  BY DEF IInv, InSetParameters, NoLostWakeup, ReadDevice, ReadCounted, IdleCounted, flags
<1>4. ReadFits' /\ ReadMute'
  BY DEF IInv, InSetParameters, ReadFits, ReadMute, flags, position, call
<1> QED
  BY <1>1, <1>2, <1>3, <1>4 DEF IInv

LEMMA IInvJoin == ASSUME IInv, Join PROVE IInv'
<1>1. Flags'
  BY DEF IInv, Flags, Join, flags, thread
<1>2. Values'
  BY DEF IInv, Values, Join, position, thread
<1>3. (worker_standby = standby)' /\ NoLostWakeup' /\ ReadDevice' /\ ReadCounted' /\ IdleCounted'
  BY DEF IInv, Join, NoLostWakeup, ReadDevice, ReadCounted, IdleCounted, flags, thread
<1>4. ReadFits' /\ ReadMute'
  BY DEF Join, ReadFits, ReadMute
<1> QED
  BY <1>1, <1>2, <1>3, <1>4 DEF IInv

LEMMA IInvOpen == ASSUME IInv, Open PROVE IInv'
<1>1. Flags'
  BY DEF IInv, Open, Flags
<1>2. Values'
  BY Numbers DEF Open, Values, Devices, Waits, Unlocked
<1>3. /\ (worker_standby = standby)' /\ NoLostWakeup' /\ ReadFits' /\ ReadMute'
      /\ ReadCounted' /\ ReadDevice' /\ IdleCounted'
  BY DEF Open, NoLostWakeup, ReadFits, ReadMute, ReadCounted, ReadDevice, IdleCounted
<1> QED
  BY <1>1, <1>2, <1>3 DEF IInv

\* in_read_worker touches no flag, position or call.
LEMMA IInvWorker == ASSUME IInv, Worker \/ SpuriousWakeup PROVE IInv'
<1>1. UNCHANGED <<flags, position, call, device, mic_mute>>
  BY DEF Worker, WorkerLoop, WorkerQueue, SpuriousWakeup
<1>2. Flags'
  BY <1>1 DEF IInv, Flags, Worker, WorkerLoop, WorkerQueue, SpuriousWakeup, flags, call
<1>3. live' \in 0 .. frame_count
  <2>1. live \in 0 .. frame_count
    BY DEF IInv, Values
  <2>2. MIN(live + period_size, frame_count) \in 0 .. frame_count
    BY <2>1, Numbers DEF MIN
  <2> QED
    BY <2>1, <2>2 DEF Worker, WorkerLoop, WorkerQueue, SpuriousWakeup
<1>4. worker' \in Waits \cup {"top", "read", "done"}
  BY DEF IInv, Values, Worker, WorkerLoop, WorkerQueue, SpuriousWakeup, Waits
<1>5. Values'
  BY <1>1, <1>3, <1>4 DEF IInv, Values, position, call
<1>6. (worker_standby = standby)' /\ ReadFits' /\ ReadMute' /\ ReadDevice' /\ IdleCounted'
  BY <1>1 DEF IInv, ReadFits, ReadMute, ReadDevice, IdleCounted, flags, position, call
<1>7. ReadCounted'
  BY <1>1 DEF IInv, ReadCounted, Wakes, flags, position, call
<1>8. NoLostWakeup'
  BY <1>1 DEF IInv, NoLostWakeup, Worker, WorkerLoop, WorkerQueue, SpuriousWakeup, flags, Waits
<1> QED
  BY <1>2, <1>5, <1>6, <1>7, <1>8 DEF IInv

LEMMA IInvNext == IInv /\ [Next]_vars => IInv'
<1> SUFFICES ASSUME IInv, [Next]_vars PROVE IInv'
  OBVIOUS
<1>1. CASE (\E n \in 1 .. MaxRead : InReadBegin(n)) \/ (\E state \in BOOLEAN : SetMicMute(state))
  BY <1>1, IInvReadBegin, IInvSetMicMute
<1>2. CASE \E d \in Devices : InSetParameters(d)
  BY <1>2, IInvSetParameters
<1>3. CASE InRead \/ InReadSlept \/ InStandby \/ Close \/ Join \/ Open
  BY <1>3, IInvRead, IInvReadSlept, IInvStandby, IInvJoin, IInvOpen
<1>4. CASE Worker \/ Tick \/ SpuriousWakeup
  BY <1>4, IInvWorker, IInvTick
<1>5. CASE UNCHANGED vars
  BY <1>5 DEF vars, flags, position, call, thread, IInv, Flags, Values, NoLostWakeup,
     ReadFits, ReadMute, ReadCounted, Wakes, ReadDevice, IdleCounted
<1> QED
  BY <1>1, <1>2, <1>3, <1>4, <1>5 DEF Next

LEMMA IInvAlways == Spec => []IInv
BY IInvInit, IInvNext, PTL DEF Spec

-----------------------------------------------------------------------------
(* The theorems.                                                           *)

\* Every variable of an input stream keeps its type: the ring buffer never
\* holds more than it can, and the position stays within its bound.
THEOREM TypeCorrect == Spec => []TypeOK
<1>1. IInv => TypeOK
  BY TypeParts DEF IInv
<1> QED
  BY <1>1, IInvAlways, PTL

\* assert(frames_available >= 0) in in_read never fails, for any rate up to
\* one frame a microsecond and any oversleep of at least a microsecond.
THEOREM AssertAvailableAlways == Spec => []AssertAvailable
<1>1. IInv => AssertAvailable
  <2> SUFFICES ASSUME IInv, reader \in {"idle", "readLock"}, ~standby PROVE FramesAvailable >= 0
    BY DEF AssertAvailable
  <2>1. standby_frames_read \in Nat /\ since * rate \in Nat
    BY Numbers DEF IInv, Values
  <2>2. standby_frames_read * US <= since * rate
    BY DEF IInv, IdleCounted
  <2>3. standby_frames_read <= (since * rate) \div US /\ (since * rate) \div US \in Nat
    BY <2>1, <2>2, Numbers, DivAtLeast, DivBounds
  <2> QED
    BY <2>1, <2>3 DEF FramesAvailable, PositionSinceStandby
<1> QED
  BY <1>1, IInvAlways, PTL

\* No wake-up of in_read_worker is lost between in_read, standby and routing.
THEOREM NoLostWakeupAlways == Spec => []NoLostWakeup
<1>1. IInv => NoLostWakeup
  BY DEF IInv
<1> QED
  BY <1>1, IInvAlways, PTL

\* is_tone_generator and read_mute, taken before the sleep of in_read, hold
\* when it returns: standby ends the read before the routing can change, and
\* a microphone that was muted all through the call returns silence.
THEOREM ReadDecisionsHoldAlways == Spec => ReadDecisionsHold
<1>1. ASSUME IInv, InReadSlept
      PROVE  /\ result' = "tone" => device = "tone"
             /\ result' = "captured" => device # "tone" /\ (device = "mic" => heard)
  <2>1. result' # "silence" => ~standby /\ ~read_mute
    BY <1>1 DEF InReadSlept, Returned
  <2>2. result' = "tone" => is_tone_generator
    BY <1>1 DEF InReadSlept, Returned
  <2>3. result' = "captured" => ~is_tone_generator
    BY <1>1 DEF InReadSlept, Returned
  <2> QED
    BY <1>1, <2>1, <2>2, <2>3 DEF IInv, ReadDevice, InReadSlept
<1>2. IInv /\ [Next]_vars =>
        [InReadSlept =>
           /\ result' = "tone" => device = "tone"
           /\ result' = "captured" => device # "tone" /\ (device = "mic" => heard)]_vars
  BY <1>1
<1> QED
  BY <1>2, IInvAlways, PTL DEF Spec, ReadDecisionsHold

\* The count of captured frames follows the clock.
LEMMA CapturedGrows ==
  ASSUME NEW t \in Nat, NEW u \in Nat, t <= u
  PROVE  /\ (t * rate) \div US \in Nat /\ (u * rate) \div US \in Nat
         /\ (t * rate) \div US <= (u * rate) \div US
<1>1. t * rate \in Nat /\ u * rate \in Nat
  BY Numbers
<1>2. (t * rate) \div US \in Nat /\ ((t * rate) \div US) * US <= t * rate
  BY <1>1, Numbers, DivBounds
<1>3. ((t * rate) \div US) * US <= u * rate
  BY <1>2, Numbers, CapturedLater
<1> QED
  BY <1>1, <1>2, <1>3, Numbers, DivAtLeast, DivBounds

LEMMA CaptureStep ==
  ASSUME IInv, [Next]_vars, reader # "freed"
  PROVE  CapturePosition' >= CapturePosition
<1>1. /\ standby \in BOOLEAN /\ standby_position \in 0 .. MaxPosition
      /\ since \in Nat /\ since <= MaxSince /\ CapturePosition \in 0 .. MaxPosition
  BY Numbers, CaptureType DEF IInv, Flags, Values
<1>2. ASSUME UNCHANGED <<standby, standby_position, since>>
      PROVE  CapturePosition' >= CapturePosition
  BY <1>1, <1>2, Numbers DEF CapturePosition, Position, PositionSinceStandby
<1>3. CASE Tick
  <2>1. since' \in Nat /\ since <= since' /\ UNCHANGED <<standby, standby_position>>
    BY <1>1, <1>3, Numbers DEF Tick, MIN, flags
  <2>2. CASE standby
    BY <1>1, <2>1, <2>2, Numbers DEF CapturePosition, Position, PositionSinceStandby
  <2>3. CASE ~standby
    <3>1. /\ (since * rate) \div US \in Nat /\ (since' * rate) \div US \in Nat
          /\ (since * rate) \div US <= (since' * rate) \div US
      BY <1>1, <2>1, CapturedGrows
    <3>2. Position = standby_position + (since * rate) \div US
      BY <2>3 DEF Position, PositionSinceStandby
    <3>3. Position' = standby_position + (since' * rate) \div US
      BY <2>1, <2>3 DEF Position, PositionSinceStandby
    <3>4. Position \in Nat /\ Position' \in Nat /\ Position <= Position'
      BY <1>1, <3>1, <3>2, <3>3, Numbers
    <3> QED
      BY <3>4, Numbers DEF CapturePosition, MIN
  <2> QED
    BY <2>2, <2>3
<1>4. CASE InRead
  <2>1. CASE standby
    <3>1. Position = standby_position
      BY <1>1, <2>1, Numbers DEF Position, PositionSinceStandby
    <3>2. (0 * rate) \div US = 0
      BY Numbers
    <3>3. Position' = standby_position
      BY <1>1, <1>4, <2>1, <3>2, Numbers DEF InRead, Position, PositionSinceStandby
    <3> QED
      BY <1>1, <3>1, <3>3 DEF CapturePosition
  <2>2. CASE ~standby
    <3>1. UNCHANGED <<standby, standby_position, since>>
      BY <1>1, <1>4, <2>2 DEF InRead
    <3> QED
      BY <1>2, <3>1
  <2> QED
    BY <2>1, <2>2
<1>5. CASE InStandby \/ Close
  <2>1. CASE standby
    BY <1>2, <1>5, <2>1 DEF InStandby, Close, DoInStandby
  <2>2. CASE ~standby
    <3>1. standby' = TRUE /\ standby_position' = CapturePosition
      BY <1>5, <2>2 DEF InStandby, Close, DoInStandby
    <3>2. Position' = CapturePosition
      BY <1>1, <3>1, Numbers DEF Position, PositionSinceStandby
    <3> QED
      BY <1>1, <3>2, Numbers DEF CapturePosition, MIN
  <2> QED
    BY <2>1, <2>2
<1>6. CASE \/ InReadSlept \/ Join \/ Worker \/ SpuriousWakeup \/ UNCHANGED vars
           \/ \E d \in Devices : InSetParameters(d)
           \/ \E n \in 1 .. MaxRead : InReadBegin(n)
           \/ \E state \in BOOLEAN : SetMicMute(state)
  <2>1. UNCHANGED <<standby, standby_position, since>>
    BY <1>6 DEF InReadSlept, Join, Worker, WorkerLoop, WorkerQueue, SpuriousWakeup,
       InSetParameters, InReadBegin, SetMicMute, vars, flags, position
  <2> QED
    BY <1>2, <2>1
<1>7. ~Open
  BY DEF Open
<1> QED
  BY <1>3, <1>4, <1>5, <1>6, <1>7 DEF Next

\* The capture position of an open stream never goes back
\* (get_current_input_position), over reads, standby and its end.
THEOREM PositionNeverBackAlways == Spec => PositionNeverBack
<1>1. IInv /\ [Next]_vars => [reader # "freed" => CapturePosition' >= CapturePosition]_vars
  BY CaptureStep
<1> QED
  BY <1>1, IInvAlways, PTL DEF Spec, PositionNeverBack
=============================================================================
