--------------------------- MODULE OutStreamProofs ---------------------------
(* Proofs about OutStream, for every period, number of periods, length of   *)
(* writes and set of calls that fail.                                       *)
EXTENDS OutStream, TLAPS

\* The constants as numbers; the buffer has room for a frame.
LEMMA Numbers ==
  /\ period_size \in Nat /\ period_size > 0
  /\ MaxWrite \in Nat /\ MaxFrames \in Nat /\ MaxElapsed \in Nat
  /\ frame_count \in Nat /\ frame_count > 0
<1>1. /\ period_size \in Nat /\ period_size > 0
      /\ period_count \in Nat /\ period_count > 0
  BY StreamAssumption
<1>2. period_size * period_count \in Nat /\ period_size * period_count > 0
  BY <1>1
<1> QED
  BY <1>1, <1>2, StreamAssumption DEF frame_count, MaxElapsed

Writing == client \in {"writeSleep", "writeWait"}

\* A call of out_write that waits has yet to count its frames, and the bound
\* leaves room for them.
WriteInProgress == Writing => frames_written + frames <= MaxFrames

\* The client that writes has left standby, and nobody else enters it.
WriterNotInStandby == Writing => ~standby /\ ~worker_standby

\* The exit flag is raised by the close that joins the worker.
ExitMeansJoin == worker_exit => client \in {"join", "freed"}

\* The worker ends when told to, or after a failure; it closes the device
\* outside standby after a failure only.
DoneOrFailed == /\ worker = "done" => worker_exit \/ failed
                /\ restart => failed

\* The two halves of TypeOK, which different provers deal with.
Flags ==
  /\ standby \in BOOLEAN /\ worker_standby \in BOOLEAN /\ worker_exit \in BOOLEAN
  /\ muted \in BOOLEAN /\ restart \in BOOLEAN /\ failed \in BOOLEAN
  /\ clientWoken \in BOOLEAN /\ workerWoken \in BOOLEAN

Values ==
  /\ frames_written \in 0 .. MaxFrames
  /\ underrun_position \in Nat /\ elapsed \in 0 .. MaxElapsed
  /\ live \in 0 .. frame_count
  /\ frames \in 0 .. MaxWrite /\ left \in 0 .. MaxWrite /\ sleep \in Nat
  /\ client \in {"idle", "writeSleep", "writeWait", "standby", "close", "join", "freed"}
  /\ worker \in {"top", "standbyWait", "dataWait", "write", "done"}
  /\ ext_pcm \in {"none", "open"}

LEMMA TypeParts == TypeOK <=> Flags /\ Values
BY Zenon DEF TypeOK, Flags, Values

\* What the two threads may rely on between their critical sections.
Protocol == WriteInProgress /\ WriterNotInStandby /\ ExitMeansJoin /\ DoneOrFailed

IInv == Flags /\ Values /\ Protocol /\ StandbyPositionExact /\ NoLostWakeup

LEMMA IInvInit == Init => IInv
<1> SUFFICES ASSUME Init PROVE IInv
  OBVIOUS
<1>1. Flags
  BY DEF Init, Flags
<1>2. Values
  BY Numbers DEF Init, Values
<1>3. Protocol /\ StandbyPositionExact /\ NoLostWakeup
  BY DEF Init, Protocol, WriteInProgress, Writing, WriterNotInStandby, ExitMeansJoin,
         DoneOrFailed, StandbyPositionExact, NoLostWakeup
<1> QED
  BY <1>1, <1>2, <1>3 DEF IInv

\* Time only moves the clock.
LEMMA IInvTick ==
  ASSUME IInv, Tick
  PROVE  IInv'
<1>1. Flags'
  BY DEF IInv, Flags, Tick, MIN, MAX, flags, thread
<1>2. Values'
  BY Numbers DEF IInv, Values, Flags, Protocol, WriteInProgress, Writing, Tick, MIN,
     MAX, flags, thread
<1>3. Protocol'
  BY Numbers DEF IInv, Values, Flags, Protocol, WriteInProgress, Writing,
     WriterNotInStandby, ExitMeansJoin, DoneOrFailed, Tick, MIN, MAX, flags, thread
<1>4. StandbyPositionExact'
  BY Numbers DEF IInv, Values, Flags, Protocol, WriterNotInStandby, Writing,
     StandbyPositionExact, Tick, MIN, MAX, flags, thread
<1>5. NoLostWakeup'
  BY Numbers DEF IInv, Values, Flags, Protocol, WriteInProgress, Writing,
     WriterNotInStandby, ExitMeansJoin, DoneOrFailed, NoLostWakeup, Tick, MIN, MAX,
     flags, thread
<1> QED
  BY <1>1, <1>2, <1>3, <1>4, <1>5 DEF IInv

\* Muting moves nothing else.
LEMMA IInvSetMuted ==
  ASSUME IInv, SetMuted
  PROVE  IInv'
<1>1. Flags'
  BY DEF IInv, Flags, SetMuted, flags, position, call, thread
<1>2. Values'
  BY Numbers DEF IInv, Values, Flags, Protocol, WriteInProgress, Writing, SetMuted,
     flags, position, call, thread
<1>3. Protocol'
  BY Numbers DEF IInv, Values, Flags, Protocol, WriteInProgress, Writing,
     WriterNotInStandby, ExitMeansJoin, DoneOrFailed, SetMuted, flags, position, call,
     thread
<1>4. StandbyPositionExact'
  BY Numbers DEF IInv, Values, Flags, Protocol, WriterNotInStandby, Writing,
     StandbyPositionExact, SetMuted, flags, position, call, thread
<1>5. NoLostWakeup'
  BY Numbers DEF IInv, Values, Flags, Protocol, WriteInProgress, Writing,
     WriterNotInStandby, ExitMeansJoin, DoneOrFailed, NoLostWakeup, SetMuted, flags,
     position, call, thread
<1> QED
  BY <1>1, <1>2, <1>3, <1>4, <1>5 DEF IInv

\* A reader of the position moves it to the frames written at most.
LEMMA IInvPosition ==
  ASSUME IInv, GetPresentationPosition
  PROVE  IInv'
<1>1. Flags'
  BY DEF IInv, Flags, GetPresentationPosition, SyncPosition, Position, flags, call,
     thread
<1>2. Values'
  BY Numbers DEF IInv, Values, Flags, Protocol, WriteInProgress, Writing,
     GetPresentationPosition, SyncPosition, Position, flags, call, thread
<1>3. Protocol'
  BY Numbers DEF IInv, Values, Flags, Protocol, WriteInProgress, Writing,
     WriterNotInStandby, ExitMeansJoin, DoneOrFailed, GetPresentationPosition,
     SyncPosition, Position, flags, call, thread
<1>4. StandbyPositionExact'
  BY Numbers DEF IInv, Values, Flags, Protocol, WriterNotInStandby, Writing,
     StandbyPositionExact, GetPresentationPosition, SyncPosition, Position, flags, call,
     thread
<1>5. NoLostWakeup'
  BY Numbers DEF IInv, Values, Flags, Protocol, WriteInProgress, Writing,
     WriterNotInStandby, ExitMeansJoin, DoneOrFailed, NoLostWakeup,
     GetPresentationPosition, SyncPosition, Position, flags, call, thread
<1> QED
  BY <1>1, <1>2, <1>3, <1>4, <1>5 DEF IInv

\* A wake-up can only make a waiting thread look again.
LEMMA IInvWakeup ==
  ASSUME IInv, SpuriousWakeup
  PROVE  IInv'
<1>1. Flags'
  BY DEF IInv, Flags, SpuriousWakeup, flags, position
<1>2. Values'
  BY Numbers DEF IInv, Values, Flags, Protocol, WriteInProgress, Writing,
     SpuriousWakeup, flags, position
<1>3. Protocol'
  BY Numbers DEF IInv, Values, Flags, Protocol, WriteInProgress, Writing,
     WriterNotInStandby, ExitMeansJoin, DoneOrFailed, SpuriousWakeup, flags, position
<1>4. StandbyPositionExact'
  BY Numbers DEF IInv, Values, Flags, Protocol, WriterNotInStandby, Writing,
     StandbyPositionExact, SpuriousWakeup, flags, position
<1>5. NoLostWakeup'
  BY Numbers DEF IInv, Values, Flags, Protocol, WriteInProgress, Writing,
     WriterNotInStandby, ExitMeansJoin, DoneOrFailed, NoLostWakeup, SpuriousWakeup,
     flags, position
<1> QED
  BY <1>1, <1>2, <1>3, <1>4, <1>5 DEF IInv

\* A turn of the copy loop that has to wait has filled the buffer and
\* signalled the worker.
LEMMA CopyFramesWaits ==
  ASSUME Values, NEW n, NEW m \in Nat, CopyFrames(n, m)
  PROVE  /\ client' \in {"idle", "writeWait"}
         /\ client' = "writeWait" =>
              /\ live' = frame_count
              /\ worker \in {"standbyWait", "dataWait"} => workerWoken'
<1>1. client' = "writeWait" => live' = frame_count
  BY Numbers DEF Values, CopyFrames, WriteDone, dead, MIN
<1>2. client' \in {"idle", "writeWait"}
  BY DEF CopyFrames, WriteDone
<1>3. worker \in {"standbyWait", "dataWait"} => workerWoken'
  BY DEF CopyFrames, SignalWorker
<1> QED
  BY <1>1, <1>2, <1>3

\* So no wake-up is lost by it.
LEMMA CopyFramesSignals ==
  ASSUME IInv, NEW n, NEW m \in Nat, CopyFrames(n, m),
         client \in {"idle", "writeSleep", "writeWait"},
         UNCHANGED <<worker, failed>>
  PROVE  NoLostWakeup'
<1>1. worker = "done" => failed
  BY DEF IInv, Protocol, DoneOrFailed, ExitMeansJoin
<1>2. worker \in {"top", "standbyWait", "dataWait", "write", "done"}
  BY DEF IInv, Values
<1>3. /\ client' \in {"idle", "writeWait"}
      /\ client' = "writeWait" =>
           /\ live' = frame_count
           /\ worker \in {"standbyWait", "dataWait"} => workerWoken'
  BY CopyFramesWaits DEF IInv
<1> QED
  BY <1>1, <1>2, <1>3 DEF NoLostWakeup

\* Nor by a write that is dropped.
LEMMA WriteOrMuteSignals ==
  ASSUME IInv, NEW n \in Nat, WriteOrMute(n), client \in {"idle", "writeSleep"},
         UNCHANGED <<worker, failed>>
  PROVE  NoLostWakeup'
<1>1. CASE CopyFrames(n, n)
  BY <1>1, CopyFramesSignals
<1>2. CASE WriteDone(n)
  BY <1>2 DEF WriteDone, NoLostWakeup
<1> QED
  BY <1>1, <1>2 DEF WriteOrMute

\* out_write up to its first wait.
LEMMA IInvWrite ==
  ASSUME NEW n \in 1 .. MaxWrite, IInv, OutWrite(n)
  PROVE  IInv'
<1>1. Flags'
  BY DEF IInv, Flags, OutWrite, WriteOrMute, WriteDone, CopyFrames, SignalWorker,
     SyncPosition, Position, dead, MIN, MAX
<1>2. Values'
  BY Numbers DEF IInv, Values, Flags, Protocol, WriteInProgress, Writing, OutWrite,
     WriteOrMute, WriteDone, CopyFrames, SignalWorker, SyncPosition, Position, dead,
     MIN, MAX
<1>3. Protocol'
  <2>1. client = "idle" /\ ~standby' /\ ~worker_standby' /\ worker_exit' = worker_exit
        /\ worker' = worker /\ restart' = restart /\ failed' = failed
    BY DEF OutWrite
  <2>2. WriteInProgress'
    BY Numbers DEF IInv, Values, WriteInProgress, Writing, OutWrite, WriteOrMute, WriteDone,
       CopyFrames, dead, MIN, MAX
  <2>3. WriterNotInStandby'
    BY <2>1 DEF WriterNotInStandby
  <2>4. ExitMeansJoin' /\ DoneOrFailed'
    BY <2>1 DEF IInv, Protocol, ExitMeansJoin, DoneOrFailed
  <2> QED
    BY <2>2, <2>3, <2>4 DEF Protocol
<1>4. StandbyPositionExact'
  BY Numbers DEF IInv, Values, Flags, Protocol, WriterNotInStandby, Writing,
     StandbyPositionExact, OutWrite, WriteOrMute, WriteDone, CopyFrames, SignalWorker,
     SyncPosition, Position, dead, MIN, MAX
<1>5. NoLostWakeup'
  <2>1. CASE WriteOrMute(n)
    <3>1. client = "idle" /\ UNCHANGED <<worker, failed>> /\ n \in Nat
      BY DEF OutWrite
    <3> QED
      BY <2>1, <3>1, WriteOrMuteSignals
  <2>2. CASE client' = "writeSleep"
    BY <2>2 DEF NoLostWakeup
  <2> QED
    BY <2>1, <2>2 DEF OutWrite
<1> QED
  BY <1>1, <1>2, <1>3, <1>4, <1>5 DEF IInv

\* out_write after its sleep.
LEMMA IInvWriteSlept ==
  ASSUME IInv, OutWriteSlept
  PROVE  IInv'
<1>1. Flags'
  BY DEF IInv, Flags, OutWriteSlept, WriteOrMute, WriteDone, CopyFrames, SignalWorker,
     dead, MIN, flags
<1>2. Values'
  BY Numbers DEF IInv, Values, Flags, Protocol, WriteInProgress, Writing,
     OutWriteSlept, WriteOrMute, WriteDone, CopyFrames, SignalWorker, dead, MIN, flags
<1>3. Protocol'
  BY Numbers DEF IInv, Values, Flags, Protocol, WriteInProgress, Writing,
     WriterNotInStandby, ExitMeansJoin, DoneOrFailed, OutWriteSlept, WriteOrMute,
     WriteDone, CopyFrames, SignalWorker, dead, MIN, flags
<1>4. StandbyPositionExact'
  BY Numbers DEF IInv, Values, Flags, Protocol, WriterNotInStandby, Writing,
     StandbyPositionExact, OutWriteSlept, WriteOrMute, WriteDone, CopyFrames,
     SignalWorker, dead, MIN, flags
<1>5. NoLostWakeup'
  <2>1. /\ client = "writeSleep" /\ UNCHANGED <<worker, failed>>
        /\ WriteOrMute(frames) /\ frames \in Nat
    BY Numbers DEF OutWriteSlept, IInv, Values
  <2> QED
    BY <2>1, WriteOrMuteSignals
<1> QED
  BY <1>1, <1>2, <1>3, <1>4, <1>5 DEF IInv

\* out_write after a wait for room.
LEMMA IInvWriteWoken ==
  ASSUME IInv, OutWriteWoken
  PROVE  IInv'
<1>1. Flags'
  BY DEF IInv, Flags, OutWriteWoken, WriteDone, CopyFrames, SignalWorker, dead, MIN,
     flags
<1>2. Values'
  BY Numbers DEF IInv, Values, Flags, Protocol, WriteInProgress, Writing,
     OutWriteWoken, WriteDone, CopyFrames, SignalWorker, dead, MIN, flags
<1>3. Protocol'
  BY Numbers DEF IInv, Values, Flags, Protocol, WriteInProgress, Writing,
     WriterNotInStandby, ExitMeansJoin, DoneOrFailed, OutWriteWoken, WriteDone,
     CopyFrames, SignalWorker, dead, MIN, flags
<1>4. StandbyPositionExact'
  BY Numbers DEF IInv, Values, Flags, Protocol, WriterNotInStandby, Writing,
     StandbyPositionExact, OutWriteWoken, WriteDone, CopyFrames, SignalWorker, dead,
     MIN, flags
<1>5. NoLostWakeup'
  <2>1. /\ client = "writeWait" /\ UNCHANGED <<worker, failed>>
        /\ CopyFrames(frames, left) /\ left \in Nat
    BY Numbers DEF OutWriteWoken, IInv, Values
  <2> QED
    BY <2>1, CopyFramesSignals
<1> QED
  BY <1>1, <1>2, <1>3, <1>4, <1>5 DEF IInv

\* A turn of do_out_standby.
LEMMA IInvStandby ==
  ASSUME NEW op \in {"standby", "close"}, IInv, OutStandby(op)
  PROVE  IInv'
<1>1. Flags'
  BY DEF IInv, Flags, OutStandby, DoOutStandby, StandbyDone, SignalWorker, Reported,
     Position, MIN, flags
<1>2. Values'
  BY Numbers DEF IInv, Values, Flags, Protocol, WriteInProgress, Writing, OutStandby,
     DoOutStandby, StandbyDone, SignalWorker, Reported, Position, MIN, flags
<1>3. Protocol'
  BY Numbers DEF IInv, Values, Flags, Protocol, WriteInProgress, Writing,
     WriterNotInStandby, ExitMeansJoin, DoneOrFailed, OutStandby, DoOutStandby,
     StandbyDone, SignalWorker, Reported, Position, MIN, flags
<1>4. StandbyPositionExact'
  <2>1. CASE standby
    BY <2>1 DEF IInv, StandbyPositionExact, OutStandby, DoOutStandby
  <2>2. CASE ~standby /\ Reported = frames_written
    BY <2>2 DEF StandbyPositionExact, OutStandby, DoOutStandby
  <2>3. CASE ~standby /\ Reported # frames_written
    <3>1. ~standby'
      BY <2>3 DEF OutStandby, DoOutStandby, flags
    <3> QED
      BY <3>1 DEF StandbyPositionExact
  <2> QED
    BY <2>1, <2>2, <2>3
<1>5. NoLostWakeup'
  BY Numbers DEF IInv, Values, Flags, Protocol, WriteInProgress, Writing,
     WriterNotInStandby, ExitMeansJoin, DoneOrFailed, NoLostWakeup, OutStandby,
     DoOutStandby, StandbyDone, SignalWorker, Reported, Position, MIN, flags
<1> QED
  BY <1>1, <1>2, <1>3, <1>4, <1>5 DEF IInv

\* The end of the close.
LEMMA IInvJoin ==
  ASSUME IInv, Join
  PROVE  IInv'
<1>1. Flags'
  BY DEF IInv, Flags, Join, flags, position, thread
<1>2. Values'
  BY Numbers DEF IInv, Values, Flags, Protocol, WriteInProgress, Writing, Join, flags,
     position, thread
<1>3. Protocol'
  BY Numbers DEF IInv, Values, Flags, Protocol, WriteInProgress, Writing,
     WriterNotInStandby, ExitMeansJoin, DoneOrFailed, Join, flags, position, thread
<1>4. StandbyPositionExact'
  BY Numbers DEF IInv, Values, Flags, Protocol, WriterNotInStandby, Writing,
     StandbyPositionExact, Join, flags, position, thread
<1>5. NoLostWakeup'
  BY Numbers DEF IInv, Values, Flags, Protocol, WriteInProgress, Writing,
     WriterNotInStandby, ExitMeansJoin, DoneOrFailed, NoLostWakeup, Join, flags,
     position, thread
<1> QED
  BY <1>1, <1>2, <1>3, <1>4, <1>5 DEF IInv

\* A new stream.
LEMMA IInvOpen ==
  ASSUME IInv, Open
  PROVE  IInv'
<1>1. Flags'
  BY DEF IInv, Flags, Open
<1>2. Values'
  BY Numbers DEF IInv, Values, Flags, Protocol, WriteInProgress, Writing, Open
<1>3. Protocol'
  BY Numbers DEF IInv, Values, Flags, Protocol, WriteInProgress, Writing,
     WriterNotInStandby, ExitMeansJoin, DoneOrFailed, Open
<1>4. StandbyPositionExact'
  BY Numbers DEF IInv, Values, Flags, Protocol, WriterNotInStandby, Writing,
     StandbyPositionExact, Open
<1>5. NoLostWakeup'
  BY Numbers DEF IInv, Values, Flags, Protocol, WriteInProgress, Writing,
     WriterNotInStandby, ExitMeansJoin, DoneOrFailed, NoLostWakeup, Open
<1> QED
  BY <1>1, <1>2, <1>3, <1>4, <1>5 DEF IInv

\* A worker that fetches or waits finds the buffer not empty while a client
\* waits, and signals it.
LEMMA FetchOrWaitSignals ==
  ASSUME IInv, FetchOrWait, client' = client
  PROVE  NoLostWakeup'
<1> SUFFICES ASSUME client = "writeWait", ~clientWoken'
             PROVE  /\ live' = frame_count
                    /\ ~failed' => worker' \in {"top", "write"} \/ workerWoken'
  BY DEF NoLostWakeup
<1>1. CASE live = 0 /\ UNCHANGED clientWoken
  BY <1>1, Numbers DEF IInv, NoLostWakeup
<1>2. CASE Fetch
  BY <1>2 DEF Fetch, SignalClient
<1>3. CASE failed' /\ UNCHANGED <<live, clientWoken>>
  BY <1>3 DEF IInv, NoLostWakeup
<1> QED
  BY <1>1, <1>2, <1>3 DEF FetchOrWait

\* The worker at the top of its loop.
LEMMA IInvWorkerLoop ==
  ASSUME IInv, WorkerLoop
  PROVE  IInv'
<1>1. Flags'
  BY DEF IInv, Flags, WorkerLoop, FetchOrWait, Fetch, WaitIn, SignalClient, MIN,
     flags, position
<1>2. Values'
  BY Numbers DEF IInv, Values, Flags, Protocol, WriteInProgress, Writing, WorkerLoop,
     FetchOrWait, Fetch, WaitIn, SignalClient, MIN, flags, position
<1>3. Protocol'
  BY Numbers DEF IInv, Values, Flags, Protocol, WriteInProgress, Writing,
     WriterNotInStandby, ExitMeansJoin, DoneOrFailed, WorkerLoop, FetchOrWait, Fetch,
     WaitIn, SignalClient, MIN, flags, position
<1>4. StandbyPositionExact'
  BY Numbers DEF IInv, Values, Flags, Protocol, WriterNotInStandby, Writing,
     StandbyPositionExact, WorkerLoop, FetchOrWait, Fetch, WaitIn, SignalClient, MIN,
     flags, position
<1>5. NoLostWakeup'
  <2>0. client' = client
    BY DEF WorkerLoop
  <2>1. CASE FetchOrWait
    BY <2>0, <2>1, FetchOrWaitSignals
  <2>2. CASE (worker_standby \/ restart) /\ UNCHANGED <<live, clientWoken, failed>>
    BY <2>0, <2>2 DEF IInv, Protocol, WriterNotInStandby, Writing, DoneOrFailed, NoLostWakeup
  <2>3. CASE worker_exit
    BY <2>0, <2>3 DEF IInv, Protocol, ExitMeansJoin, NoLostWakeup
  <2> QED
    BY <2>1, <2>2, <2>3 DEF WorkerLoop
<1> QED
  BY <1>1, <1>2, <1>3, <1>4, <1>5 DEF IInv

\* The worker after its wait for data.
LEMMA IInvWorkerData ==
  ASSUME IInv, WorkerData
  PROVE  IInv'
<1>1. Flags'
  BY DEF IInv, Flags, WorkerData, FetchOrWait, Fetch, WaitIn, SignalClient, MIN,
     flags, position
<1>2. Values'
  BY Numbers DEF IInv, Values, Flags, Protocol, WriteInProgress, Writing, WorkerData,
     FetchOrWait, Fetch, WaitIn, SignalClient, MIN, flags, position
<1>3. Protocol'
  BY Numbers DEF IInv, Values, Flags, Protocol, WriteInProgress, Writing,
     WriterNotInStandby, ExitMeansJoin, DoneOrFailed, WorkerData, FetchOrWait, Fetch,
     WaitIn, SignalClient, MIN, flags, position
<1>4. StandbyPositionExact'
  BY Numbers DEF IInv, Values, Flags, Protocol, WriterNotInStandby, Writing,
     StandbyPositionExact, WorkerData, FetchOrWait, Fetch, WaitIn, SignalClient, MIN,
     flags, position
<1>5. NoLostWakeup'
  BY FetchOrWaitSignals DEF WorkerData
<1> QED
  BY <1>1, <1>2, <1>3, <1>4, <1>5 DEF IInv

\* The worker after ext_pcm_write.
LEMMA IInvWorkerWrite ==
  ASSUME IInv, WorkerWrite
  PROVE  IInv'
<1>1. Flags'
  BY DEF IInv, Flags, WorkerWrite, flags, position, call
<1>2. Values'
  BY Numbers DEF IInv, Values, Flags, Protocol, WriteInProgress, Writing, WorkerWrite,
     flags, position, call
<1>3. Protocol'
  BY Numbers DEF IInv, Values, Flags, Protocol, WriteInProgress, Writing,
     WriterNotInStandby, ExitMeansJoin, DoneOrFailed, WorkerWrite, flags, position, call
<1>4. StandbyPositionExact'
  BY Numbers DEF IInv, Values, Flags, Protocol, WriterNotInStandby, Writing,
     StandbyPositionExact, WorkerWrite, flags, position, call
<1>5. NoLostWakeup'
  BY Numbers DEF IInv, Values, Flags, Protocol, WriteInProgress, Writing,
     WriterNotInStandby, ExitMeansJoin, DoneOrFailed, NoLostWakeup, WorkerWrite, flags,
     position, call
<1> QED
  BY <1>1, <1>2, <1>3, <1>4, <1>5 DEF IInv

\* Every step preserves the inductive invariant.
LEMMA IInvNext == IInv /\ [Next]_vars => IInv'
<1> SUFFICES ASSUME IInv, [Next]_vars PROVE IInv'
  OBVIOUS
<1>1. CASE Client
  BY <1>1, IInvWrite, IInvStandby, IInvWriteSlept, IInvWriteWoken, IInvJoin, IInvOpen DEF Client
<1>2. CASE Worker
  BY <1>2, IInvWorkerLoop, IInvWorkerData, IInvWorkerWrite DEF Worker
<1>3. CASE Tick \/ SetMuted \/ GetPresentationPosition \/ SpuriousWakeup
  BY <1>3, IInvTick, IInvSetMuted, IInvPosition, IInvWakeup
<1>4. CASE UNCHANGED vars
  BY <1>4 DEF vars, flags, position, call, thread, IInv, Flags, Values, Protocol,
     WriteInProgress, Writing, WriterNotInStandby, ExitMeansJoin, DoneOrFailed,
     StandbyPositionExact, NoLostWakeup
<1> QED
  BY <1>1, <1>2, <1>3, <1>4 DEF Next

LEMMA IInvAlways == Spec => []IInv
BY IInvInit, IInvNext, PTL DEF Spec

\* Every variable of an output stream keeps its type: the ring buffer never
\* holds more than it can, and a write never counts more than the bound.
THEOREM TypeCorrect == Spec => []TypeOK
<1>1. IInv => TypeOK
  BY TypeParts DEF IInv
<1> QED
  BY <1>1, IInvAlways, PTL

\* A stream in standby reports that all it was given has been played
\* (do_out_standby, whose loop sleeps without the lock).
THEOREM StandbyPositionExactAlways == Spec => []StandbyPositionExact
<1>1. IInv => StandbyPositionExact
  BY DEF IInv
<1> QED
  BY <1>1, IInvAlways, PTL

\* No wake-up is lost between out_write and out_write_worker.
THEOREM NoLostWakeupAlways == Spec => []NoLostWakeup
<1>1. IInv => NoLostWakeup
  BY DEF IInv
<1> QED
  BY <1>1, IInvAlways, PTL

\* Positions as numbers.
LEMMA PositionType ==
  ASSUME IInv
  PROVE  /\ Position \in Nat /\ frames_written \in Nat /\ Reported \in Nat
         /\ Reported <= frames_written /\ Reported <= Position
         /\ standby => Reported = frames_written
BY Numbers DEF IInv, Flags, Values, Position, Reported, MIN, StandbyPositionExact

\* So they are after a step.
LEMMA NextPositionType == IInv' => (Position \in Nat)' /\ (frames_written \in Nat)'
<1>1. IInv => Position \in Nat /\ frames_written \in Nat
  BY PositionType
<1> QED
  BY <1>1, PTL

\* The position is not moved back by a step that moves neither it nor the
\* count of frames back.
LEMMA ReportedGrows ==
  ASSUME IInv, IInv', Position' >= Reported, frames_written' >= frames_written
  PROVE  Reported' >= Reported
<1>1. /\ Position \in Nat /\ frames_written \in Nat /\ Reported \in Nat
      /\ Reported <= frames_written
  BY PositionType
<1>2. Position' \in Nat /\ frames_written' \in Nat
  BY NextPositionType
<1> QED
  BY <1>1, <1>2 DEF Reported, MIN

\* The effect of get_current_output_position does not move it back.
LEMMA SyncGrows ==
  ASSUME IInv, SyncPosition, standby' \in {standby, FALSE}
  PROVE  Position' >= Reported
<1>1. underrun_position \in Nat /\ elapsed \in Nat /\ frames_written \in Nat
  BY Numbers DEF IInv, Values
<1>2. CASE standby'
  <2>1. standby
    BY <1>2
  <2> QED
    BY <1>1, <1>2, <2>1 DEF SyncPosition, Position, Reported, MIN
<1>3. CASE ~standby'
  <2>1. CASE standby
    BY <1>1, <1>3, <2>1 DEF SyncPosition, Position, Reported, MIN
  <2>2. CASE ~standby
    BY <1>1, <1>3, <2>2 DEF SyncPosition, Position, Reported, MIN
  <2> QED
    BY <2>1, <2>2
<1> QED
  BY <1>2, <1>3

\* Nor does a step of a stream that has not been freed.
LEMMA PositionStep ==
  ASSUME IInv, IInv', [Next]_vars, client # "freed"
  PROVE  Reported' >= Reported
<1> USE PositionType
<1>1. ASSUME UNCHANGED <<standby, frames_written, underrun_position, elapsed>>
      PROVE  Reported' >= Reported
  BY <1>1 DEF Reported, Position, MIN
<1>2. CASE Tick
  <2>1. Position' >= Reported /\ frames_written' = frames_written
    BY <1>2, Numbers DEF Tick, flags, IInv, Values, Position, Reported, MIN
  <2> QED
    BY <2>1, ReportedGrows
<1>3. CASE GetPresentationPosition
  <2>1. SyncPosition /\ UNCHANGED <<standby, frames_written>>
    BY <1>3 DEF GetPresentationPosition, flags
  <2> QED
    BY <2>1, SyncGrows, ReportedGrows
<1>4. ASSUME NEW n \in 1 .. MaxWrite, OutWrite(n)
      PROVE  Reported' >= Reported
  <2>1. frames_written' >= frames_written
    BY <1>4 DEF OutWrite, WriteOrMute, CopyFrames, WriteDone
  <2>2. CASE standby
    <3>1. Position' = frames_written
      BY <1>4, <2>2 DEF OutWrite, Position, IInv, StandbyPositionExact, Values
    <3> QED
      BY <2>1, <3>1, ReportedGrows
  <2>3. CASE ~standby
    <3>1. SyncPosition /\ standby' = FALSE
      BY <1>4, <2>3 DEF OutWrite
    <3> QED
      BY <2>1, <3>1, SyncGrows, ReportedGrows
  <2> QED
    BY <2>2, <2>3
<1>5. CASE OutWriteSlept \/ OutWriteWoken
  <2>1. frames_written' >= frames_written
    BY <1>5, Numbers DEF OutWriteSlept, OutWriteWoken, WriteOrMute, CopyFrames, WriteDone,
       IInv, Values
  <2>2. Position' = Position
    BY <1>5 DEF OutWriteSlept, OutWriteWoken, flags, Position
  <2> QED
    BY <2>1, <2>2, ReportedGrows
<1>6. ASSUME NEW op, OutStandby(op)
      PROVE  Reported' >= Reported
  <2>0. frames_written' = frames_written
    BY <1>6 DEF OutStandby
  <2>1. CASE standby
    <3>1. UNCHANGED <<standby, underrun_position, elapsed>>
      BY <1>6, <2>1 DEF OutStandby, DoOutStandby
    <3> QED
      BY <2>0, <3>1, <1>1
  <2>2. CASE ~standby
    <3>1. underrun_position' = Reported /\ elapsed' \in {0, elapsed}
      BY <1>6, <2>2 DEF OutStandby, DoOutStandby
    <3>2. standby' \in BOOLEAN /\ elapsed \in Nat
      BY Numbers DEF IInv, Flags, Values
    <3>3. Position' >= Reported
      BY <3>1, <3>2, PositionType DEF Position
    <3> QED
      BY <2>0, <3>3, ReportedGrows
  <2> QED
    BY <2>1, <2>2
<1>7. CASE SetMuted \/ SpuriousWakeup \/ Join \/ Worker \/ UNCHANGED vars
  <2>1. UNCHANGED <<standby, frames_written, underrun_position, elapsed>>
    BY <1>7 DEF SetMuted, SpuriousWakeup, Join, Worker, WorkerLoop, WorkerData, WorkerWrite,
       vars, flags, position
  <2> QED
    BY <2>1, <1>1
<1>8. ~Open
  BY DEF Open
<1> QED
  BY <1>2, <1>3, <1>4, <1>5, <1>6, <1>7, <1>8 DEF Next, Client

\* The position a client is told never goes back, across underruns, writes,
\* standby and concurrent readers (get_current_output_position).
THEOREM PositionNeverBackAlways == Spec => PositionNeverBack
<1>1. IInv /\ IInv' /\ [Next]_vars => [client # "freed" => Reported' >= Reported]_vars
  BY PositionStep
<1> QED
  BY <1>1, IInvAlways, PTL DEF Spec, PositionNeverBack
=============================================================================
