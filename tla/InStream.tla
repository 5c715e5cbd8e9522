------------------------------- MODULE InStream -------------------------------
(***************************************************************************)
(* One input stream of the audio HAL: the framework's thread that reads    *)
(* and closes the stream, other threads that put it in standby, route it,  *)
(* ask for its position and mute the microphone, and the worker thread,    *)
(* which captures into the ring buffer.  All work under in->lock, the mute *)
(* flag under adev->lock, so an action is a critical section.  Capture is  *)
(* timed by the clock alone: a read sleeps for as long as the frames it    *)
(* lacks take, then has whatever is in the buffer.  The clock ticks in     *)
(* microseconds, US of them to the second.                                 *)
(***************************************************************************)
EXTENDS Integers

CONSTANTS rate,           \* frames per second
          US,             \* microseconds per second
          MinOversleep,   \* microseconds usleep sleeps beyond the request
          period_size,    \* frames the worker captures at a time
          period_count,   \* periods in the ring buffer
          MaxRead,        \* bound: frames of one in_read
          MaxFrames,      \* bound: frames read between two standbys
          MaxPosition,    \* bound: a position beyond it is reported as it
          Failures        \* external calls that may fail: "open", "read", "alloc"

ASSUME InStreamAssumption ==
  /\ rate \in Nat \ {0} /\ US \in Nat /\ US >= rate
  /\ MinOversleep \in Nat \ {0}
  /\ period_size \in Nat \ {0} /\ period_count \in Nat \ {0}
  /\ MaxRead \in Nat /\ MaxFrames \in Nat /\ MaxPosition \in Nat
  /\ Failures \subseteq {"open", "read", "alloc"}

VARIABLES
  \* struct generic_stream_in
  standby, worker_standby, worker_exit,
  standby_position, standby_frames_read,
  since,               \* microseconds since standby_exit_time
  device,              \* "mic", "tone" (a tone generator) or "bus" (another)
  live,                \* frames in in->buffer
  mic_mute,            \* adev->mic_mute
  \* the framework's thread
  reader,
  frames,              \* in_read: frames of the call
  is_tone_generator,   \* in_read: local
  read_mute,           \* in_read: the local mic_mute until in->lock is taken,
                       \* then read_mute
  sleep,               \* microseconds left of usleep
  result,              \* what the last in_read returned: "silence", frames of
                       \* in->buffer ("captured") or of the oscillator ("tone")
  heard,               \* history: the microphone was not muted at some moment
                       \* of the in_read in progress
  \* the worker thread
  worker, workerWoken, restart,
  pcm                  \* is the device open?

flags == <<standby, worker_standby, worker_exit>>
position == <<standby_position, standby_frames_read, since>>
call == <<reader, frames, is_tone_generator, read_mute, sleep, result, heard>>
thread == <<worker, workerWoken, restart, pcm>>
vars == <<flags, position, device, live, mic_mute, call, thread>>

Devices == {"mic", "tone", "bus"}
Waits == {"standbyWait", "restartWait"}

\* in->lock can be had by another thread: the stream exists, and its own
\* thread is in no critical section.
Unlocked == {"idle", "readLock", "readSleep"}

MIN(a, b) == IF a < b THEN a ELSE b
MAX(a, b) == IF a > b THEN a ELSE b

frame_count == period_size * period_count

\* By then every frame that is ever read has been captured.
MaxSince == (MaxFrames * US) \div rate + 1

-----------------------------------------------------------------------------
(* adev_open_input_stream: a new stream, in standby, and its worker.       *)

Init ==
  /\ standby = TRUE /\ worker_standby = TRUE /\ worker_exit = FALSE
  /\ standby_position = 0 /\ standby_frames_read = 0 /\ since = MaxSince
  /\ device \in Devices
  /\ live = 0 /\ mic_mute = FALSE
  /\ reader = "idle" /\ frames = 0 /\ is_tone_generator = FALSE /\ read_mute = FALSE
  /\ sleep = 0 /\ result = "none" /\ heard = FALSE
  /\ worker = "top" /\ workerWoken = FALSE /\ restart = FALSE /\ pcm = FALSE

\* Time passes.
Tick ==
  /\ since < MaxSince \/ sleep > 0
  /\ since' = MIN(since + 1, MaxSince)
  /\ sleep' = MAX(sleep - 1, 0)
  /\ UNCHANGED <<flags, standby_position, standby_frames_read, device, live, mic_mute,
                 reader, frames, is_tone_generator, read_mute, result, heard, thread>>

\* pthread_cond_signal(&in->worker_wake): lost when nobody waits.
SignalWorker == workerWoken' = (workerWoken \/ worker \in Waits)

\* A wait may return without a signal.
SpuriousWakeup ==
  /\ worker \in Waits /\ ~workerWoken
  /\ workerWoken' = TRUE
  /\ UNCHANGED <<flags, position, device, live, mic_mute, call, worker, restart, pcm>>

-----------------------------------------------------------------------------
(* get_current_input_position.                                             *)

PositionSinceStandby == IF standby THEN 0 ELSE (since * rate) \div US

Position == standby_position + PositionSinceStandby

\* What in_get_capture_position returns; it changes nothing.
CapturePosition == MIN(Position, MaxPosition)

-----------------------------------------------------------------------------
(* do_in_standby, in_standby and in_set_parameters.                        *)

\* Mutant: standby is entered before the position is computed.
DoInStandbyLate ==
  \/ standby /\ UNCHANGED <<standby, worker_standby, standby_position>>
  \/ /\ ~standby
     /\ worker_standby' = TRUE
     /\ standby' = TRUE
     /\ UNCHANGED standby_position

DoInStandby ==
  \/ standby /\ UNCHANGED <<standby, worker_standby, standby_position>>
  \/ /\ ~standby
     /\ worker_standby' = TRUE
     /\ standby_position' = CapturePosition
     /\ standby' = TRUE

\* From any thread, also while a read is in progress.
InStandby ==
  /\ reader \in Unlocked
  /\ DoInStandby
  /\ UNCHANGED <<worker_exit, standby_frames_read, since, device, live, mic_mute, call,
                 thread>>

\* Mutant: the routing may change under a running stream.
InSetParametersAnytime(d) ==
  /\ reader \in Unlocked
  /\ device' = d
  /\ UNCHANGED <<flags, position, live, mic_mute, call, thread>>

\* From any thread; refused with -ENOSYS outside standby.
InSetParameters(d) ==
  /\ reader \in Unlocked
  /\ standby
  /\ device' = d
  /\ UNCHANGED <<flags, position, live, mic_mute, call, thread>>

-----------------------------------------------------------------------------
(* in_read.                                                                *)

FramesAvailable == PositionSinceStandby - standby_frames_read

\* Mutant: the call sleeps one frame short.
SleepTimeShort(n) ==
  LET available == IF standby THEN 0 ELSE FramesAvailable
      frames_wait == IF available > n THEN 0 ELSE n - available
  IN (MAX(frames_wait - 1, 0) * US) \div rate

\* sleep_time_us of a read of n frames, rounded down.  The read that ends
\* standby counts the frames from there.
SleepTime(n) ==
  LET available == IF standby THEN 0 ELSE FramesAvailable
      frames_wait == IF available > n THEN 0 ELSE n - available
  IN (frames_wait * US) \div rate

\* The call begins: it copies adev->mic_mute under adev->lock, before it
\* takes in->lock.
InReadBegin(n) ==
  /\ reader = "idle"
  /\ (IF standby THEN 0 ELSE standby_frames_read) + n <= MaxFrames
  /\ reader' = "readLock" /\ frames' = n /\ result' = "none"
  /\ read_mute' = mic_mute /\ heard' = ~mic_mute
  /\ UNCHANGED <<flags, position, device, live, mic_mute, is_tone_generator, sleep, thread>>

\* Mutant: only a microphone's worker is signalled.
InReadNoSignal ==
  /\ reader = "readLock"
  /\ worker_standby' = FALSE
  /\ read_mute' = (read_mute /\ device = "mic")
  /\ is_tone_generator' = (device = "tone")
  /\ IF device = "mic" THEN SignalWorker ELSE UNCHANGED workerWoken
  /\ standby' = FALSE
  /\ standby_frames_read' = IF standby THEN 0 ELSE standby_frames_read
  /\ since' = IF standby THEN 0 ELSE since
  /\ sleep' = IF SleepTime(frames) > 0 THEN SleepTime(frames) + MinOversleep ELSE 0
  /\ reader' = "readSleep"
  /\ UNCHANGED <<worker_exit, standby_position, device, live, mic_mute, frames, result,
                 heard, worker, restart, pcm>>

\* The first critical section: leave standby, wake the worker unless the
\* device generates its own tone, and sleep without the lock.
InRead ==
  /\ reader = "readLock"
  /\ worker_standby' = FALSE
  /\ read_mute' = (read_mute /\ device = "mic")
  /\ is_tone_generator' = (device = "tone")
  /\ IF device # "tone" THEN SignalWorker ELSE UNCHANGED workerWoken
  /\ standby' = FALSE
  /\ standby_frames_read' = IF standby THEN 0 ELSE standby_frames_read
  /\ since' = IF standby THEN 0 ELSE since
  /\ sleep' = IF SleepTime(frames) > 0 THEN SleepTime(frames) + MinOversleep ELSE 0
  /\ reader' = "readSleep"
  /\ UNCHANGED <<worker_exit, standby_position, device, live, mic_mute, frames, result,
                 heard, worker, restart, pcm>>

\* What the caller finds in its buffer: read_frames of the kind captured,
\* and zeros for the rest.
Returned(kind, read_frames) ==
  IF read_mute \/ read_frames = 0 THEN "silence" ELSE kind

\* The second critical section.  A stream put in standby meanwhile returns
\* silence; another one counts the frames as read, however few there are.
\* The buffer that turns stereo into mono may not be had.
InReadSlept ==
  /\ reader = "readSleep" /\ sleep = 0
  /\ reader' = "idle" /\ frames' = 0 /\ heard' = FALSE
  /\ is_tone_generator' = FALSE /\ read_mute' = FALSE
  /\ \/ /\ standby
        /\ result' = "silence"
        /\ UNCHANGED <<standby_frames_read, live>>
     \/ /\ ~standby
        /\ standby_frames_read' = standby_frames_read + frames
        /\ \/ /\ is_tone_generator
              /\ result' = Returned("tone", frames)
              /\ UNCHANGED live
           \/ /\ ~is_tone_generator
              /\ live' = live - MIN(frames, live)
              /\ result' = Returned("captured", MIN(frames, live))
           \/ /\ ~is_tone_generator /\ "alloc" \in Failures
              /\ result' = "silence"
              /\ UNCHANGED live
  /\ UNCHANGED <<flags, standby_position, since, device, mic_mute, sleep, thread>>

\* adev_set_mic_mute, from any thread; adev_get_mic_mute changes nothing.
SetMicMute(state) ==
  /\ mic_mute' = state
  /\ heard' = (reader \in {"readLock", "readSleep"} /\ (heard \/ ~state))
  /\ UNCHANGED <<flags, position, device, live, reader, frames, is_tone_generator,
                 read_mute, sleep, result, thread>>

-----------------------------------------------------------------------------
(* adev_close_input_stream.                                                *)

Close ==
  /\ reader = "idle"
  /\ DoInStandby
  /\ worker_exit' = TRUE
  /\ SignalWorker
  /\ reader' = "join" /\ result' = "none"
  /\ UNCHANGED <<standby_frames_read, since, device, live, mic_mute, frames,
                 is_tone_generator, read_mute, sleep, heard, worker, restart, pcm>>

\* Join the worker and free the stream.
Join ==
  /\ reader = "join" /\ worker = "done"
  /\ reader' = "freed"
  /\ UNCHANGED <<flags, position, device, live, mic_mute, frames, is_tone_generator,
                 read_mute, sleep, result, heard, thread>>

\* adev_open_input_stream opens the next stream.
Open ==
  /\ reader = "freed"
  /\ standby' = TRUE /\ worker_standby' = TRUE /\ worker_exit' = FALSE
  /\ standby_position' = 0 /\ standby_frames_read' = 0 /\ since' = MaxSince
  /\ device' \in Devices
  /\ live' = 0
  /\ reader' = "idle" /\ frames' = 0 /\ is_tone_generator' = FALSE /\ read_mute' = FALSE
  /\ sleep' = 0 /\ result' = "none" /\ heard' = FALSE
  /\ worker' = "top" /\ workerWoken' = FALSE /\ restart' = FALSE /\ pcm' = FALSE
  /\ UNCHANGED mic_mute

-----------------------------------------------------------------------------
(* in_read_worker.                                                         *)

\* Mutant: a worker told to exit while in standby goes back to its wait.
WorkerLoopWaits ==
  /\ worker = "top" \/ (worker \in Waits /\ workerWoken)
  /\ workerWoken' = FALSE /\ restart' = FALSE
  /\ \/ /\ worker_standby \/ restart
        /\ pcm' = FALSE
        /\ worker' = IF restart THEN "restartWait" ELSE "standbyWait"
     \/ /\ ~worker_standby /\ ~restart
        /\ \/ worker_exit /\ worker' = "done" /\ UNCHANGED pcm
           \/ ~worker_exit /\ worker' = "read" /\ pcm' = TRUE
  /\ UNCHANGED <<flags, position, device, live, mic_mute, call>>

\* From the top of the loop, or from the wait.  In standby, or after a
\* failed pcm_read, close the device and wait; else see that it is open and
\* go on to read it.  When it does not open the thread ends.
WorkerLoop ==
  /\ worker = "top" \/ (worker \in Waits /\ workerWoken)
  /\ workerWoken' = FALSE /\ restart' = FALSE
  /\ \/ /\ worker_standby \/ restart
        /\ pcm' = FALSE
        /\ worker' = IF worker_exit THEN "done"
                     ELSE IF restart THEN "restartWait" ELSE "standbyWait"
     \/ /\ ~worker_standby /\ ~restart
        /\ \/ worker_exit /\ worker' = "done" /\ UNCHANGED pcm
           \/ ~worker_exit /\ worker' = "read" /\ pcm' = TRUE
           \/ ~worker_exit /\ ~pcm /\ "open" \in Failures /\ worker' = "done" /\ UNCHANGED pcm
  /\ UNCHANGED <<flags, position, device, live, mic_mute, call>>

\* Mutant: the frames are queued without regard to the room.
WorkerQueueAll ==
  /\ worker = "read"
  /\ worker' = "top"
  /\ live' = live + period_size
  /\ restart' \in {FALSE} \cup (IF "read" \in Failures THEN {TRUE} ELSE {})
  /\ UNCHANGED <<flags, position, device, mic_mute, call, workerWoken, pcm>>

\* pcm_read, without the lock, then audio_vbuffer_write of what it left in
\* the worker's buffer, whether it failed or not; what does not fit is lost.
WorkerQueue ==
  /\ worker = "read"
  /\ worker' = "top"
  /\ live' = MIN(live + period_size, frame_count)
  /\ restart' \in {FALSE} \cup (IF "read" \in Failures THEN {TRUE} ELSE {})
  /\ UNCHANGED <<flags, position, device, mic_mute, call, workerWoken, pcm>>

-----------------------------------------------------------------------------
Worker == WorkerLoop \/ WorkerQueue

Next ==
  \/ \E n \in 1 .. MaxRead : InReadBegin(n)
  \/ \E state \in BOOLEAN : SetMicMute(state)
  \/ InRead \/ InReadSlept \/ InStandby \/ Close \/ Join \/ Open
  \/ \E d \in Devices : InSetParameters(d)
  \/ Worker \/ Tick \/ SpuriousWakeup

Spec == Init /\ [][Next]_vars

\* A call in progress goes on, the worker runs and pcm_read returns, time
\* passes.  Nobody need make another call.
FairSpec ==
  /\ Spec /\ WF_vars(Tick) /\ WF_vars(Worker)
  /\ WF_vars(InRead) /\ WF_vars(InReadSlept) /\ WF_vars(Join)

-----------------------------------------------------------------------------
(* Properties.                                                             *)

\* Every variable has its type; the buffer never holds more than it can.
TypeOK ==
  /\ standby \in BOOLEAN /\ worker_standby \in BOOLEAN /\ worker_exit \in BOOLEAN
  /\ standby_position \in 0 .. MaxPosition /\ standby_frames_read \in 0 .. MaxFrames
  /\ since \in 0 .. MaxSince /\ sleep \in Nat
  /\ device \in Devices /\ live \in 0 .. frame_count /\ mic_mute \in BOOLEAN
  /\ reader \in Unlocked \cup {"join", "freed"}
  /\ frames \in 0 .. MaxRead
  /\ is_tone_generator \in BOOLEAN /\ read_mute \in BOOLEAN
  /\ result \in {"none", "silence", "captured", "tone"} /\ heard \in BOOLEAN
  /\ worker \in Waits \cup {"top", "read", "done"}
  /\ workerWoken \in BOOLEAN /\ restart \in BOOLEAN /\ pcm \in BOOLEAN

\* assert(frames_available >= 0) in in_read: although both the position and
\* the time to sleep are rounded down, no call has counted more frames than
\* the clock has captured, because usleep sleeps longer than it is asked to.
AssertAvailable == reader \in {"idle", "readLock"} /\ ~standby => FramesAvailable >= 0

\* The worker does not sleep through a read: while it waits for the end of
\* standby unsignalled, the stream is in standby or generates its own tone,
\* however standby, routing and reads were interleaved.
NoLostWakeup ==
  worker = "standbyWait" /\ ~workerWoken => worker_standby \/ device = "tone"

\* The capture position of a stream never goes back, over standby and its
\* end too.
PositionNeverBack ==
  [][reader # "freed" => CapturePosition' >= CapturePosition]_vars

\* What a read decided before it slept without the lock still holds when it
\* returns, however standby, routing and muting came between: it returns
\* frames of the oscillator only from a tone generator and frames of the
\* ring buffer only from another device, and from a microphone only when it
\* was not muted all through the call.
ReadDecisionsHold ==
  [][InReadSlept =>
       /\ result' = "tone" => device = "tone"
       /\ result' = "captured" => device # "tone" /\ (device = "mic" => heard)]_vars

\* Every call on the stream returns: a read whatever the worker is doing,
\* since it waits for time only, and a close because the worker always gets
\* to see the exit flag, after failures as well.
InCallsReturn ==
  /\ reader \in {"readLock", "readSleep"} ~> reader = "idle"
  /\ reader = "join" ~> reader = "freed"
=============================================================================
