------------------------------ MODULE OutStream ------------------------------
(***************************************************************************)
(* One output stream of the audio HAL: the framework's thread that writes, *)
(* puts the stream in standby and closes it, and the stream's worker       *)
(* thread, which drains the ring buffer to the mixer.  Both threads work   *)
(* under out->lock, so an action is a whole critical section, from the     *)
(* lock or the wake-up to the unlock or the wait.  A wait on a condition   *)
(* variable is a control state with a woken flag.  The clock ticks once    *)
(* per frame.  The ring buffer is the Fifo module's queue, of which only   *)
(* the length matters here.                                                *)
(***************************************************************************)
EXTENDS Integers

CONSTANTS period_size,    \* frames the worker moves at a time
          period_count,   \* periods in the ring buffer
          MaxWrite,       \* bound: frames of one out_write
          MaxFrames,      \* bound: frames written in the stream's life
          Failures        \* external calls that may fail: "open", "write"

ASSUME StreamAssumption ==
  /\ period_size \in Nat \ {0} /\ period_count \in Nat \ {0}
  /\ MaxWrite \in Nat /\ MaxFrames \in Nat
  /\ Failures \subseteq {"open", "write"}

VARIABLES
  \* struct generic_stream_out
  standby, worker_standby, worker_exit,
  muted,               \* out->is_muted or adev->master_mute
  frames_written, underrun_position,
  elapsed,             \* frame times since underrun_time
  live,                \* frames in out->buffer
  \* the framework's thread
  client, clientWoken,
  frames, left,        \* out_write: frames of the call, not yet in the buffer
  sleep,               \* frame times left of usleep
  \* the worker thread
  worker, workerWoken, restart,
  ext_pcm,             \* "none" or "open"
  failed               \* history: has a call of the worker failed?

flags == <<standby, worker_standby, worker_exit>>
position == <<frames_written, underrun_position, elapsed>>
call == <<client, clientWoken, frames, left, sleep>>
thread == <<worker, workerWoken, restart, ext_pcm, failed>>
vars == <<flags, muted, position, live, call, thread>>

MIN(a, b) == IF a < b THEN a ELSE b
MAX(a, b) == IF a > b THEN a ELSE b

frame_count == period_size * period_count
dead == frame_count - live

\* Beyond this every position is past frames_written.
MaxElapsed == MaxFrames + 1

-----------------------------------------------------------------------------
(* adev_open_output_stream: a new stream, in standby, and its worker.  Its *)
(* underrun_time is 0, long ago.                                           *)

Init ==
  /\ standby = TRUE /\ worker_standby = TRUE /\ worker_exit = FALSE
  /\ muted \in BOOLEAN
  /\ frames_written = 0 /\ underrun_position = 0 /\ elapsed = MaxElapsed
  /\ live = 0
  /\ client = "idle" /\ clientWoken = FALSE /\ frames = 0 /\ left = 0 /\ sleep = 0
  /\ worker = "top" /\ workerWoken = FALSE /\ restart = FALSE /\ ext_pcm = "none"
  /\ failed = FALSE

\* Time passes.
Tick ==
  /\ elapsed < MaxElapsed \/ sleep > 0
  /\ elapsed' = MIN(elapsed + 1, MaxElapsed)
  /\ sleep' = MAX(sleep - 1, 0)
  /\ UNCHANGED <<flags, muted, frames_written, underrun_position, live,
                 client, clientWoken, frames, left, thread>>

\* set_device_address_is_muted, or the device's master mute.
SetMuted ==
  /\ client # "freed"
  /\ muted' = ~muted
  /\ UNCHANGED <<flags, position, live, call, thread>>

\* pthread_cond_signal(&out->worker_wake) and (&out->write_wake): a signal
\* nobody waits for is lost.
SignalWorker == workerWoken' = (workerWoken \/ worker \in {"standbyWait", "dataWait"})
SignalClient == clientWoken' = (clientWoken \/ client = "writeWait")

\* A wait may return without a signal.
SpuriousWakeup ==
  /\ \/ /\ worker \in {"standbyWait", "dataWait"}
        /\ workerWoken' = TRUE /\ UNCHANGED clientWoken
     \/ /\ client = "writeWait"
        /\ clientWoken' = TRUE /\ UNCHANGED workerWoken
  /\ UNCHANGED <<flags, muted, position, live, client, frames, left, sleep,
                 worker, restart, ext_pcm, failed>>

-----------------------------------------------------------------------------
(* get_current_output_position.                                            *)

Position == IF standby THEN underrun_position ELSE underrun_position + elapsed

Reported == MIN(Position, frames_written)

\* Mutant: the position restarts from the last underrun when it is capped.
SyncPositionForgets ==
  /\ elapsed' = IF Position > frames_written THEN 0 ELSE elapsed
  /\ UNCHANGED underrun_position

\* Its effect on the stream: an underrun restarts the position from
\* frames_written.
SyncPosition ==
  /\ underrun_position' = IF Position > frames_written THEN frames_written
                          ELSE underrun_position
  /\ elapsed' = IF Position > frames_written THEN 0 ELSE elapsed

\* out_get_presentation_position, from any thread.
GetPresentationPosition ==
  /\ client # "freed"
  /\ SyncPosition
  /\ UNCHANGED <<flags, muted, frames_written, live, call, thread>>

-----------------------------------------------------------------------------
(* out_write.                                                              *)

\* The end of the call: every frame counts as written.
WriteDone(n) ==
  /\ frames_written' = frames_written + n
  /\ client' = "idle"
  /\ frames' = 0 /\ left' = 0

\* Mutant: the worker is signalled only once all frames are in.
CopyFramesSignalsLast(n, m) ==
  LET k == MIN(m, dead)
  IN /\ live' = live + k
     /\ clientWoken' = FALSE
     /\ IF k = m
        THEN /\ SignalWorker
             /\ WriteDone(n)
        ELSE /\ client' = "writeWait"
             /\ frames' = n /\ left' = m - k
             /\ UNCHANGED <<frames_written, workerWoken>>

\* One turn of the write loop, with m of n frames still to copy.
CopyFrames(n, m) ==
  LET k == MIN(m, dead)
  IN /\ live' = live + k
     /\ clientWoken' = FALSE
     /\ SignalWorker
     /\ IF k = m
        THEN WriteDone(n)
        ELSE /\ client' = "writeWait"
             /\ frames' = n /\ left' = m - k
             /\ UNCHANGED frames_written

\* A muted stream drops the frames, another one copies them.
WriteOrMute(n) ==
  \/ /\ muted
     /\ WriteDone(n)
     /\ UNCHANGED <<live, clientWoken, workerWoken>>
  \/ /\ ~muted
     /\ CopyFrames(n, n)

\* Leave standby, bring the position up to date, and wait without the lock
\* for as long as the frames beyond the buffer's room take to play.
OutWrite(n) ==
  /\ client = "idle"
  /\ frames_written + n <= MaxFrames
  /\ worker_standby' = FALSE
  /\ standby' = FALSE
  /\ IF standby THEN elapsed' = 0 /\ UNCHANGED underrun_position
                ELSE SyncPosition
  /\ LET frames_sleep == MAX(n - dead, 0)
     IN \/ /\ frames_sleep > 0
           /\ client' = "writeSleep"
           /\ frames' = n
           /\ sleep' = frames_sleep
           /\ UNCHANGED <<frames_written, live, clientWoken, workerWoken, left>>
        \/ /\ frames_sleep = 0
           /\ WriteOrMute(n)
           /\ UNCHANGED sleep
  /\ UNCHANGED <<worker_exit, muted, worker, restart, ext_pcm, failed>>

OutWriteSlept ==
  /\ client = "writeSleep" /\ sleep = 0
  /\ WriteOrMute(frames)
  /\ UNCHANGED <<flags, muted, underrun_position, elapsed, sleep, worker, restart,
                 ext_pcm, failed>>

OutWriteWoken ==
  /\ client = "writeWait" /\ clientWoken
  /\ CopyFrames(frames, left)
  /\ UNCHANGED <<flags, muted, underrun_position, elapsed, sleep, worker, restart,
                 ext_pcm, failed>>

-----------------------------------------------------------------------------
(* out_standby and adev_close_output_stream.                               *)

\* What the caller of do_out_standby does next: return, or tell the worker
\* to exit and join it.
StandbyDone(op) ==
  \/ /\ op = "standby"
     /\ client' = "idle"
     /\ UNCHANGED <<worker_exit, workerWoken>>
  \/ /\ op = "close"
     /\ client' = "join"
     /\ worker_exit' = TRUE
     /\ SignalWorker

\* Mutant: the position is kept in a local variable.
DoOutStandbyLocal(op) ==
  \/ /\ standby
     /\ StandbyDone(op)
     /\ UNCHANGED <<standby, worker_standby, underrun_position, elapsed, sleep>>
  \/ /\ ~standby
     /\ SyncPosition
     /\ \/ /\ Reported = frames_written
           /\ worker_standby' = TRUE /\ standby' = TRUE
           /\ StandbyDone(op)
           /\ UNCHANGED sleep
        \/ /\ Reported # frames_written
           /\ sleep' = frames_written - Reported
           /\ client' = op
           /\ UNCHANGED <<flags, workerWoken>>

\* Mutant: the loop goes on until the position is beyond the frames written.
DoOutStandbyBeyond(op) ==
  \/ /\ standby
     /\ StandbyDone(op)
     /\ UNCHANGED <<standby, worker_standby, underrun_position, elapsed, sleep>>
  \/ /\ ~standby
     /\ underrun_position' = Reported
     /\ elapsed' = IF Position > frames_written THEN 0 ELSE elapsed
     /\ sleep' = frames_written - Reported
     /\ client' = op
     /\ UNCHANGED <<flags, workerWoken>>

\* do_out_standby, from the top of its loop: sleep, without the lock, until
\* the position has reached the frames written.  The position is computed
\* into underrun_position itself.
DoOutStandby(op) ==
  \/ /\ standby
     /\ StandbyDone(op)
     /\ UNCHANGED <<standby, worker_standby, underrun_position, elapsed, sleep>>
  \/ /\ ~standby
     /\ underrun_position' = Reported
     /\ elapsed' = IF Position > frames_written THEN 0 ELSE elapsed
     /\ \/ /\ Reported = frames_written
           /\ worker_standby' = TRUE /\ standby' = TRUE
           /\ StandbyDone(op)
           /\ UNCHANGED sleep
        \/ /\ Reported # frames_written
           /\ sleep' = frames_written - Reported
           /\ client' = op
           /\ UNCHANGED <<flags, workerWoken>>

\* out_standby (op "standby") or adev_close_output_stream (op "close") is
\* called, or its sleep is over.
OutStandby(op) ==
  /\ client = "idle" \/ (client = op /\ sleep = 0)
  /\ DoOutStandby(op)
  /\ UNCHANGED <<muted, frames_written, live, clientWoken, frames, left,
                 worker, restart, ext_pcm, failed>>

\* adev_close_output_stream joins the worker and frees the stream.
Join ==
  /\ client = "join" /\ worker = "done"
  /\ client' = "freed"
  /\ UNCHANGED <<flags, muted, position, live, clientWoken, frames, left, sleep, thread>>

\* adev_open_output_stream opens the next stream.
Open ==
  /\ client = "freed"
  /\ standby' = TRUE /\ worker_standby' = TRUE /\ worker_exit' = FALSE
  /\ muted' \in BOOLEAN
  /\ frames_written' = 0 /\ underrun_position' = 0 /\ elapsed' = MaxElapsed
  /\ live' = 0
  /\ client' = "idle" /\ clientWoken' = FALSE /\ frames' = 0 /\ left' = 0 /\ sleep' = 0
  /\ worker' = "top" /\ workerWoken' = FALSE /\ restart' = FALSE /\ ext_pcm' = "none"
  /\ failed' = FALSE

-----------------------------------------------------------------------------
(* out_write_worker.                                                       *)

\* Sleep on worker_wake, releasing the lock.
WaitIn(state) ==
  /\ worker' = state
  /\ workerWoken' = FALSE

\* Mutant: a whole period is read, however few frames there are.
FetchWholePeriod ==
  /\ live' = live - period_size
  /\ worker' = "write"
  /\ workerWoken' = FALSE
  /\ SignalClient

\* Read a period from the buffer and tell the client there is room.
Fetch ==
  /\ live' = live - MIN(period_size, live)
  /\ worker' = "write"
  /\ workerWoken' = FALSE
  /\ SignalClient

\* Wait for data, open the device for the first of it, fetch it.  When the
\* device does not open the thread ends.
FetchOrWait ==
  \/ /\ live = 0
     /\ WaitIn("dataWait")
     /\ UNCHANGED <<live, clientWoken, ext_pcm, failed>>
  \/ /\ live > 0
     /\ ext_pcm' = "open"
     /\ Fetch
     /\ UNCHANGED failed
  \/ /\ live > 0 /\ ext_pcm = "none" /\ "open" \in Failures
     /\ worker' = "done"
     /\ workerWoken' = FALSE
     /\ failed' = TRUE
     /\ UNCHANGED <<live, clientWoken, ext_pcm>>

\* From the top of the loop, or from the wait for the end of standby.
WorkerLoop ==
  /\ worker = "top" \/ (worker = "standbyWait" /\ workerWoken)
  /\ \/ /\ worker_standby \/ restart
        /\ restart' = FALSE
        /\ ext_pcm' = "none"
        /\ IF worker_exit THEN worker' = "done" /\ workerWoken' = FALSE
                          ELSE WaitIn("standbyWait")
        /\ UNCHANGED <<live, clientWoken, failed>>
     \/ /\ ~worker_standby /\ ~restart /\ worker_exit
        /\ worker' = "done" /\ workerWoken' = FALSE
        /\ UNCHANGED <<restart, ext_pcm, live, clientWoken, failed>>
     \/ /\ ~worker_standby /\ ~restart /\ ~worker_exit
        /\ FetchOrWait
        /\ UNCHANGED restart
  /\ UNCHANGED <<flags, muted, position, client, frames, left, sleep>>

\* From the wait for data: neither standby nor exit is looked at.
WorkerData ==
  /\ worker = "dataWait" /\ workerWoken
  /\ FetchOrWait
  /\ UNCHANGED <<flags, muted, position, client, frames, left, sleep, restart>>

\* ext_pcm_write, without the lock.  It may fail; a zone not selected to
\* play skips it.
WorkerWrite ==
  /\ worker = "write"
  /\ worker' = "top"
  /\ \/ UNCHANGED <<restart, failed>>
     \/ "write" \in Failures /\ restart' = TRUE /\ failed' = TRUE
  /\ UNCHANGED <<flags, muted, position, live, call, workerWoken, ext_pcm>>

-----------------------------------------------------------------------------
Client ==
  \/ \E n \in 1 .. MaxWrite : OutWrite(n)
  \/ \E op \in {"standby", "close"} : OutStandby(op)
  \/ OutWriteSlept \/ OutWriteWoken
  \/ Join \/ Open

Worker == WorkerLoop \/ WorkerData \/ WorkerWrite

Next == Client \/ Worker \/ Tick \/ SetMuted \/ GetPresentationPosition
        \/ SpuriousWakeup

Spec == Init /\ [][Next]_vars

\* A call in progress goes on, the worker runs, time passes.  The framework
\* need not make another call, and nobody need wake a thread spuriously.
FairSpec ==
  /\ Spec
  /\ WF_vars(Tick) /\ WF_vars(Worker) /\ WF_vars(Join)
  /\ WF_vars(OutWriteSlept) /\ WF_vars(OutWriteWoken)
  /\ \A op \in {"standby", "close"} : WF_vars(client = op /\ OutStandby(op))

-----------------------------------------------------------------------------
(* Properties.                                                             *)

\* Every variable has its type; the buffer never holds more than it can.
TypeOK ==
  /\ standby \in BOOLEAN /\ worker_standby \in BOOLEAN /\ worker_exit \in BOOLEAN
  /\ muted \in BOOLEAN /\ restart \in BOOLEAN /\ failed \in BOOLEAN
  /\ clientWoken \in BOOLEAN /\ workerWoken \in BOOLEAN
  /\ frames_written \in 0 .. MaxFrames
  /\ underrun_position \in Nat /\ elapsed \in 0 .. MaxElapsed
  /\ live \in 0 .. frame_count
  /\ frames \in 0 .. MaxWrite /\ left \in 0 .. MaxWrite /\ sleep \in Nat
  /\ client \in {"idle", "writeSleep", "writeWait", "standby", "close", "join", "freed"}
  /\ worker \in {"top", "standbyWait", "dataWait", "write", "done"}
  /\ ext_pcm \in {"none", "open"}

\* A stream in standby reports that all it was given has been played: the
\* position stops exactly at frames_written (do_out_standby's loop), and
\* out_write leaves standby before it counts a frame.
StandbyPositionExact == standby => underrun_position = frames_written

\* No wake-up is lost between out_write and the worker: while the client
\* waits for room (line 598) the buffer is full, or a signal is on its way
\* to the client; and, if no call has failed, the worker is running or has
\* been signalled.
NoLostWakeup ==
  client = "writeWait" /\ ~clientWoken =>
    /\ live = frame_count
    /\ ~failed => worker \in {"top", "write"} \/ workerWoken

\* The position a client is told (out_get_presentation_position) never goes
\* back, across underruns, writes, standby and concurrent readers; only a new
\* stream starts again.
PositionNeverBack == [][client # "freed" => Reported' >= Reported]_vars

\* Every call on the stream returns, with two exceptions the code has.  A
\* write returns however full the buffer is, unless a call of the worker
\* fails: then nobody makes room any more, and a write that does not fit waits
\* for ever ("Implementation just consumes bytes if we start getting backed
\* up").  A stream goes to standby once time has caught up with its frames.
\* Closing returns when the worker is not waiting for data.
OutCallsReturn ==
  /\ client \in {"writeSleep", "writeWait"} ~> client = "idle" \/ failed
  /\ client = "standby" ~> client = "idle"
  /\ client = "join" /\ worker # "dataWait" ~> client = "freed"

\* Closing returns.
CloseOutputReturns == client = "join" ~> client = "freed"
=============================================================================
