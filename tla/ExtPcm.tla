-------------------------------- MODULE ExtPcm --------------------------------
(***************************************************************************)
(* ext_pcm: the one PCM device that all output streams share, with the     *)
(* mixer thread that sums the streams' pipelines into it.  The streams'    *)
(* workers open it, write to it and close it; it is reference counted, and *)
(* the last close joins the mixer thread and frees it while another stream *)
(* may already be opening the next one.  An action is a critical section   *)
(* of ext_pcm_init_lock or of an instance's mixer_lock.                    *)
(***************************************************************************)
EXTENDS Integers, FiniteSets

CONSTANTS Streams,             \* the callers, with distinct bus addresses
          Instances,           \* addresses calloc may return
          NULL,
          MIXER_BUFFER_SIZE,   \* samples of a pipeline
          MaxWrite,            \* bound: samples of one ext_pcm_write
          OpenFails            \* may pcm_open fail?

ASSUME PcmAssumption ==
  /\ IsFiniteSet(Streams)
  /\ MIXER_BUFFER_SIZE \in Nat \ {0} /\ MaxWrite \in Nat
  /\ NULL \notin Instances \cup Streams \cup [Streams -> 0 .. MIXER_BUFFER_SIZE]
  /\ OpenFails \in BOOLEAN

VARIABLES
  init_lock,           \* the stream inside ext_pcm_open's set-up, or NULL
  shared_ext_pcm,
  \* struct ext_pcm, per instance
  allocated, ref_count, run_mixer,
  ready,               \* pcm_is_ready
  mixer_pipeline_map,  \* NULL, or each stream's samples to mix
  mixer,               \* mixer_thread_loop: "none", "mix", "check" or "done"
  \* the callers
  stream,              \* where the stream's worker is
  ext_pcm,             \* the stream's handle
  left, woken          \* mixer_pipeline_write: samples to copy; wait signalled

instance == <<allocated, ref_count, run_mixer, ready, mixer_pipeline_map, mixer>>
caller == <<stream, ext_pcm, left, woken>>
vars == <<init_lock, shared_ext_pcm, instance, caller>>

MIN(a, b) == IF a < b THEN a ELSE b

Empty == [s \in Streams |-> 0]

-----------------------------------------------------------------------------
Init ==
  /\ init_lock = NULL /\ shared_ext_pcm = NULL
  /\ allocated = [i \in Instances |-> FALSE]
  /\ ref_count = [i \in Instances |-> 0]
  /\ run_mixer = [i \in Instances |-> FALSE]
  /\ ready = [i \in Instances |-> FALSE]
  /\ mixer_pipeline_map = [i \in Instances |-> NULL]
  /\ mixer = [i \in Instances |-> "none"]
  /\ stream = [s \in Streams |-> "closed"]
  /\ ext_pcm = [s \in Streams |-> NULL]
  /\ left = [s \in Streams |-> 0]
  /\ woken = [s \in Streams |-> FALSE]

-----------------------------------------------------------------------------
(* ext_pcm_open.                                                           *)

\* There is no instance: allocate one, open the device and start the mixer
\* thread.  The lock stays taken; the thread may already run.  calloc's zeroes
\* are what an instance that is not allocated has in its fields.
OpenCreate(s) ==
  /\ stream[s] = "closed" /\ init_lock = NULL /\ shared_ext_pcm = NULL
  /\ \E i \in Instances :
       /\ ~allocated[i]
       /\ allocated' = [allocated EXCEPT ![i] = TRUE]
       /\ shared_ext_pcm' = i
       /\ \E ok \in (IF OpenFails THEN BOOLEAN ELSE {TRUE}) :
            ready' = [ready EXCEPT ![i] = ok]
       /\ mixer' = [mixer EXCEPT ![i] = "mix"]
  /\ init_lock' = s
  /\ stream' = [stream EXCEPT ![s] = "create"]
  /\ UNCHANGED <<ref_count, run_mixer, mixer_pipeline_map, ext_pcm, left, woken>>

\* Create the pipeline map, let the mixer run on, count the reference and
\* unlock.
OpenCreated(s) ==
  /\ stream[s] = "create"
  /\ mixer_pipeline_map' = [mixer_pipeline_map EXCEPT ![shared_ext_pcm] = Empty]
  /\ run_mixer' = [run_mixer EXCEPT ![shared_ext_pcm] = TRUE]
  /\ ref_count' = [ref_count EXCEPT ![shared_ext_pcm] = @ + 1]
  /\ init_lock' = NULL
  /\ stream' = [stream EXCEPT ![s] = "return"]
  /\ UNCHANGED <<shared_ext_pcm, allocated, ready, mixer, ext_pcm, left, woken>>

\* Mutant: only the stream that creates the instance counts a reference.
OpenSharedUncounted(s) ==
  /\ stream[s] = "closed" /\ init_lock = NULL /\ shared_ext_pcm # NULL
  /\ stream' = [stream EXCEPT ![s] = "return"]
  /\ UNCHANGED <<init_lock, shared_ext_pcm, instance, ext_pcm, left, woken>>

\* There is an instance: count the reference.
OpenShared(s) ==
  /\ stream[s] = "closed" /\ init_lock = NULL /\ shared_ext_pcm # NULL
  /\ ref_count' = [ref_count EXCEPT ![shared_ext_pcm] = @ + 1]
  /\ stream' = [stream EXCEPT ![s] = "return"]
  /\ UNCHANGED <<init_lock, shared_ext_pcm, allocated, run_mixer, ready,
                 mixer_pipeline_map, mixer, ext_pcm, left, woken>>

\* Return shared_ext_pcm, read after the unlock.  A worker whose device is
\* not ready ends without closing it.
OpenReturn(s) ==
  /\ stream[s] = "return"
  /\ ext_pcm' = [ext_pcm EXCEPT ![s] = shared_ext_pcm]
  /\ stream' = [stream EXCEPT ![s] =
       IF shared_ext_pcm # NULL /\ ready[shared_ext_pcm] THEN "open" ELSE "ended"]
  /\ UNCHANGED <<init_lock, shared_ext_pcm, instance, left, woken>>

-----------------------------------------------------------------------------
(* ext_pcm_write: mixer_pipeline_write.                                    *)

\* Mutant: the samples already in the pipeline are not counted.
CopySamplesOverruns(s, n) ==
  LET i == ext_pcm[s]
      count == MIN(n, MIXER_BUFFER_SIZE)
  IN /\ mixer_pipeline_map' = [mixer_pipeline_map EXCEPT ![i][s] = @ + count]
     /\ left' = [left EXCEPT ![s] = n - count]
     /\ stream' = [stream EXCEPT ![s] = IF count < n THEN "wait" ELSE "open"]
     /\ woken' = [woken EXCEPT ![s] = FALSE]

\* One turn of the loop with n samples to copy: copy what fits, and wait
\* for the mixer if some are left.
CopySamples(s, n) ==
  LET i == ext_pcm[s]
      count == MIN(n, MIXER_BUFFER_SIZE - mixer_pipeline_map[i][s])
  IN /\ mixer_pipeline_map' = [mixer_pipeline_map EXCEPT ![i][s] = @ + count]
     /\ left' = [left EXCEPT ![s] = n - count]
     /\ stream' = [stream EXCEPT ![s] = IF count < n THEN "wait" ELSE "open"]
     /\ woken' = [woken EXCEPT ![s] = FALSE]

Write(s, n) ==
  /\ stream[s] = "open"
  /\ CopySamples(s, n)
  /\ UNCHANGED <<init_lock, shared_ext_pcm, allocated, ref_count, run_mixer, ready,
                 mixer, ext_pcm>>

WriteWoken(s) ==
  /\ stream[s] = "wait" /\ woken[s]
  /\ CopySamples(s, left[s])
  /\ UNCHANGED <<init_lock, shared_ext_pcm, allocated, ref_count, run_mixer, ready,
                 mixer, ext_pcm>>

-----------------------------------------------------------------------------
(* ext_pcm_close.                                                          *)

\* Mutant: the shared instance is dropped only when it has been freed.
CloseKeepsShared(s) ==
  LET i == ext_pcm[s]
      count == ref_count[i] - 1
  IN /\ stream[s] = "open" /\ init_lock = NULL
     /\ ref_count' = [ref_count EXCEPT ![i] = count]
     /\ stream' = [stream EXCEPT ![s] = IF count <= 0 THEN "join" ELSE "closed"]
     /\ run_mixer' = IF count <= 0 THEN [run_mixer EXCEPT ![i] = FALSE] ELSE run_mixer
     /\ ext_pcm' = IF count <= 0 THEN ext_pcm ELSE [ext_pcm EXCEPT ![s] = NULL]
     /\ UNCHANGED <<init_lock, shared_ext_pcm, allocated, ready, mixer_pipeline_map,
                    mixer, left, woken>>

\* Drop the reference.  The last one stops the mixer and lets the next open
\* create a new instance.
Close(s) ==
  LET i == ext_pcm[s]
      count == ref_count[i] - 1
      last == count <= 0
  IN /\ stream[s] = "open" /\ init_lock = NULL
     /\ ref_count' = [ref_count EXCEPT ![i] = count]
     /\ stream' = [stream EXCEPT ![s] = IF last THEN "join" ELSE "closed"]
     /\ run_mixer' = IF last THEN [run_mixer EXCEPT ![i] = FALSE] ELSE run_mixer
     /\ shared_ext_pcm' = IF last THEN NULL ELSE shared_ext_pcm
     /\ ext_pcm' = IF last THEN ext_pcm ELSE [ext_pcm EXCEPT ![s] = NULL]
     /\ UNCHANGED <<init_lock, allocated, ready, mixer_pipeline_map, mixer, left, woken>>

\* Mutant: the mixer thread is not waited for.
CloseFreeUnjoined(s) ==
  LET i == ext_pcm[s]
  IN /\ stream[s] = "join" /\ init_lock = NULL
     /\ allocated' = [allocated EXCEPT ![i] = FALSE]
     /\ ready' = [ready EXCEPT ![i] = FALSE]
     /\ mixer_pipeline_map' = [mixer_pipeline_map EXCEPT ![i] = NULL]
     /\ stream' = [stream EXCEPT ![s] = "closed"]
     /\ ext_pcm' = [ext_pcm EXCEPT ![s] = NULL]
     /\ UNCHANGED <<init_lock, shared_ext_pcm, ref_count, run_mixer, mixer, left, woken>>

\* Join the mixer thread, take the lock again and free the instance.
CloseFree(s) ==
  LET i == ext_pcm[s]
  IN /\ stream[s] = "join" /\ mixer[i] = "done" /\ init_lock = NULL
     /\ allocated' = [allocated EXCEPT ![i] = FALSE]
     /\ ready' = [ready EXCEPT ![i] = FALSE]
     /\ mixer_pipeline_map' = [mixer_pipeline_map EXCEPT ![i] = NULL]
     /\ mixer' = [mixer EXCEPT ![i] = "none"]
     /\ stream' = [stream EXCEPT ![s] = "closed"]
     /\ ext_pcm' = [ext_pcm EXCEPT ![s] = NULL]
     /\ UNCHANGED <<init_lock, shared_ext_pcm, ref_count, run_mixer, left, woken>>

-----------------------------------------------------------------------------
(* mixer_thread_loop.                                                      *)

\* Mutant: the waiting streams are not woken.
MixSilently(i) ==
  /\ mixer[i] = "mix" /\ mixer_pipeline_map[i] # NULL
  /\ mixer_pipeline_map' = [mixer_pipeline_map EXCEPT ![i] = Empty]
  /\ mixer' = [mixer EXCEPT ![i] = "check"]
  /\ UNCHANGED <<init_lock, shared_ext_pcm, allocated, ref_count, run_mixer, ready,
                 stream, ext_pcm, left, woken>>

\* Mix and empty every pipeline, write the sum to the device, whose errors
\* are only logged, and wake every waiting stream.
Mix(i) ==
  /\ mixer[i] = "mix" /\ mixer_pipeline_map[i] # NULL
  /\ mixer_pipeline_map' = [mixer_pipeline_map EXCEPT ![i] = Empty]
  /\ mixer' = [mixer EXCEPT ![i] = "check"]
  /\ woken' = [s \in Streams |->
                 woken[s] \/ (stream[s] = "wait" /\ ext_pcm[s] = i)]
  /\ UNCHANGED <<init_lock, shared_ext_pcm, allocated, ref_count, run_mixer, ready,
                 stream, ext_pcm, left>>

\* Read run_mixer under the init lock; go round again, or end.
CheckRun(i) ==
  /\ mixer[i] = "check" /\ init_lock = NULL
  /\ mixer' = [mixer EXCEPT ![i] = IF run_mixer[i] THEN "mix" ELSE "done"]
  /\ UNCHANGED <<init_lock, shared_ext_pcm, allocated, ref_count, run_mixer, ready,
                 mixer_pipeline_map, caller>>

\* The thread gets to the map before ext_pcm_open has created it: the null
\* pointer ends the process, which is started afresh.
MixNullMap(i) ==
  /\ mixer[i] = "mix" /\ mixer_pipeline_map[i] = NULL
  /\ init_lock' = NULL /\ shared_ext_pcm' = NULL
  /\ allocated' = [j \in Instances |-> FALSE]
  /\ ref_count' = [j \in Instances |-> 0]
  /\ run_mixer' = [j \in Instances |-> FALSE]
  /\ ready' = [j \in Instances |-> FALSE]
  /\ mixer_pipeline_map' = [j \in Instances |-> NULL]
  /\ mixer' = [j \in Instances |-> "none"]
  /\ stream' = [s \in Streams |-> "closed"]
  /\ ext_pcm' = [s \in Streams |-> NULL]
  /\ left' = [s \in Streams |-> 0]
  /\ woken' = [s \in Streams |-> FALSE]

-----------------------------------------------------------------------------
\* What a stream's worker does once it has begun a call.
Continue(s) == OpenCreated(s) \/ OpenReturn(s) \/ WriteWoken(s) \/ CloseFree(s)

Begin(s) ==
  OpenCreate(s) \/ OpenShared(s) \/ Close(s) \/ (\E n \in 0 .. MaxWrite : Write(s, n))

Mixer(i) == Mix(i) \/ CheckRun(i) \/ MixNullMap(i)

Next == (\E s \in Streams : Begin(s) \/ Continue(s)) \/ (\E i \in Instances : Mixer(i))

Spec == Init /\ [][Next]_vars

\* A thread that can go on does: the mutexes are held briefly, and the mixer
\* thread sleeps at most its interval.  The free of a closed instance waits
\* for a lock that others take again and again, hence the strong fairness.
FairSpec ==
  /\ Spec
  /\ \A s \in Streams : WF_vars(OpenCreated(s) \/ OpenReturn(s) \/ WriteWoken(s))
                        /\ SF_vars(CloseFree(s))
  /\ \A i \in Instances : WF_vars(Mix(i) \/ MixNullMap(i)) /\ SF_vars(CheckRun(i))

-----------------------------------------------------------------------------
(* Properties.                                                             *)

\* Every variable has its type: a pipeline never holds more than its buffer.
TypeOK ==
  /\ init_lock \in Streams \cup {NULL}
  /\ shared_ext_pcm \in Instances \cup {NULL}
  /\ allocated \in [Instances -> BOOLEAN]
  /\ ref_count \in [Instances -> Nat]
  /\ run_mixer \in [Instances -> BOOLEAN]
  /\ ready \in [Instances -> BOOLEAN]
  /\ mixer_pipeline_map \in [Instances -> [Streams -> 0 .. MIXER_BUFFER_SIZE] \cup {NULL}]
  /\ mixer \in [Instances -> {"none", "mix", "check", "done"}]
  /\ stream \in [Streams -> {"closed", "create", "return", "open", "ended", "wait", "join"}]
  /\ ext_pcm \in [Streams -> Instances \cup {NULL}]
  /\ left \in [Streams -> Nat]
  /\ woken \in [Streams -> BOOLEAN]

\* Streams whose handle is i.
Holders(i) == {s \in Streams : ext_pcm[s] = i /\ stream[s] \in {"open", "wait", "ended"}}

\* Streams that have counted a reference and not yet read the handle.
Returning == {s \in Streams : stream[s] = "return"}

\* The references are exactly the streams that hold the instance or are about
\* to be given it: ext_pcm_open's read of shared_ext_pcm after the unlock
\* returns the instance it counted, although the instance may be closed and
\* replaced meanwhile.
RefCountExact ==
  \A i \in Instances :
    ref_count[i] = Cardinality(Holders(i))
                   + (IF shared_ext_pcm = i THEN Cardinality(Returning) ELSE 0)

\* Nobody uses freed memory: a stream's handle and a mixer thread's instance
\* are allocated, and a writer's has its pipelines.
NoUseAfterFree ==
  /\ \A i \in Instances : mixer[i] # "none" => allocated[i]
  /\ \A s \in Streams :
       /\ stream[s] \in {"open", "wait", "join", "ended"} => allocated[ext_pcm[s]]
       /\ stream[s] \in {"open", "wait"} => mixer_pipeline_map[ext_pcm[s]] # NULL

\* A waiting writer has a mixer to wake it: the mixer of an instance stops
\* only once no stream is inside ext_pcm_write.
WriterHasMixer ==
  \A s \in Streams :
    stream[s] = "wait" => run_mixer[ext_pcm[s]] /\ mixer[ext_pcm[s]] \in {"mix", "check"}

\* Every call returns: a write however many samples it has, and the last
\* close because the mixer thread it joins ends.
PcmCallsReturn ==
  \A s \in Streams :
    /\ stream[s] = "wait" ~> stream[s] # "wait"
    /\ stream[s] = "join" ~> stream[s] # "join"
=============================================================================
