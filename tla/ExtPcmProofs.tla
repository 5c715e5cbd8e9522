---------------------------- MODULE ExtPcmProofs ----------------------------
(***************************************************************************)
(* Proofs of the safety properties of the shared PCM device, for any       *)
(* number of streams, addresses and samples.                               *)
(***************************************************************************)
EXTENDS ExtPcm, FiniteSetTheorems, TLAPS

-----------------------------------------------------------------------------
(* The inductive invariant.                                                *)

\* The Boolean and the other variables of TypeOK.
Flags ==
  /\ allocated \in [Instances -> BOOLEAN]
  /\ run_mixer \in [Instances -> BOOLEAN]
  /\ ready \in [Instances -> BOOLEAN]
  /\ woken \in [Streams -> BOOLEAN]

\* Where a stream's worker may be.
Places == {"closed", "create", "return", "open", "ended", "wait", "join"}

Values ==
  /\ init_lock \in Streams \cup {NULL}
  /\ shared_ext_pcm \in Instances \cup {NULL}
  /\ ref_count \in [Instances -> Nat]
  /\ mixer_pipeline_map \in [Instances -> [Streams -> 0 .. MIXER_BUFFER_SIZE] \cup {NULL}]
  /\ mixer \in [Instances -> {"none", "mix", "check", "done"}]
  /\ stream \in [Streams -> Places]
  /\ ext_pcm \in [Streams -> Instances \cup {NULL}]
  /\ left \in [Streams -> Nat]

LEMMA TypeParts == TypeOK <=> Flags /\ Values
BY Zenon DEF TypeOK, Flags, Values, Places

\* The streams that have counted a reference and not dropped it.
CountedPlaces == {"return", "open", "wait", "ended"}

Counted == {s \in Streams : stream[s] \in CountedPlaces}

\* ext_pcm_init_lock is held over two steps only by the stream that creates
\* the instance, which no other stream has a reference to yet.
LockHeld ==
  /\ \A s \in Streams : stream[s] = "create" <=> init_lock = s
  /\ init_lock # NULL => shared_ext_pcm # NULL /\ Counted = {}

\* Only the shared instance is referenced.
CountExact ==
  \A i \in Instances :
    ref_count[i] = IF i = shared_ext_pcm THEN Cardinality(Counted) ELSE 0

\* What a stream was given is the shared instance still.
HandlesShared ==
  \A s \in Counted :
    shared_ext_pcm # NULL /\ (stream[s] # "return" => ext_pcm[s] = shared_ext_pcm)

\* The shared instance runs, once it is set up.
SharedRuns ==
  shared_ext_pcm # NULL =>
    /\ allocated[shared_ext_pcm]
    /\ mixer[shared_ext_pcm] \in {"mix", "check"}
    /\ init_lock = NULL =>
         run_mixer[shared_ext_pcm] /\ mixer_pipeline_map[shared_ext_pcm] # NULL

\* Each stream that has dropped the last reference frees an instance of its
\* own, which nobody shares any more.
Joins ==
  /\ \A s \in Streams : stream[s] = "join" =>
       ext_pcm[s] \in Instances /\ ext_pcm[s] # shared_ext_pcm /\ allocated[ext_pcm[s]]
  /\ \A s, t \in Streams :
       stream[s] = "join" /\ stream[t] = "join" /\ ext_pcm[s] = ext_pcm[t] => s = t

\* A freed instance has no thread.
FreeIdle == \A i \in Instances : ~allocated[i] => mixer[i] = "none"

IInv ==
  /\ Flags /\ Values
  /\ LockHeld /\ CountExact /\ HandlesShared /\ SharedRuns /\ Joins /\ FreeIdle

-----------------------------------------------------------------------------
(* The references.                                                         *)

\* Where a step of one stream leaves the references.
LEMMA CountedStep ==
  ASSUME NEW s \in Streams, NEW p, Values,
         stream' = [stream EXCEPT ![s] = p]
  PROVE  Counted' = IF p \in CountedPlaces THEN Counted \cup {s} ELSE Counted \ {s}
BY DEF Counted, Values

LEMMA CountedFinite ==
  ASSUME NEW C \in SUBSET Streams
  PROVE  IsFiniteSet(C) /\ Cardinality(C) \in Nat
BY PcmAssumption, FS_Subset, FS_CardinalityType

LEMMA EmptyType == Empty \in [Streams -> 0 .. MIXER_BUFFER_SIZE] /\ Empty # NULL
BY PcmAssumption DEF Empty

-----------------------------------------------------------------------------
(* Every step preserves the invariant.                                     *)

LEMMA NoReferences == Counted = {} => Cardinality(Counted) = 0
BY FS_EmptySet

LEMMA IInvInit == Init => IInv
<1> SUFFICES ASSUME Init PROVE IInv
  OBVIOUS
<1>1. Flags
  BY DEF Init, Flags
<1>2. Values
  BY DEF Init, Values, Places
<1>3. Counted = {}
  BY DEF Init, Counted, CountedPlaces
<1>4. LockHeld
  BY PcmAssumption DEF Init, LockHeld
<1>5. CountExact
  BY <1>3, NoReferences DEF Init, CountExact
<1>6. HandlesShared
  BY <1>3 DEF HandlesShared
<1>7. SharedRuns /\ Joins /\ FreeIdle
  BY DEF Init, SharedRuns, Joins, FreeIdle
<1> QED
  BY <1>1, <1>2, <1>4, <1>5, <1>6, <1>7 DEF IInv

\* ext_pcm_open creates an instance.
LEMMA IInvOpenCreate ==
  ASSUME IInv, NEW s \in Streams, OpenCreate(s)
  PROVE  IInv'
<1>1. PICK i \in Instances :
        /\ ~allocated[i]
        /\ allocated' = [allocated EXCEPT ![i] = TRUE]
        /\ shared_ext_pcm' = i
        /\ \E ok \in (IF OpenFails THEN BOOLEAN ELSE {TRUE}) :
             ready' = [ready EXCEPT ![i] = ok]
        /\ mixer' = [mixer EXCEPT ![i] = "mix"]
  BY DEF OpenCreate
<1>2. Flags'
  BY <1>1 DEF IInv, Flags, OpenCreate
<1>3. Values'
  BY <1>1 DEF IInv, Values, OpenCreate, Places
<1>4. Counted = {} /\ Counted' = {}
  <2>1. Counted = {}
    BY DEF IInv, HandlesShared, OpenCreate
  <2>2. Counted' = Counted \ {s}
    BY CountedStep DEF IInv, OpenCreate, CountedPlaces
  <2> QED
    BY <2>1, <2>2
<1>5. LockHeld'
  BY <1>1, <1>4, PcmAssumption DEF IInv, LockHeld, Values, OpenCreate
<1>6. CountExact'
  BY <1>1, <1>4, FS_EmptySet DEF IInv, CountExact, Values, OpenCreate
<1>7. HandlesShared'
  BY <1>4 DEF HandlesShared
<1>8. SharedRuns'
  BY <1>1, PcmAssumption DEF IInv, Flags, Values, SharedRuns, OpenCreate
<1>9. Joins'
  BY <1>1 DEF IInv, Flags, Values, Joins, OpenCreate
<1>10. FreeIdle'
  BY <1>1 DEF IInv, Flags, Values, FreeIdle
<1> QED
  BY <1>2, <1>3, <1>5, <1>6, <1>7, <1>8, <1>9, <1>10 DEF IInv

\* It sets the instance up.
LEMMA IInvOpenCreated ==
  ASSUME IInv, NEW s \in Streams, OpenCreated(s)
  PROVE  IInv'
<1>1. /\ init_lock = s /\ shared_ext_pcm \in Instances /\ Counted = {}
      /\ shared_ext_pcm # NULL
  BY PcmAssumption DEF IInv, LockHeld, Values, OpenCreated
<1>2. Flags'
  BY <1>1 DEF IInv, Flags, OpenCreated
<1>3. Values'
  <2>1. Empty \in [Streams -> 0 .. MIXER_BUFFER_SIZE] \cup {NULL}
    BY EmptyType
  <2>2. mixer_pipeline_map' \in [Instances -> [Streams -> 0 .. MIXER_BUFFER_SIZE] \cup {NULL}]
    BY <1>1, <2>1 DEF IInv, Values, OpenCreated
  <2> QED
    BY <1>1, <2>2 DEF IInv, Values, OpenCreated, Places
<1>4. Counted' = {s}
  BY <1>1, CountedStep DEF IInv, OpenCreated, CountedPlaces
<1>5. LockHeld'
  BY <1>1, PcmAssumption DEF IInv, LockHeld, Values, OpenCreated
<1>6. CountExact'
  <2>1. Cardinality(Counted) = 0 /\ Cardinality(Counted') = 1
    BY <1>1, <1>4, FS_EmptySet, FS_Singleton
  <2> QED
    BY <1>1, <2>1 DEF IInv, CountExact, Values, OpenCreated
<1>7. HandlesShared'
  BY <1>1, <1>4 DEF IInv, Values, HandlesShared, OpenCreated
<1>8. SharedRuns'
  <2>1. Empty # NULL
    BY EmptyType
  <2> QED
    BY <1>1, <2>1 DEF IInv, Flags, Values, SharedRuns, OpenCreated
<1>9. Joins'
  BY DEF IInv, Values, Joins, OpenCreated
<1>10. FreeIdle'
  BY DEF IInv, FreeIdle, OpenCreated
<1> QED
  BY <1>2, <1>3, <1>5, <1>6, <1>7, <1>8, <1>9, <1>10 DEF IInv

\* It finds one.
LEMMA IInvOpenShared ==
  ASSUME IInv, NEW s \in Streams, OpenShared(s)
  PROVE  IInv'
<1>1. shared_ext_pcm \in Instances /\ stream[s] = "closed" /\ s \notin Counted
  BY DEF IInv, Values, OpenShared, Counted, CountedPlaces
<1>2. Flags'
  BY DEF IInv, Flags, OpenShared
<1>3. Values'
  BY <1>1 DEF IInv, Values, OpenShared, Places
<1>4. Counted' = Counted \cup {s}
  BY CountedStep DEF IInv, OpenShared, CountedPlaces
<1>5. LockHeld'
  BY <1>1, PcmAssumption DEF IInv, LockHeld, Values, OpenShared
<1>6. CountExact'
  <2>1. Counted \in SUBSET Streams
    BY DEF Counted
  <2>2. Cardinality(Counted') = Cardinality(Counted) + 1
    BY <1>1, <1>4, <2>1, CountedFinite, FS_AddElement
  <2> QED
    BY <1>1, <2>1, <2>2, CountedFinite DEF IInv, CountExact, Values, OpenShared
<1>7. HandlesShared'
  BY <1>1, <1>4 DEF IInv, Values, HandlesShared, OpenShared, Counted
<1>8. SharedRuns'
  BY DEF IInv, SharedRuns, OpenShared
<1>9. Joins'
  BY DEF IInv, Values, Joins, OpenShared
<1>10. FreeIdle'
  BY DEF IInv, FreeIdle, OpenShared
<1> QED
  BY <1>2, <1>3, <1>5, <1>6, <1>7, <1>8, <1>9, <1>10 DEF IInv

\* The handle read after the unlock is the instance that was counted.
LEMMA IInvOpenReturn ==
  ASSUME IInv, NEW s \in Streams, OpenReturn(s)
  PROVE  IInv'
<1>1. s \in Counted /\ stream[s] = "return" /\ init_lock = NULL
  BY DEF IInv, LockHeld, OpenReturn, Counted, CountedPlaces
<1>2. stream' = [stream EXCEPT ![s] = "open"] \/ stream' = [stream EXCEPT ![s] = "ended"]
  BY DEF OpenReturn
<1>3. Flags'
  BY DEF IInv, Flags, OpenReturn, instance
<1>4. Values'
  BY <1>2 DEF IInv, Values, OpenReturn, instance, Places
<1>5. Counted' = Counted
  <2>1. Counted' = Counted \cup {s}
    BY <1>2, CountedStep DEF IInv, CountedPlaces
  <2> QED
    BY <1>1, <2>1
<1>6. LockHeld'
  BY <1>1, <1>2, PcmAssumption DEF IInv, LockHeld, Values, OpenReturn
<1>7. CountExact'
  BY <1>5 DEF IInv, CountExact, OpenReturn, instance
<1>8. HandlesShared'
  BY <1>2, <1>5 DEF IInv, Values, HandlesShared, OpenReturn, Counted
<1>9. SharedRuns' /\ FreeIdle'
  BY DEF IInv, SharedRuns, FreeIdle, OpenReturn, instance
<1>10. Joins'
  BY <1>2 DEF IInv, Values, Joins, OpenReturn, instance
<1> QED
  BY <1>3, <1>4, <1>6, <1>7, <1>8, <1>9, <1>10 DEF IInv

\* A stream that holds a handle holds the shared instance, which is set up.
LEMMA HolderUses ==
  ASSUME IInv, NEW s \in Streams, stream[s] \in {"open", "wait", "ended"}
  PROVE  /\ s \in Counted /\ init_lock = NULL
         /\ ext_pcm[s] = shared_ext_pcm /\ shared_ext_pcm \in Instances
         /\ allocated[shared_ext_pcm] /\ run_mixer[shared_ext_pcm]
         /\ mixer[shared_ext_pcm] \in {"mix", "check"}
         /\ mixer_pipeline_map[shared_ext_pcm] # NULL
<1>1. s \in Counted
  BY DEF Counted, CountedPlaces
<1>2. init_lock = NULL
  BY <1>1 DEF IInv, LockHeld
<1>3. ext_pcm[s] = shared_ext_pcm /\ shared_ext_pcm # NULL /\ shared_ext_pcm \in Instances
  BY <1>1 DEF IInv, HandlesShared, Values
<1> QED
  BY <1>1, <1>2, <1>3 DEF IInv, SharedRuns

\* mixer_pipeline_write.
LEMMA IInvCopySamples ==
  ASSUME IInv, NEW s \in Streams, NEW n \in Nat, stream[s] \in {"open", "wait"},
         CopySamples(s, n),
         UNCHANGED <<init_lock, shared_ext_pcm, allocated, ref_count, run_mixer, ready,
                     mixer, ext_pcm>>
  PROVE  IInv'
<1> DEFINE i == ext_pcm[s]
           count == MIN(n, MIXER_BUFFER_SIZE - mixer_pipeline_map[i][s])
<1>1. /\ s \in Counted /\ init_lock = NULL /\ i = shared_ext_pcm /\ i \in Instances
      /\ mixer_pipeline_map[i] # NULL
  BY HolderUses
<1>2. /\ mixer_pipeline_map[i] \in [Streams -> 0 .. MIXER_BUFFER_SIZE]
      /\ mixer_pipeline_map[i][s] \in 0 .. MIXER_BUFFER_SIZE
  BY <1>1 DEF IInv, Values
<1>3. count \in Nat /\ count <= n /\ mixer_pipeline_map[i][s] + count \in 0 .. MIXER_BUFFER_SIZE
  BY <1>2, PcmAssumption DEF MIN
<1>4. stream' = [stream EXCEPT ![s] = "wait"] \/ stream' = [stream EXCEPT ![s] = "open"]
  BY DEF CopySamples
<1>5. /\ mixer_pipeline_map' = [mixer_pipeline_map EXCEPT ![i] =
            [mixer_pipeline_map[i] EXCEPT ![s] = mixer_pipeline_map[i][s] + count]]
      /\ left' = [left EXCEPT ![s] = n - count]
      /\ woken' = [woken EXCEPT ![s] = FALSE]
  BY <1>1, <1>2 DEF CopySamples, IInv, Values
<1> HIDE DEF i, count
<1>6. [mixer_pipeline_map[i] EXCEPT ![s] = mixer_pipeline_map[i][s] + count]
        \in [Streams -> 0 .. MIXER_BUFFER_SIZE]
  BY <1>2, <1>3
<1>7. Flags'
  BY <1>5 DEF IInv, Flags
<1>8. Values'
  <2>1. mixer_pipeline_map' \in [Instances -> [Streams -> 0 .. MIXER_BUFFER_SIZE] \cup {NULL}]
    BY <1>1, <1>5, <1>6 DEF IInv, Values
  <2>2. left' \in [Streams -> Nat]
    BY <1>3, <1>5 DEF IInv, Values
  <2>3. stream' \in [Streams -> Places]
    BY <1>4 DEF IInv, Values, Places
  <2> QED
    BY <2>1, <2>2, <2>3 DEF IInv, Values
<1>9. Counted' = Counted
  <2>1. Counted' = Counted \cup {s}
    BY <1>4, CountedStep DEF IInv, CountedPlaces
  <2> QED
    BY <1>1, <2>1
<1>10. LockHeld'
  BY <1>1, <1>4, PcmAssumption DEF IInv, LockHeld, Values
<1>11. CountExact'
  BY <1>9 DEF IInv, CountExact
<1>12. HandlesShared'
  BY <1>1, <1>4, <1>9 DEF IInv, Values, HandlesShared, Counted, i
<1>13. SharedRuns'
  <2>1. mixer_pipeline_map'[i] # NULL
    BY <1>1, <1>5, <1>6, PcmAssumption DEF IInv, Values
  <2> QED
    BY <1>1, <2>1 DEF IInv, SharedRuns
<1>14. Joins' /\ FreeIdle'
  BY <1>4 DEF IInv, Values, Joins, FreeIdle
<1> QED
  BY <1>7, <1>8, <1>10, <1>11, <1>12, <1>13, <1>14 DEF IInv

\* ext_pcm_close drops a reference.
LEMMA IInvClose ==
  ASSUME IInv, NEW s \in Streams, Close(s)
  PROVE  IInv'
<1> DEFINE i == ext_pcm[s]
<1>1. /\ s \in Counted /\ stream[s] = "open" /\ init_lock = NULL
      /\ i = shared_ext_pcm /\ i \in Instances /\ allocated[i]
  BY HolderUses DEF Close
<1>2. /\ IsFiniteSet(Counted) /\ Cardinality(Counted) \in Nat
      /\ IsFiniteSet(Counted \ {s}) /\ Cardinality(Counted \ {s}) \in Nat
      /\ Cardinality(Counted \ {s}) = Cardinality(Counted) - 1
  <2>1. Counted \in SUBSET Streams /\ Counted \ {s} \in SUBSET Streams
    BY DEF Counted
  <2> QED
    BY <1>1, <2>1, CountedFinite, FS_RemoveElement
<1>3. ref_count[i] - 1 = Cardinality(Counted \ {s})
  BY <1>1, <1>2 DEF IInv, CountExact
<1>4. ref_count' = [ref_count EXCEPT ![i] = Cardinality(Counted \ {s})]
  BY <1>3 DEF Close
<1>5. ref_count' \in [Instances -> Nat]
  BY <1>1, <1>2, <1>4 DEF IInv, Values
<1> HIDE DEF i
<1>6. CASE Counted \ {s} = {}
  <2>1. Cardinality(Counted \ {s}) = 0 /\ ref_count[ext_pcm[s]] - 1 <= 0
    BY <1>2, <1>3, <1>6, FS_EmptySet DEF i
  <2>2. /\ stream' = [stream EXCEPT ![s] = "join"]
        /\ run_mixer' = [run_mixer EXCEPT ![i] = FALSE]
        /\ shared_ext_pcm' = NULL /\ ext_pcm' = ext_pcm
    BY <2>1 DEF Close, i
  <2>3. Counted' = {}
    <3>1. Counted' = Counted \ {s}
      BY <2>2, CountedStep DEF IInv, CountedPlaces
    <3> QED
      BY <1>6, <3>1
  <2>4. Flags'
    BY <2>2 DEF IInv, Flags, Close
  <2>5. Values'
    BY <1>5, <2>2 DEF IInv, Values, Places, Close
  <2>6. LockHeld'
    BY <1>1, <2>2, PcmAssumption DEF IInv, LockHeld, Values, Close
  <2>7. CountExact'
    BY <1>1, <1>4, <2>1, <2>2, PcmAssumption DEF IInv, CountExact, Values
  <2>8. HandlesShared'
    BY <2>3 DEF HandlesShared
  <2>9. SharedRuns'
    BY <2>2 DEF SharedRuns
  <2>10. Joins'
    BY <1>1, <2>2, PcmAssumption DEF IInv, Values, Joins, Close, i
  <2>11. FreeIdle'
    BY DEF IInv, FreeIdle, Close
  <2> QED
    BY <2>4, <2>5, <2>6, <2>7, <2>8, <2>9, <2>10, <2>11 DEF IInv
<1>7. CASE Counted \ {s} # {}
  <2>1. ~(Cardinality(Counted \ {s}) <= 0)
    BY <1>2, <1>7, FS_EmptySet
  <2>2. /\ stream' = [stream EXCEPT ![s] = "closed"]
        /\ run_mixer' = run_mixer
        /\ shared_ext_pcm' = shared_ext_pcm /\ ext_pcm' = [ext_pcm EXCEPT ![s] = NULL]
    BY <1>3, <2>1 DEF Close, i
  <2>3. Counted' = Counted \ {s}
    BY <2>2, CountedStep DEF IInv, CountedPlaces
  <2>4. Flags'
    BY <2>2 DEF IInv, Flags, Close
  <2>5. Values'
    BY <1>5, <2>2 DEF IInv, Values, Places, Close
  <2>6. LockHeld'
    BY <1>1, <2>2, PcmAssumption DEF IInv, LockHeld, Values, Close
  <2>7. CountExact'
    BY <1>1, <1>4, <2>2, <2>3, PcmAssumption DEF IInv, CountExact, Values
  <2>8. HandlesShared'
    BY <2>2, <2>3 DEF IInv, Values, HandlesShared, Counted
  <2>9. SharedRuns' /\ FreeIdle'
    BY <2>2 DEF IInv, SharedRuns, FreeIdle, Close
  <2>10. Joins'
    BY <2>2 DEF IInv, Values, Joins, Close
  <2> QED
    BY <2>4, <2>5, <2>6, <2>7, <2>8, <2>9, <2>10 DEF IInv
<1> QED
  BY <1>6, <1>7

\* It frees the instance whose last reference it dropped.
LEMMA IInvCloseFree ==
  ASSUME IInv, NEW s \in Streams, CloseFree(s)
  PROVE  IInv'
<1> DEFINE i == ext_pcm[s]
<1>1. /\ stream[s] = "join" /\ init_lock = NULL /\ s \notin Counted
      /\ i \in Instances /\ i # shared_ext_pcm
  BY DEF IInv, Joins, CloseFree, Counted, CountedPlaces
<1>2. \A t \in Streams : t # s /\ stream[t] = "join" => ext_pcm[t] # i
  BY <1>1 DEF IInv, Joins
<1>3. Counted' = Counted
  <2>1. Counted' = Counted \ {s}
    BY CountedStep DEF IInv, CountedPlaces, CloseFree
  <2> QED
    BY <1>1, <2>1
<1>4. Flags'
  BY DEF IInv, Flags, CloseFree
<1>5. Values'
  BY <1>1 DEF IInv, Values, Places, CloseFree
<1>6. LockHeld'
  BY <1>1, PcmAssumption DEF IInv, LockHeld, Values, CloseFree
<1>7. CountExact'
  BY <1>3 DEF IInv, CountExact, CloseFree
<1>8. HandlesShared'
  BY <1>1, <1>3 DEF IInv, Values, HandlesShared, CloseFree, Counted
<1>9. SharedRuns'
  BY <1>1 DEF IInv, Flags, Values, SharedRuns, CloseFree
<1>10. Joins'
  BY <1>1, <1>2 DEF IInv, Flags, Values, Joins, CloseFree
<1>11. FreeIdle'
  BY <1>1 DEF IInv, Flags, Values, FreeIdle, CloseFree
<1> QED
  BY <1>4, <1>5, <1>6, <1>7, <1>8, <1>9, <1>10, <1>11 DEF IInv

\* mixer_thread_loop mixes.
LEMMA IInvMix ==
  ASSUME IInv, NEW i \in Instances, Mix(i)
  PROVE  IInv'
<1>1. Flags'
  BY DEF IInv, Flags, Mix
<1>2. Values'
  <2>1. mixer_pipeline_map' \in [Instances -> [Streams -> 0 .. MIXER_BUFFER_SIZE] \cup {NULL}]
    BY EmptyType DEF IInv, Values, Mix
  <2> QED
    BY <2>1 DEF IInv, Values, Mix
<1>3. LockHeld' /\ CountExact' /\ HandlesShared'
  BY DEF IInv, LockHeld, CountExact, HandlesShared, Counted, Mix
<1>4. SharedRuns'
  BY EmptyType DEF IInv, Values, SharedRuns, Mix
<1>5. Joins' /\ FreeIdle'
  BY DEF IInv, Values, Joins, FreeIdle, Mix
<1> QED
  BY <1>1, <1>2, <1>3, <1>4, <1>5 DEF IInv

\* It reads run_mixer: the shared instance's thread goes on.
LEMMA IInvCheckRun ==
  ASSUME IInv, NEW i \in Instances, CheckRun(i)
  PROVE  IInv'
<1>1. Flags'
  BY DEF IInv, Flags, CheckRun, caller
<1>2. Values'
  BY DEF IInv, Values, CheckRun, caller
<1>3. LockHeld' /\ CountExact' /\ HandlesShared'
  BY DEF IInv, LockHeld, CountExact, HandlesShared, Counted, CheckRun, caller
<1>4. SharedRuns'
  BY DEF IInv, Values, SharedRuns, CheckRun
<1>5. Joins' /\ FreeIdle'
  BY DEF IInv, Values, Joins, FreeIdle, CheckRun, caller
<1> QED
  BY <1>1, <1>2, <1>3, <1>4, <1>5 DEF IInv

\* The process dies and starts afresh.
LEMMA IInvMixNullMap ==
  ASSUME NEW i \in Instances, MixNullMap(i)
  PROVE  IInv'
<1>1. Flags'
  BY DEF MixNullMap, Flags
<1>2. Values'
  BY DEF MixNullMap, Values, Places
<1>3. Counted' = {}
  BY DEF MixNullMap, Counted, CountedPlaces
<1>4. LockHeld'
  BY PcmAssumption DEF MixNullMap, LockHeld
<1>5. CountExact'
  BY <1>3, FS_EmptySet DEF MixNullMap, CountExact
<1>6. HandlesShared'
  BY <1>3 DEF HandlesShared
<1>7. SharedRuns' /\ Joins' /\ FreeIdle'
  BY DEF MixNullMap, SharedRuns, Joins, FreeIdle
<1> QED
  BY <1>1, <1>2, <1>4, <1>5, <1>6, <1>7 DEF IInv

LEMMA IInvNext == IInv /\ [Next]_vars => IInv'
<1> SUFFICES ASSUME IInv, [Next]_vars PROVE IInv'
  OBVIOUS
<1>1. ASSUME NEW s \in Streams, Begin(s) PROVE IInv'
  <2>1. ASSUME NEW n \in 0 .. MaxWrite, Write(s, n) PROVE IInv'
    BY <2>1, IInvCopySamples, PcmAssumption DEF Write
  <2> QED
    BY <1>1, <2>1, IInvOpenCreate, IInvOpenShared, IInvClose DEF Begin
<1>2. ASSUME NEW s \in Streams, Continue(s) PROVE IInv'
  <2>1. CASE WriteWoken(s)
    <3>1. left[s] \in Nat
      BY DEF IInv, Values
    <3> QED
      BY <2>1, <3>1, IInvCopySamples DEF WriteWoken
  <2> QED
    BY <1>2, <2>1, IInvOpenCreated, IInvOpenReturn, IInvCloseFree DEF Continue
<1>3. ASSUME NEW i \in Instances, Mixer(i) PROVE IInv'
  BY <1>3, IInvMix, IInvCheckRun, IInvMixNullMap DEF Mixer
<1>4. CASE UNCHANGED vars
  <2>1. Counted' = Counted
    BY <1>4 DEF vars, caller, Counted
  <2>2. Flags' /\ Values'
    BY <1>4 DEF vars, instance, caller, IInv, Flags, Values
  <2>3. LockHeld' /\ CountExact' /\ HandlesShared' /\ SharedRuns' /\ Joins' /\ FreeIdle'
    BY <1>4, <2>1 DEF vars, instance, caller, IInv, LockHeld, CountExact, HandlesShared,
       SharedRuns, Joins, FreeIdle
  <2> QED
    BY <2>2, <2>3 DEF IInv
<1> QED
  BY <1>1, <1>2, <1>3, <1>4 DEF Next

LEMMA IInvAlways == Spec => []IInv
BY IInvInit, IInvNext, PTL DEF Spec

-----------------------------------------------------------------------------
(* The theorems.                                                           *)

\* Every variable of the shared device keeps its type: no pipeline overruns
\* its buffer and no reference count becomes negative.
THEOREM TypeCorrect == Spec => []TypeOK
<1>1. IInv => TypeOK
  BY TypeParts DEF IInv
<1> QED
  BY <1>1, IInvAlways, PTL

\* The reference count of an instance is the number of streams that hold it
\* or are about to be given it, so the read of shared_ext_pcm after the unlock
\* in ext_pcm_open is sound.
THEOREM RefCountExactAlways == Spec => []RefCountExact
<1>1. ASSUME IInv, NEW i \in Instances
      PROVE  ref_count[i] = Cardinality(Holders(i))
               + (IF shared_ext_pcm = i THEN Cardinality(Returning) ELSE 0)
  <2>1. CASE shared_ext_pcm = i
    <3>1. Counted = Holders(i) \cup Returning /\ Holders(i) \cap Returning = {}
      BY <1>1, <2>1, HolderUses DEF Counted, CountedPlaces, Holders, Returning
    <3>2. /\ IsFiniteSet(Holders(i)) /\ Cardinality(Holders(i)) \in Nat
          /\ IsFiniteSet(Returning) /\ Cardinality(Returning) \in Nat
      BY CountedFinite DEF Holders, Returning
    <3>3. Cardinality(Holders(i) \cap Returning) = 0
      BY <3>1, FS_EmptySet
    <3>4. Cardinality(Counted) = Cardinality(Holders(i)) + Cardinality(Returning)
      <4>1. Cardinality(Holders(i) \cup Returning) =
              Cardinality(Holders(i)) + Cardinality(Returning)
                - Cardinality(Holders(i) \cap Returning)
        BY <3>2, FS_Union
      <4> QED
        BY <3>1, <3>2, <3>3, <4>1
    <3> QED
      BY <1>1, <2>1, <3>4 DEF IInv, CountExact
  <2>2. CASE shared_ext_pcm # i
    <3>1. Holders(i) = {}
      BY <1>1, <2>2, HolderUses DEF Holders
    <3> QED
      BY <1>1, <2>2, <3>1, FS_EmptySet DEF IInv, CountExact
  <2> QED
    BY <2>1, <2>2
<1>2. IInv => RefCountExact
  BY <1>1 DEF RefCountExact
<1> QED
  BY <1>2, IInvAlways, PTL

\* No stream and no mixer thread uses an instance that has been freed.
THEOREM NoUseAfterFreeAlways == Spec => []NoUseAfterFree
<1>1. ASSUME IInv PROVE NoUseAfterFree
  <2>1. \A i \in Instances : mixer[i] # "none" => allocated[i]
    BY <1>1 DEF IInv, FreeIdle
  <2>2. ASSUME NEW s \in Streams, stream[s] \in {"open", "wait", "join", "ended"}
        PROVE  allocated[ext_pcm[s]]
    BY <1>1, <2>2, HolderUses DEF IInv, Joins
  <2>3. ASSUME NEW s \in Streams, stream[s] \in {"open", "wait"}
        PROVE  mixer_pipeline_map[ext_pcm[s]] # NULL
    BY <1>1, <2>3, HolderUses
  <2> QED
    BY <2>1, <2>2, <2>3 DEF NoUseAfterFree
<1> QED
  BY <1>1, IInvAlways, PTL

\* The mixer thread of an instance runs while a stream waits in ext_pcm_write.
THEOREM WriterHasMixerAlways == Spec => []WriterHasMixer
<1>1. IInv => WriterHasMixer
  BY HolderUses DEF WriterHasMixer
<1> QED
  BY <1>1, IInvAlways, PTL
=============================================================================
