----------------------------- MODULE AudioDevice -----------------------------
(***************************************************************************)
(* The audio device of the HAL: one instance, shared by its openers with a *)
(* reference count, the map from bus addresses to output streams, which    *)
(* the AudioControl service reaches through a static handle from a thread  *)
(* of its own, the tones given to input addresses, the patch handles, and  *)
(* the parameters of hands-free calls (audio_extn/hfp.c).  A memory block  *)
(* that was freed may be allocated again.  Openers make one call at a time *)
(* and follow the HAL's rules: an address has at most one stream, and the  *)
(* last opener closes the device after its streams.                        *)
(***************************************************************************)
EXTENDS Integers, Sequences, FiniteSets

CONSTANTS Openers,        \* users of the device
          Devs, Blocks,   \* memory blocks for devices and for output streams
          None,           \* the null pointer
          Addresses,      \* bus addresses of output streams
          ToneAddresses,  \* bus addresses of tone generators
          Tones,          \* frequencies there are to assign
          MaxTone,        \* bound: the highest frequency that is ever stored
          Gains, Zones,   \* gain values and audio zones
          MaxPatches,     \* bound: patches made in a device's life
          RequestedRates  \* sample rates a stream may ask for

ASSUME DeviceAssumption ==
  /\ Openers # {} /\ IsFiniteSet(Openers) /\ Devs # {}
  /\ None \notin Devs \cup Blocks
  /\ Tones \in Nat \ {0} /\ MaxTone \in Nat /\ MaxTone >= Tones
  /\ MaxPatches \in Nat
  /\ 0 \in Gains /\ 1 \in Zones
  /\ RequestedRates \subseteq Nat

VARIABLES
  \* static variables of audio_hw.c
  audio_device_ref_count, adev, device_handle,
  \* struct generic_audio_device, of the one instance there is
  out_bus_stream_map, in_bus_tone_frequency_map, next_tone_frequency_to_assign,
  last_patch_id, last_zone_selected_to_play, hfp_running,
  \* memory
  devs,               \* the device blocks that are allocated
  streams,            \* what is in each stream's block, or None
  \* the outside
  handle,             \* what adev_open gave each opener, or None
  hfp_ctl,            \* the mixer's hfp_enable control
  patching,           \* openers in adev_create_audio_patch, with the greatest
                      \* handle that was returned before they called
  returned,           \* the greatest patch handle returned
  setting,            \* openers in adev_set_audio_port_config, with the stream
                      \* they looked up
  toning,             \* openers in adev_open_input_stream for a tone generator,
                      \* with the frequency they read last
  raced,              \* history: have two such calls overlapped?
  control,            \* the AudioControl thread
  wanted,             \* history: what the address was last set to
  orphaned            \* history: was a device closed during a hands-free call?

static == <<audio_device_ref_count, adev, device_handle>>
tones == <<in_bus_tone_frequency_map, next_tone_frequency_to_assign, toning, raced>>
patches == <<last_patch_id, patching, returned>>
hfp == <<hfp_running, hfp_ctl, orphaned>>
map == <<out_bus_stream_map, streams, wanted>>
controls == <<control, setting>>
vars == <<static, tones, patches, hfp, map, last_zone_selected_to_play, devs, handle,
          controls>>

\* A hash map is a function on the addresses it has.
Put(m, k, v) == [x \in DOMAIN m \cup {k} |-> IF x = k THEN v ELSE m[x]]
Remove(m, k) == [x \in DOMAIN m \ {k} |-> m[x]]
EmptyMap == [x \in {} |-> None]

Settings == [is_muted : BOOLEAN, gain : Gains]
NewSettings == [is_muted |-> FALSE, gain |-> 0]

\* A stream: its address, its settings, and whether a setting meant for an
\* earlier stream in the same block has been written to it.
Streams == [address : Addresses, set : Settings, foreign : BOOLEAN]

\* The null pointer points to no stream.
ASSUME NoneAssumption == None \notin Streams

Idle == [address |-> None, block |-> None, is_muted |-> FALSE, stale |-> FALSE]

Opened == {o \in Openers : handle[o] # None}

\* The openers that may make a call.
Free == Opened \ (DOMAIN patching \cup DOMAIN setting \cup DOMAIN toning)

Init ==
  /\ audio_device_ref_count = 0 /\ adev = None /\ device_handle = None
  /\ out_bus_stream_map = EmptyMap /\ in_bus_tone_frequency_map = EmptyMap
  /\ next_tone_frequency_to_assign = 0
  /\ last_patch_id = 0 /\ last_zone_selected_to_play = 1 /\ hfp_running = FALSE
  /\ devs = {} /\ streams = [b \in Blocks |-> None]
  /\ handle = [o \in Openers |-> None]
  /\ hfp_ctl = FALSE /\ orphaned = FALSE
  /\ patching = EmptyMap /\ returned = 0
  /\ setting = EmptyMap /\ toning = EmptyMap /\ raced = FALSE
  /\ control = Idle
  /\ wanted = [a \in Addresses |-> NewSettings]

-----------------------------------------------------------------------------
(* adev_open and adev_close, under the static lock.                        *)

\* The first opener makes the device; its zone is
\* DEFAULT_ZONE_TO_LEFT_SPEAKER, and hfp_enable is left as the mixer has it.
MakeDevice ==
  /\ \E d \in Devs \ devs : adev' = d
  /\ devs' = devs \cup {adev'}
  /\ device_handle' = adev'
  /\ out_bus_stream_map' = EmptyMap /\ in_bus_tone_frequency_map' = EmptyMap
  /\ next_tone_frequency_to_assign' = 0 /\ raced' = FALSE
  /\ last_patch_id' = 0 /\ returned' = 0
  /\ last_zone_selected_to_play' = 1
  /\ hfp_running' = FALSE

AdevOpen(o) ==
  /\ handle[o] = None
  /\ \/ /\ audio_device_ref_count # 0
        /\ UNCHANGED <<adev, devs, device_handle, out_bus_stream_map,
                       in_bus_tone_frequency_map, next_tone_frequency_to_assign, raced,
                       last_patch_id, returned, last_zone_selected_to_play, hfp_running>>
     \/ /\ audio_device_ref_count = 0
        /\ MakeDevice
  /\ handle' = [handle EXCEPT ![o] = adev']
  /\ audio_device_ref_count' = audio_device_ref_count + 1
  /\ UNCHANGED <<patching, toning, hfp_ctl, orphaned, streams, wanted, controls>>

\* Mutant: the static handle outlives the device.
AdevCloseKeepsHandle(o) ==
  /\ o \in Free
  /\ audio_device_ref_count = 1 => \A b \in Blocks : streams[b] = None
  /\ handle' = [handle EXCEPT ![o] = None]
  /\ audio_device_ref_count' = audio_device_ref_count - 1
  /\ devs' = IF audio_device_ref_count = 1 THEN devs \ {handle[o]} ELSE devs
  /\ UNCHANGED <<adev, device_handle, tones, patches, hfp, map,
                 last_zone_selected_to_play, controls>>

\* The last close frees the device that is passed.
AdevClose(o) ==
  /\ o \in Free
  /\ audio_device_ref_count = 1 => \A b \in Blocks : streams[b] = None
  /\ handle' = [handle EXCEPT ![o] = None]
  /\ audio_device_ref_count' = audio_device_ref_count - 1
  /\ IF audio_device_ref_count = 1
     THEN /\ device_handle' = None
          /\ devs' = devs \ {handle[o]}
          /\ orphaned' = (orphaned \/ hfp_running)
     ELSE UNCHANGED <<device_handle, devs, orphaned>>
  /\ UNCHANGED <<adev, tones, patches, hfp_running, hfp_ctl, map,
                 last_zone_selected_to_play, controls>>

-----------------------------------------------------------------------------
(* Output streams and their addresses.                                     *)

\* adev_open_output_stream: a stream starts neither muted nor ducked.
OpenOutput(a) ==
  /\ Free # {}
  /\ \A b \in Blocks : streams[b] # None => streams[b].address # a
  /\ \E b \in Blocks :
        /\ streams[b] = None
        /\ streams' = [streams EXCEPT ![b] = [address |-> a, set |-> NewSettings,
                                              foreign |-> FALSE]]
        /\ out_bus_stream_map' = Put(out_bus_stream_map, a, b)
  /\ wanted' = [wanted EXCEPT ![a] = NewSettings]
  /\ UNCHANGED <<static, tones, patches, hfp, last_zone_selected_to_play, devs, handle,
                 controls>>

\* The calls that have looked up a stream are left with its block.
Overtake(b) ==
  /\ control' = [control EXCEPT !.stale = @ \/ control.block = b]
  /\ setting' = [o \in DOMAIN setting |->
                   [setting[o] EXCEPT !.stale = @ \/ setting[o].block = b]]

\* Mutant: the address keeps its entry in the map.
CloseOutputKeepsEntry(b) ==
  /\ Free # {}
  /\ streams[b] # None
  /\ streams' = [streams EXCEPT ![b] = None]
  /\ Overtake(b)
  /\ UNCHANGED <<static, tones, patches, hfp, out_bus_stream_map, wanted,
                 last_zone_selected_to_play, devs, handle>>

\* The end of adev_close_output_stream, after the worker was joined.  The
\* AudioControl thread and other openers may still have the block.
CloseOutput(b) ==
  /\ Free # {}
  /\ streams[b] # None
  /\ out_bus_stream_map' = Remove(out_bus_stream_map, streams[b].address)
  /\ streams' = [streams EXCEPT ![b] = None]
  /\ Overtake(b)
  /\ UNCHANGED <<static, tones, patches, hfp, wanted, last_zone_selected_to_play, devs,
                 handle>>

\* adev_set_audio_port_config looks the stream up without any lock; -EINVAL
\* for an address without one.
SetAudioPortConfig(o, a, g) ==
  /\ o \in Free
  /\ a \in DOMAIN out_bus_stream_map
  /\ setting' = Put(setting, o, [address |-> a, block |-> out_bus_stream_map[a],
                                 gain |-> g, stale |-> FALSE])
  /\ UNCHANGED <<static, tones, patches, hfp, map, last_zone_selected_to_play, devs, handle,
                 control>>

\* It goes on with the lock of the stream it found.  If that was freed
\* meanwhile the write is lost or hits whatever the block holds now (or the
\* destroyed lock ends the process, and with it the behaviour).
SetAmplitudeRatio(o) ==
  /\ o \in DOMAIN setting
  /\ setting' = Remove(setting, o)
  /\ LET call == setting[o]
     IN /\ IF streams[call.block] = None
           THEN UNCHANGED streams
           ELSE streams' = [streams EXCEPT ![call.block].set.gain = call.gain,
                                           ![call.block].foreign = @ \/ call.stale]
        /\ wanted' = IF call.stale THEN wanted
                     ELSE [wanted EXCEPT ![call.address].gain = call.gain]
  /\ UNCHANGED <<static, tones, patches, hfp, out_bus_stream_map,
                 last_zone_selected_to_play, devs, handle, control>>

\* get_audio_device, for set_device_address_is_muted: look the stream up
\* under the static lock.  (set_device_address_is_ducked is the same call
\* for another flag.)
GetAudioDevice(a, is_muted) ==
  /\ control = Idle
  /\ device_handle # None
  /\ a \in DOMAIN out_bus_stream_map
  /\ control' = [address |-> a, block |-> out_bus_stream_map[a], is_muted |-> is_muted,
                 stale |-> FALSE]
  /\ UNCHANGED <<static, tones, patches, hfp, map, last_zone_selected_to_play, devs, handle,
                 setting>>

\* set_device_address_is_muted goes on, with the lock of the stream it was
\* given, which may have been freed as well.
SetIsMuted ==
  /\ control # Idle
  /\ control' = Idle
  /\ IF streams[control.block] = None
     THEN UNCHANGED streams
     ELSE streams' = [streams EXCEPT ![control.block].set.is_muted = control.is_muted,
                                     ![control.block].foreign = @ \/ control.stale]
  /\ wanted' = IF control.stale THEN wanted
               ELSE [wanted EXCEPT ![control.address].is_muted = control.is_muted]
  /\ UNCHANGED <<static, tones, patches, hfp, out_bus_stream_map,
                 last_zone_selected_to_play, devs, handle, setting>>

-----------------------------------------------------------------------------
(* Tones: adev_open_input_stream for a tone generator.  The frequencies    *)
(* are read, looked up, assigned and increased without a lock, each access *)
(* for itself; the compiled code may store the sum before it is compared   *)
(* with the highest one.                                                   *)

toneless == <<static, patches, hfp, map, last_zone_selected_to_play, devs, handle, controls>>

\* An opener goes on to the next access, or is done.
Goes(o, at, value) ==
  toning' = [toning EXCEPT ![o] = [address |-> @.address, at |-> at, value |-> value]]
Done(o) == toning' = Remove(toning, o)

\* update_frequency is read.
OpenToneInput(o, a) ==
  /\ o \in Free
  /\ toning' = Put(toning, o, [address |-> a, at |-> "get",
                               value |-> next_tone_frequency_to_assign])
  /\ raced' = (raced \/ DOMAIN toning # {})
  /\ UNCHANGED <<in_bus_tone_frequency_map, next_tone_frequency_to_assign, toneless>>

\* Mutant: every stream that is opened uses up a tone.
GetToneAlways(o) ==
  /\ o \in DOMAIN toning
  /\ toning[o].at = "get"
  /\ Goes(o, IF toning[o].address \in DOMAIN in_bus_tone_frequency_map THEN "load" ELSE "put",
          toning[o].value)
  /\ UNCHANGED <<in_bus_tone_frequency_map, next_tone_frequency_to_assign, raced, toneless>>

\* create_or_fetch_tone_frequency finds the tone the address once got.  Only
\* a stream whose tone is the next one uses it up.
GetTone(o) ==
  /\ o \in DOMAIN toning
  /\ toning[o].at = "get"
  /\ LET call == toning[o]
     IN \/ /\ call.address \notin DOMAIN in_bus_tone_frequency_map
           /\ Goes(o, "put", call.value)
        \/ /\ call.address \in DOMAIN in_bus_tone_frequency_map
           /\ IF in_bus_tone_frequency_map[call.address] = call.value
              THEN Goes(o, "load", call.value)
              ELSE Done(o)
  /\ UNCHANGED <<in_bus_tone_frequency_map, next_tone_frequency_to_assign, raced, toneless>>

\* It assigns the one that was read, and the stream uses that up.
PutTone(o) ==
  /\ o \in DOMAIN toning
  /\ toning[o].at = "put"
  /\ in_bus_tone_frequency_map' =
       Put(in_bus_tone_frequency_map, toning[o].address, toning[o].value)
  /\ Goes(o, "load", toning[o].value)
  /\ UNCHANGED <<next_tone_frequency_to_assign, raced, toneless>>

\* increase_next_tone_frequency: add one in two accesses, and past the
\* highest tone start again.
LoadTone(o) ==
  /\ o \in DOMAIN toning
  /\ toning[o].at = "load"
  /\ Goes(o, "store", next_tone_frequency_to_assign)
  /\ UNCHANGED <<in_bus_tone_frequency_map, next_tone_frequency_to_assign, raced, toneless>>

StoreTone(o) ==
  /\ o \in DOMAIN toning
  /\ toning[o].at = "store" /\ toning[o].value < MaxTone
  /\ next_tone_frequency_to_assign' = toning[o].value + 1
  /\ Goes(o, "wrap", toning[o].value)
  /\ UNCHANGED <<in_bus_tone_frequency_map, raced, toneless>>

WrapTone(o) ==
  /\ o \in DOMAIN toning
  /\ toning[o].at = "wrap"
  /\ next_tone_frequency_to_assign' = IF next_tone_frequency_to_assign > Tones - 1 THEN 0
                                      ELSE next_tone_frequency_to_assign
  /\ Done(o)
  /\ UNCHANGED <<in_bus_tone_frequency_map, raced, toneless>>

ToneStep(o) == GetTone(o) \/ PutTone(o) \/ LoadTone(o) \/ StoreTone(o) \/ WrapTone(o)

-----------------------------------------------------------------------------
(* adev_create_audio_patch: count under the device's lock, read after it.  *)
(* adev_release_audio_patch does nothing.                                  *)

CreateAudioPatch(o) ==
  /\ o \in Free
  /\ last_patch_id < MaxPatches
  /\ last_patch_id' = last_patch_id + 1
  /\ patching' = Put(patching, o, returned)
  /\ UNCHANGED <<static, tones, returned, hfp, map, last_zone_selected_to_play, devs,
                 handle, controls>>

\* Mutant: the handle is the count before the call.
PatchReturnBefore(o) ==
  /\ o \in DOMAIN patching
  /\ patching' = Remove(patching, o)
  /\ returned' = last_patch_id - 1
  /\ UNCHANGED <<static, tones, last_patch_id, hfp, map, last_zone_selected_to_play, devs,
                 handle, controls>>

PatchReturn(o) ==
  /\ o \in DOMAIN patching
  /\ patching' = Remove(patching, o)
  /\ returned' = last_patch_id
  /\ UNCHANGED <<static, tones, last_patch_id, hfp, map, last_zone_selected_to_play, devs,
                 handle, controls>>

-----------------------------------------------------------------------------
(* adev_set_parameters with audio_extn_hfp_set_parameters, under the       *)
(* device's lock.  The sampling rate and the volume of a call only pass to *)
(* the mixer, and are left out.                                            *)

\* Mutant: the flag is set before the mixer is asked.
HfpSetEnableFirst(enable) ==
  /\ hfp_running' = enable
  /\ \/ hfp_ctl' = enable /\ orphaned' = FALSE
     \/ UNCHANGED <<hfp_ctl, orphaned>>

\* hfp_set_enable: the mixer may refuse, or not have the control.
HfpSetEnable(enable) ==
  \/ /\ hfp_ctl' = enable
     /\ hfp_running' = enable
     /\ orphaned' = FALSE
  \/ UNCHANGED hfp

\* Mutant: a key that was not given is taken to have a value.
HfpSetParametersUngiven(enable) ==
  IF enable = hfp_running THEN UNCHANGED hfp ELSE HfpSetEnable(enable)

\* audio_extn_hfp_set_parameters: a call that already is as asked is left
\* alone.
HfpSetParameters(enable) ==
  IF enable \in {None, hfp_running} THEN UNCHANGED hfp ELSE HfpSetEnable(enable)

\* A zone may be given, or a call started or stopped.
SetParameters ==
  /\ Free # {}
  /\ \E zone \in Zones \cup {None}, enable \in BOOLEAN \cup {None} :
        /\ last_zone_selected_to_play' = IF zone = None THEN last_zone_selected_to_play
                                         ELSE zone
        /\ HfpSetParameters(enable)
  /\ UNCHANGED <<static, tones, patches, map, devs, handle, controls>>

-----------------------------------------------------------------------------
(* refine_output_parameters and refine_input_parameters.                   *)

OutputRates == <<8000, 11025, 16000, 22050, 24000, 32000, 44100, 48000>>
InputRates == <<8000, 11025, 16000, 22050, 44100, 48000>>

\* Mutant: a rate the table has is passed over.
RefineRateAbove(rates, rate) ==
  LET above == {i \in DOMAIN rates : rate < rates[i]}
  IN IF above = {} THEN rates[Len(rates)]
     ELSE rates[CHOOSE i \in above : \A j \in above : i <= j]

\* The loop stops at the first rate of the table that is not below the one
\* requested, or takes the last.
RefineRate(rates, rate) ==
  LET above == {i \in DOMAIN rates : rate <= rates[i]}
  IN IF above = {} THEN rates[Len(rates)]
     ELSE rates[CHOOSE i \in above : \A j \in above : i <= j]

Configs == [sample_rate : RequestedRates, format : {"PCM_16_BIT", "other"},
            channel_count : 0 .. 3]

\* What *config holds after the call.
Refine(rates, config) ==
  [sample_rate |-> RefineRate(rates, config.sample_rate),
   format |-> "PCM_16_BIT",
   channel_count |-> IF config.channel_count \in {1, 2} THEN config.channel_count ELSE 2]

RefineOutputParameters(config) == Refine(OutputRates, config)
RefineInputParameters(config) == Refine(InputRates, config)

\* The calls return 0 when they had nothing to change, else -EINVAL.
Accepted(config, refined) == refined = config

-----------------------------------------------------------------------------
Next ==
  \/ \E o \in Openers :
       \/ AdevOpen(o) \/ AdevClose(o) \/ CreateAudioPatch(o) \/ PatchReturn(o)
       \/ \E a \in Addresses, g \in Gains : SetAudioPortConfig(o, a, g)
       \/ SetAmplitudeRatio(o)
       \/ \E a \in ToneAddresses : OpenToneInput(o, a)
       \/ ToneStep(o)
  \/ \E a \in Addresses : \/ OpenOutput(a)
                          \/ \E is_muted \in BOOLEAN : GetAudioDevice(a, is_muted)
  \/ \E b \in Blocks : CloseOutput(b)
  \/ SetIsMuted
  \/ SetParameters

Spec == Init /\ [][Next]_vars

-----------------------------------------------------------------------------
(* Properties.                                                             *)

\* Every variable has its type.
TypeOK ==
  /\ audio_device_ref_count \in 0 .. Cardinality(Openers)
  /\ adev \in Devs \cup {None} /\ device_handle \in Devs \cup {None}
  /\ DOMAIN out_bus_stream_map \subseteq Addresses
  /\ \A a \in DOMAIN out_bus_stream_map : out_bus_stream_map[a] \in Blocks
  /\ DOMAIN in_bus_tone_frequency_map \subseteq ToneAddresses
  /\ \A a \in DOMAIN in_bus_tone_frequency_map :
        in_bus_tone_frequency_map[a] \in 0 .. MaxTone
  /\ next_tone_frequency_to_assign \in 0 .. MaxTone
  /\ DOMAIN toning \subseteq Openers /\ raced \in BOOLEAN
  /\ \A o \in DOMAIN toning :
        toning[o] \in [address : ToneAddresses, value : 0 .. MaxTone,
                      at : {"get", "put", "load", "store", "wrap"}]
  /\ last_patch_id \in 0 .. MaxPatches /\ returned \in 0 .. MaxPatches
  /\ last_zone_selected_to_play \in Zones
  /\ hfp_running \in BOOLEAN /\ hfp_ctl \in BOOLEAN /\ orphaned \in BOOLEAN
  /\ devs \subseteq Devs /\ streams \in [Blocks -> Streams \cup {None}]
  /\ handle \in [Openers -> Devs \cup {None}]
  /\ DOMAIN patching \subseteq Openers
  /\ \A o \in DOMAIN patching : patching[o] \in 0 .. MaxPatches
  /\ DOMAIN setting \subseteq Openers
  /\ \A o \in DOMAIN setting :
        setting[o] \in [address : Addresses, block : Blocks, gain : Gains, stale : BOOLEAN]
  /\ control \in [address : Addresses \cup {None}, block : Blocks \cup {None},
                  is_muted : BOOLEAN, stale : BOOLEAN]
  /\ wanted \in [Addresses -> Settings]

\* Whatever the order of opens and closes, every opener's device is
\* allocated, all openers have the same one, and there is none without an
\* opener: audio_device_ref_count counts the openers.  get_audio_device,
\* called by AudioControl at any time, finds no freed device in device_handle.
HandlesLive ==
  /\ audio_device_ref_count = Cardinality(Opened)
  /\ \A o \in Opened : handle[o] \in devs
  /\ devs = {handle[o] : o \in Opened}
  /\ Cardinality(devs) <= 1
  /\ device_handle # None => device_handle \in devs

\* A stream is muted, and has the gain, as was last asked for its address
\* since it was opened, unless a mute or a gain that was overtaken by a
\* close between its lookup and its lock fell on it.
ControlReachesAddress ==
  \A b \in Blocks : streams[b] # None /\ ~streams[b].foreign =>
    streams[b].set = wanted[streams[b].address]

\* Two addresses get different tones as long as there are tones for all,
\* however often their streams are opened, and although each open leaves the
\* next tone to the following one in six accesses.  Only while no two opens
\* have overlapped: next_tone_frequency_to_assign is "Protected by
\* this->lock" in audio_hw.h and by nothing in the code, and two that
\* overlap can get the same tone.
TonesDistinct ==
  LET tone == in_bus_tone_frequency_map
  IN ~raced /\ Cardinality(DOMAIN tone) <= Tones =>
       \A a, b \in DOMAIN tone : tone[a] = tone[b] => a = b

\* hfp_running agrees with the mixer's control, refused calls included,
\* unless a device was closed during a call; and it is never set when the
\* control is not.
HfpAgrees ==
  /\ hfp_running => hfp_ctl
  /\ devs # {} /\ hfp_ctl /\ ~hfp_running => orphaned

\* A patch gets a greater handle than all that were returned before its
\* call, although the handle is read after the unlock.
PatchHandlesGrow ==
  [][\A o \in DOMAIN patching : o \notin DOMAIN patching' => returned' > patching[o]]_vars

\* Refined parameters are not refined again, and are the next ones up.
RefinementSettles ==
  \A config \in Configs :
    LET next_up(rates, refined) ==
          \A i \in DOMAIN rates : rates[i] >= config.sample_rate =>
            rates[i] >= refined.sample_rate /\ refined.sample_rate >= config.sample_rate
        output == RefineOutputParameters(config)
        input == RefineInputParameters(config)
    IN /\ Accepted(output, RefineOutputParameters(output)) /\ next_up(OutputRates, output)
       /\ Accepted(input, RefineInputParameters(input)) /\ next_up(InputRates, input)

\* Whoever has the device open and opens a stream, is refused, and comes back
\* with the parameters put in the place of theirs is accepted; and these are
\* the next ones up.
RefinedIsAccepted == Opened # {} => RefinementSettles
=============================================================================
