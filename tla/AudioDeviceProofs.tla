-------------------------- MODULE AudioDeviceProofs --------------------------
(***************************************************************************)
(* Proofs of the safety properties of the audio device, for any number of  *)
(* openers, addresses, memory blocks and tones.                            *)
(***************************************************************************)
EXTENDS AudioDevice, FiniteSetTheorems, TLAPS

-----------------------------------------------------------------------------
(* The inductive invariant, by what each part is about.                    *)

\* The openers share the one device there is while it has any.
DeviceInv ==
  /\ handle \in [Openers -> Devs \cup {None}]
  /\ adev \in Devs \cup {None}
  /\ audio_device_ref_count = Cardinality(Opened)
  /\ Opened = {} => devs = {} /\ device_handle = None
  /\ Opened # {} => /\ adev \in Devs /\ devs = {adev} /\ device_handle = adev
                    /\ \A o \in Opened : handle[o] = adev

\* The map and the streams agree both ways, so no two streams have one
\* address; a device without openers has no streams.
MapTypes ==
  /\ DOMAIN out_bus_stream_map \subseteq Addresses
  /\ streams \in [Blocks -> Streams \cup {None}]
  /\ wanted \in [Addresses -> Settings]

Mapped ==
  /\ \A a \in DOMAIN out_bus_stream_map :
       /\ out_bus_stream_map[a] \in Blocks
       /\ streams[out_bus_stream_map[a]] # None
       /\ streams[out_bus_stream_map[a]].address = a
  /\ \A b \in Blocks : streams[b] # None =>
       /\ streams[b].address \in DOMAIN out_bus_stream_map
       /\ out_bus_stream_map[streams[b].address] = b

NoStreamLeft == Opened = {} => \A b \in Blocks : streams[b] = None

\* The AudioControl thread, unless it is overtaken by a close, has the live
\* stream of the address it was asked about.
ControlTypes ==
  control \in [address : Addresses \cup {None}, block : Blocks \cup {None},
               is_muted : BOOLEAN, stale : BOOLEAN]

ControlHolds ==
  control # Idle =>
    /\ control.address \in Addresses /\ control.block \in Blocks
    /\ ~control.stale => /\ streams[control.block] # None
                         /\ streams[control.block].address = control.address

\* So it is with the openers in adev_set_audio_port_config.
SettingTypes ==
  \A o \in DOMAIN setting :
    setting[o] \in [address : Addresses, block : Blocks, gain : Gains, stale : BOOLEAN]

SettingHolds ==
  \A o \in DOMAIN setting :
    ~setting[o].stale => /\ streams[setting[o].block] # None
                         /\ streams[setting[o].block].address = setting[o].address

MapInv ==
  /\ MapTypes /\ Mapped /\ NoStreamLeft /\ ControlTypes /\ ControlHolds
  /\ SettingTypes /\ SettingHolds /\ ControlReachesAddress

\* Tones.
Toned == DOMAIN in_bus_tone_frequency_map

Toning == [address : ToneAddresses, value : 0 .. MaxTone,
           at : {"get", "put", "load", "store", "wrap"}]

ToneTypes ==
  /\ Toned \subseteq ToneAddresses /\ IsFiniteSet(Toned)
  /\ \A a \in Toned : in_bus_tone_frequency_map[a] \in 0 .. MaxTone
  /\ next_tone_frequency_to_assign \in 0 .. MaxTone
  /\ raced \in BOOLEAN
  /\ \A o \in DOMAIN toning : toning[o] \in Toning

\* The tone that the next call will find when the one in progress is done.
Wrapped(n) == IF n > Tones - 1 THEN 0 ELSE n

Increasing == \E o \in DOMAIN toning : toning[o].at \in {"load", "store"}
Wrapping == \E o \in DOMAIN toning : toning[o].at = "wrap"

Upcoming ==
  Wrapped(IF Increasing THEN next_tone_frequency_to_assign + 1
          ELSE next_tone_frequency_to_assign)

\* A call that is alone finds what it has read unchanged.
Alone ==
  /\ \A o, p \in DOMAIN toning : o = p
  /\ \A o \in DOMAIN toning :
       /\ toning[o].at \in {"get", "put", "store"} =>
            toning[o].value = next_tone_frequency_to_assign
       /\ toning[o].at = "put" => toning[o].address \notin Toned

\* While there are tones left they are given out in order.
Ordered ==
  /\ next_tone_frequency_to_assign \in 0 .. Tones
  /\ ~Wrapping => next_tone_frequency_to_assign < Tones
  /\ Cardinality(Toned) < Tones => Upcoming = Cardinality(Toned)
  /\ Cardinality(Toned) <= Tones =>
       /\ \A a \in Toned : in_bus_tone_frequency_map[a] < Cardinality(Toned)
       /\ \A a, b \in Toned :
            in_bus_tone_frequency_map[a] = in_bus_tone_frequency_map[b] => a = b

ToneInv == ToneTypes /\ (~raced => Alone /\ Ordered)

\* Only openers of the device are in its calls.
CallersInv == DOMAIN setting \subseteq Opened /\ DOMAIN toning \subseteq Opened

\* Whoever is in adev_create_audio_patch has counted since it called.
PatchInv ==
  /\ last_patch_id \in 0 .. MaxPatches /\ returned \in 0 .. last_patch_id
  /\ DOMAIN patching \subseteq Opened
  /\ \A o \in DOMAIN patching : patching[o] \in 0 .. last_patch_id - 1

\* A control that is set when no device is has been left by a close.
HfpInv ==
  /\ hfp_running \in BOOLEAN /\ hfp_ctl \in BOOLEAN /\ orphaned \in BOOLEAN
  /\ HfpAgrees
  /\ devs = {} /\ hfp_ctl => orphaned

ZoneInv == last_zone_selected_to_play \in Zones

IInv == DeviceInv /\ MapInv /\ ToneInv /\ CallersInv /\ PatchInv /\ HfpInv /\ ZoneInv

-----------------------------------------------------------------------------
(* Openers: adev_open and adev_close.                                      *)

LEMMA OpenersFinite ==
  ASSUME NEW S \in SUBSET Openers
  PROVE  /\ IsFiniteSet(S) /\ Cardinality(S) \in Nat
         /\ Cardinality(S) <= Cardinality(Openers) /\ Cardinality(Openers) \in Nat
         /\ Cardinality(S) = 0 <=> S = {}
BY DeviceAssumption, FS_Subset, FS_CardinalityType, FS_EmptySet

LEMMA OpenedAfterOpen ==
  ASSUME DeviceInv, NEW o \in Openers, handle[o] = None, adev' # None,
         handle' = [handle EXCEPT ![o] = adev']
  PROVE  /\ Opened' = Opened \cup {o} /\ o \notin Opened
         /\ Cardinality(Opened') = Cardinality(Opened) + 1
<1>1. Opened' = Opened \cup {o} /\ o \notin Opened /\ Opened \in SUBSET Openers
  BY DEF DeviceInv, Opened
<1> QED
  BY <1>1, OpenersFinite, FS_AddElement

LEMMA OpenedAfterClose ==
  ASSUME DeviceInv, NEW o \in Openers, handle[o] # None,
         handle' = [handle EXCEPT ![o] = None]
  PROVE  /\ Opened' = Opened \ {o} /\ o \in Opened
         /\ Cardinality(Opened') = Cardinality(Opened) - 1
         /\ Opened' = {} <=> Cardinality(Opened) = 1
<1>1. /\ Opened' = Opened \ {o} /\ o \in Opened
      /\ Opened \in SUBSET Openers /\ Opened' \in SUBSET Openers
  BY DEF DeviceInv, Opened
<1>2. Cardinality(Opened') = Cardinality(Opened) - 1
  BY <1>1, OpenersFinite, FS_RemoveElement
<1>3. Cardinality(Opened') \in Nat /\ Cardinality(Opened) \in Nat
  BY <1>1, OpenersFinite
<1>4. Cardinality(Opened') = 0 <=> Opened' = {}
  BY <1>1, OpenersFinite
<1> QED
  BY <1>1, <1>2, <1>3, <1>4

\* The reference count tells whether there is a device.
LEMMA CountedOpeners ==
  ASSUME DeviceInv
  PROVE  audio_device_ref_count = 0 <=> Opened = {}
<1>1. Opened \in SUBSET Openers
  BY DEF Opened
<1> QED
  BY <1>1, OpenersFinite DEF DeviceInv

\* adev_open gives the opener the device, a new one to the first.
LEMMA OpenGives ==
  ASSUME DeviceInv, NEW o \in Openers, AdevOpen(o)
  PROVE  /\ adev' \in Devs /\ adev' # None
         /\ handle[o] = None /\ handle' = [handle EXCEPT ![o] = adev']
         /\ \/ Opened # {} /\ UNCHANGED <<adev, devs, device_handle>>
            \/ Opened = {} /\ MakeDevice
<1>1. /\ handle[o] = None /\ handle' = [handle EXCEPT ![o] = adev']
      /\ \/ Opened # {} /\ UNCHANGED <<adev, devs, device_handle>>
         \/ Opened = {} /\ MakeDevice
  BY CountedOpeners DEF AdevOpen
<1>2. adev' \in Devs
  BY <1>1 DEF DeviceInv, MakeDevice
<1> QED
  BY <1>1, <1>2, DeviceAssumption

LEMMA DeviceOpen ==
  ASSUME DeviceInv, NEW o \in Openers, AdevOpen(o)
  PROVE  DeviceInv'
<1>1. /\ adev' \in Devs /\ adev' # None
      /\ handle[o] = None /\ handle' = [handle EXCEPT ![o] = adev']
      /\ \/ Opened # {} /\ UNCHANGED <<adev, devs, device_handle>>
         \/ Opened = {} /\ MakeDevice
  BY OpenGives
<1>2. /\ Opened' = Opened \cup {o} /\ o \notin Opened
      /\ Cardinality(Opened') = Cardinality(Opened) + 1
  BY <1>1, OpenedAfterOpen
<1>3. handle' \in [Openers -> Devs \cup {None}]
  BY <1>1 DEF DeviceInv
<1>4. audio_device_ref_count' = Cardinality(Opened')
  BY <1>2 DEF DeviceInv, AdevOpen
<1>5. devs' = {adev'} /\ device_handle' = adev'
  BY <1>1 DEF DeviceInv, MakeDevice
<1>6. \A p \in Opened' : handle'[p] = adev'
  BY <1>1, <1>2 DEF DeviceInv, Opened
<1> QED
  BY <1>1, <1>2, <1>3, <1>4, <1>5, <1>6 DEF DeviceInv

LEMMA DeviceClose ==
  ASSUME DeviceInv, NEW o \in Openers, AdevClose(o)
  PROVE  DeviceInv'
<1>1. handle[o] # None /\ handle' = [handle EXCEPT ![o] = None] /\ adev' = adev
  BY DEF AdevClose, Free, Opened
<1>2. /\ Opened' = Opened \ {o} /\ o \in Opened
      /\ Cardinality(Opened') = Cardinality(Opened) - 1
      /\ Opened' = {} <=> Cardinality(Opened) = 1
  BY <1>1, OpenedAfterClose
<1>3. handle' \in [Openers -> Devs \cup {None}]
  BY <1>1 DEF DeviceInv
<1>4. audio_device_ref_count' = Cardinality(Opened')
  BY <1>2 DEF DeviceInv, AdevClose
<1>5. Opened' = {} => devs' = {} /\ device_handle' = None
  BY <1>2 DEF DeviceInv, AdevClose
<1>6. Opened' # {} => UNCHANGED <<devs, device_handle>>
  BY <1>2 DEF DeviceInv, AdevClose
<1>7. \A p \in Opened' : handle'[p] = handle[p]
  BY <1>1, <1>2 DEF DeviceInv, Opened
<1> QED
  BY <1>1, <1>2, <1>3, <1>4, <1>5, <1>6, <1>7 DEF DeviceInv

LEMMA DeviceSame ==
  ASSUME DeviceInv, UNCHANGED <<static, devs, handle>>
  PROVE  DeviceInv' /\ Opened' = Opened
<1>1. Opened' = Opened
  BY DEF Opened
<1> QED
  BY <1>1 DEF DeviceInv, static

-----------------------------------------------------------------------------
(* Tones.                                                                  *)

LEMMA ToneNumbers == Tones \in Nat /\ Tones >= 1 /\ MaxTone \in Nat /\ Tones <= MaxTone
BY DeviceAssumption

LEMMA ToneEmpty ==
  ASSUME in_bus_tone_frequency_map = EmptyMap, next_tone_frequency_to_assign = 0,
         DOMAIN toning = {}, raced = FALSE
  PROVE  ToneInv
<1>1. Toned = {}
  BY DEF Toned, EmptyMap
<1>2. IsFiniteSet(Toned) /\ Cardinality(Toned) = 0
  BY <1>1, FS_EmptySet
<1>3. ToneTypes
  <2>1. /\ \A a \in Toned : in_bus_tone_frequency_map[a] \in 0 .. MaxTone
        /\ next_tone_frequency_to_assign \in 0 .. MaxTone
    BY <1>1, ToneNumbers
  <2> QED
    BY <1>1, <1>2, <2>1, Zenon DEF ToneTypes
<1>5. Alone
  BY DEF Alone
<1>4. Ordered
  BY <1>1, <1>2, ToneNumbers DEF Ordered, Upcoming, Increasing, Wrapping, Wrapped
<1> QED
  BY <1>3, <1>4, <1>5 DEF ToneInv

\* So it is with a new device.
LEMMA ToneFresh ==
  ASSUME in_bus_tone_frequency_map' = EmptyMap, next_tone_frequency_to_assign' = 0,
         DOMAIN toning' = {}, raced' = FALSE
  PROVE  ToneInv'
<1>1. Toned' = {}
  BY DEF Toned, EmptyMap
<1>2. IsFiniteSet(Toned') /\ Cardinality(Toned') = 0
  BY <1>1, FS_EmptySet
<1>3. ToneTypes'
  <2>1. /\ \A a \in Toned' : in_bus_tone_frequency_map'[a] \in 0 .. MaxTone
        /\ next_tone_frequency_to_assign' \in 0 .. MaxTone
    BY <1>1, ToneNumbers
  <2> QED
    BY <1>1, <1>2, <2>1, Zenon DEF ToneTypes
<1>5. Alone'
  BY DEF Alone
<1>4. Ordered'
  BY <1>1, <1>2, ToneNumbers DEF Ordered, Upcoming, Increasing, Wrapping, Wrapped
<1> QED
  BY <1>3, <1>4, <1>5 DEF ToneInv

LEMMA ToneSame == ASSUME ToneInv, UNCHANGED tones PROVE ToneInv'
BY DEF ToneInv, ToneTypes, Alone, Ordered, Upcoming, Increasing, Wrapping, Toned, tones

\* What an opener in a call does to toning: it goes on, or is done.
LEMMA GoesTypes ==
  ASSUME ToneTypes, NEW o \in DOMAIN toning, NEW at \in {"get", "put", "load", "store", "wrap"},
         NEW value \in 0 .. MaxTone, Goes(o, at, value)
  PROVE  \A p \in DOMAIN toning' : toning'[p] \in Toning
<1>1. toning'[o] = [address |-> toning[o].address, at |-> at, value |-> value]
  BY DEF Goes
<1>2. toning[o].address \in ToneAddresses
  BY DEF ToneTypes, Toning
<1>3. toning'[o] \in Toning
  BY <1>1, <1>2 DEF Toning
<1> QED
  BY <1>3 DEF ToneTypes, Goes

LEMMA DoneTypes ==
  ASSUME ToneTypes, NEW o, Done(o)
  PROVE  \A p \in DOMAIN toning' : toning'[p] \in Toning
BY DEF Done, Remove, ToneTypes

\* A call that is alone, as it goes on.
Moved(o, at, value) ==
  /\ DOMAIN toning = {o} /\ DOMAIN toning' = {o}
  /\ toning'[o].address = toning[o].address
  /\ toning'[o].at = at /\ toning'[o].value = value
  /\ Increasing <=> toning[o].at \in {"load", "store"}
  /\ Increasing' <=> at \in {"load", "store"}
  /\ Wrapping <=> toning[o].at = "wrap"
  /\ Wrapping' <=> at = "wrap"

LEMMA GoesAlone ==
  ASSUME Alone, NEW o \in DOMAIN toning, NEW at, NEW value, Goes(o, at, value)
  PROVE  Moved(o, at, value)
<1>1. DOMAIN toning = {o}
  BY DEF Alone
<1>2. /\ DOMAIN toning' = {o} /\ toning'[o].address = toning[o].address
      /\ toning'[o].at = at /\ toning'[o].value = value
  BY <1>1 DEF Goes
<1> QED
  BY <1>1, <1>2 DEF Moved, Increasing, Wrapping

LEMMA DoneAlone ==
  ASSUME Alone, NEW o \in DOMAIN toning, Done(o)
  PROVE  /\ DOMAIN toning = {o} /\ DOMAIN toning' = {}
         /\ Increasing <=> toning[o].at \in {"load", "store"}
         /\ Wrapping <=> toning[o].at = "wrap"
         /\ ~Increasing' /\ ~Wrapping' /\ Alone'
<1>1. DOMAIN toning = {o}
  BY DEF Alone
<1>2. DOMAIN toning' = {}
  BY <1>1 DEF Done, Remove
<1> QED
  BY <1>1, <1>2 DEF Increasing, Wrapping, Alone

\* update_frequency is read: alone when nobody else is in such a call.
LEMMA ToneOpen ==
  ASSUME ToneInv, NEW o, NEW a \in ToneAddresses, OpenToneInput(o, a)
  PROVE  ToneInv'
<1> DEFINE next == next_tone_frequency_to_assign
           call == [address |-> a, at |-> "get", value |-> next]
<1>1. UNCHANGED <<in_bus_tone_frequency_map, next>> /\ Toned' = Toned
  BY DEF OpenToneInput, Toned
<1>2. /\ DOMAIN toning' = DOMAIN toning \cup {o} /\ toning'[o] = call
      /\ \A p \in DOMAIN toning \ {o} : toning'[p] = toning[p]
  BY DEF OpenToneInput, Put
<1>3. call \in Toning
  BY DEF ToneInv, ToneTypes, Toning
<1>4. ToneTypes'
  BY <1>1, <1>2, <1>3 DEF ToneInv, ToneTypes, OpenToneInput
<1>5. ASSUME ~raced' PROVE Alone' /\ Ordered'
  <2>1. ~raced /\ DOMAIN toning = {}
    BY <1>5 DEF OpenToneInput
  <2>2. DOMAIN toning' = {o} /\ toning'[o].at = "get" /\ toning'[o].value = next
    BY <1>2, <2>1
  <2>3. Alone'
    BY <1>1, <2>2 DEF Alone
  <2>4. ~Increasing /\ ~Increasing' /\ ~Wrapping /\ ~Wrapping'
    BY <2>1, <2>2 DEF Increasing, Wrapping
  <2>5. Upcoming' = Upcoming
    BY <1>1, <2>4 DEF Upcoming
  <2> QED
    BY <1>1, <2>1, <2>3, <2>4, <2>5 DEF ToneInv, Ordered
<1> QED
  BY <1>4, <1>5 DEF ToneInv

\* hashmapGet: the next tone is nobody's while there are tones left.
LEMMA ToneGet ==
  ASSUME ToneInv, NEW o, GetTone(o)
  PROVE  ToneInv'
<1> DEFINE next == next_tone_frequency_to_assign
           call == toning[o]
<1>1. /\ UNCHANGED <<in_bus_tone_frequency_map, next, raced>> /\ Toned' = Toned
      /\ o \in DOMAIN toning /\ call.at = "get"
  BY DEF GetTone, Toned
<1>2. call.value \in 0 .. MaxTone
  BY <1>1 DEF ToneInv, ToneTypes, Toning
<1>3. \A p \in DOMAIN toning' : toning'[p] \in Toning
  <2>1. \/ Goes(o, "put", call.value) \/ Goes(o, "load", call.value) \/ Done(o)
    BY DEF GetTone
  <2> QED
    BY <1>1, <1>2, <2>1, GoesTypes, DoneTypes DEF ToneInv
<1>4. ToneTypes'
  BY <1>1, <1>3 DEF ToneInv, ToneTypes
<1>5. ASSUME ~raced' PROVE Alone' /\ Ordered'
  <2>1. Alone /\ Ordered
    BY <1>1, <1>5 DEF ToneInv
  <2>2. call.value = next
    BY <1>1, <2>1 DEF Alone
  <2>3. CASE call.address \notin Toned /\ Goes(o, "put", call.value)
    <3>0. Moved(o, "put", call.value)
      BY <1>1, <2>1, <2>3, GoesAlone
    <3>1. Alone'
      BY <1>1, <2>2, <2>3, <3>0 DEF Alone, Moved
    <3>2. ~Increasing /\ ~Increasing' /\ ~Wrapping /\ ~Wrapping'
      BY <1>1, <3>0 DEF Moved
    <3>3. Upcoming' = Upcoming
      BY <1>1, <3>2 DEF Upcoming
    <3> QED
      BY <1>1, <2>1, <3>1, <3>2, <3>3 DEF Ordered
  <2>4. CASE /\ call.address \in Toned /\ in_bus_tone_frequency_map[call.address] = call.value
             /\ Goes(o, "load", call.value)
    <3>0. Moved(o, "load", call.value)
      BY <1>1, <2>1, <2>4, GoesAlone
    <3>1. Alone'
      BY <3>0 DEF Alone, Moved
    <3>2. ~Increasing /\ ~Wrapping /\ ~Wrapping'
      BY <1>1, <3>0 DEF Moved
    <3>3. next \in Nat /\ next < Tones /\ Cardinality(Toned) \in Nat
      BY <2>1, <3>2, ToneNumbers, FS_CardinalityType DEF Ordered, ToneInv, ToneTypes
    <3>4. Upcoming = next
      BY <3>2, <3>3, ToneNumbers DEF Upcoming, Wrapped
    <3>5. ~(Cardinality(Toned) < Tones)
      BY <2>1, <2>2, <2>4, <3>3, <3>4, ToneNumbers DEF Ordered
    <3> QED
      BY <1>1, <2>1, <3>1, <3>2, <3>3, <3>5 DEF Ordered
  <2>5. CASE Done(o)
    <3>1. Alone' /\ ~Increasing /\ ~Increasing' /\ ~Wrapping /\ ~Wrapping'
      BY <1>1, <2>1, <2>5, DoneAlone
    <3>2. Upcoming' = Upcoming
      BY <1>1, <3>1 DEF Upcoming
    <3> QED
      BY <1>1, <2>1, <3>1, <3>2 DEF Ordered
  <2> QED
    BY <2>3, <2>4, <2>5 DEF GetTone, Toned
<1> QED
  BY <1>4, <1>5 DEF ToneInv

\* hashmapPut: one more address has a tone, the next one.
LEMMA TonePut ==
  ASSUME ToneInv, NEW o, PutTone(o)
  PROVE  ToneInv'
<1> DEFINE tone == in_bus_tone_frequency_map
           next == next_tone_frequency_to_assign
           a == toning[o].address
           v == toning[o].value
           n == Cardinality(Toned)
<1>1. /\ UNCHANGED <<next, raced>> /\ o \in DOMAIN toning /\ toning[o].at = "put"
      /\ tone' = Put(tone, a, v) /\ Goes(o, "load", v)
  BY DEF PutTone
<1>2. a \in ToneAddresses /\ v \in 0 .. MaxTone
  BY <1>1 DEF ToneInv, ToneTypes, Toning
<1>3. /\ Toned' = Toned \cup {a} /\ tone'[a] = v
      /\ \A b \in Toned \ {a} : tone'[b] = tone[b]
  BY <1>1 DEF Toned, Put
<1>4. IsFiniteSet(Toned')
  BY <1>3, FS_AddElement DEF ToneInv, ToneTypes
<1>5. \A p \in DOMAIN toning' : toning'[p] \in Toning
  BY <1>1, <1>2, GoesTypes DEF ToneInv
<1>6. ToneTypes'
  BY <1>1, <1>2, <1>3, <1>4, <1>5 DEF ToneInv, ToneTypes
<1>7. ASSUME ~raced' PROVE Alone' /\ Ordered'
  <2>1. Alone /\ Ordered
    BY <1>1, <1>7 DEF ToneInv
  <2>0. Moved(o, "load", v)
    BY <1>1, <2>1, GoesAlone
  <2>2. v = next /\ a \notin Toned
    BY <1>1, <2>1 DEF Alone
  <2>3. Alone'
    BY <1>1, <2>1, <2>0 DEF Alone, Moved
  <2>4. ~Increasing /\ Increasing' /\ ~Wrapping /\ ~Wrapping'
    BY <1>1, <2>0 DEF Moved
  <2>5. next \in Nat /\ next < Tones /\ n \in Nat /\ Cardinality(Toned') = n + 1
    <3>1. next \in Nat /\ next < Tones
      BY <2>1, <2>4, ToneNumbers DEF Ordered
    <3>2. IsFiniteSet(Toned)
      BY DEF ToneInv, ToneTypes
    <3>3. n \in Nat /\ Cardinality(Toned \cup {a}) = n + 1
      BY <2>2, <3>2, FS_CardinalityType, FS_AddElement
    <3> QED
      BY <1>3, <3>1, <3>3
  <2>6. Upcoming = next /\ Upcoming' = Wrapped(next + 1)
    BY <1>1, <2>4, <2>5, ToneNumbers DEF Upcoming, Wrapped
  <2>7. n + 1 < Tones => Upcoming' = n + 1
    BY <2>1, <2>5, <2>6, ToneNumbers DEF Ordered, Wrapped
  <2>8. ASSUME n + 1 <= Tones
        PROVE  /\ \A b \in Toned' : tone'[b] < n + 1
               /\ \A b, c \in Toned' : tone'[b] = tone'[c] => b = c
    <3>1. /\ next = n /\ \A b \in Toned : tone[b] < n /\ tone[b] \in Nat
          /\ \A b, c \in Toned : tone[b] = tone[c] => b = c
      BY <2>1, <2>5, <2>6, <2>8, ToneNumbers DEF Ordered, ToneInv, ToneTypes
    <3> QED
      BY <1>3, <2>2, <2>5, <3>1
  <2> QED
    BY <1>1, <2>1, <2>3, <2>4, <2>5, <2>7, <2>8, ToneNumbers DEF Ordered
<1> QED
  BY <1>6, <1>7 DEF ToneInv

\* increase_next_tone_frequency, in three accesses.
LEMMA ToneLoad ==
  ASSUME ToneInv, NEW o, LoadTone(o)
  PROVE  ToneInv'
<1> DEFINE next == next_tone_frequency_to_assign
<1>1. /\ UNCHANGED <<in_bus_tone_frequency_map, next, raced>> /\ Toned' = Toned
      /\ o \in DOMAIN toning /\ toning[o].at = "load" /\ Goes(o, "store", next)
  BY DEF LoadTone, Toned
<1>2. ToneTypes'
  BY <1>1, GoesTypes DEF ToneInv, ToneTypes
<1>3. ASSUME ~raced' PROVE Alone' /\ Ordered'
  <2>1. Alone /\ Ordered
    BY <1>1, <1>3 DEF ToneInv
  <2>0. Moved(o, "store", next)
    BY <1>1, <2>1, GoesAlone
  <2>2. Alone'
    BY <1>1, <2>1, <2>0 DEF Alone, Moved
  <2>3. Increasing /\ Increasing' /\ ~Wrapping /\ ~Wrapping'
    BY <1>1, <2>0 DEF Moved
  <2>4. Upcoming' = Upcoming
    BY <1>1, <2>3 DEF Upcoming
  <2> QED
    BY <1>1, <2>1, <2>2, <2>3, <2>4 DEF Ordered
<1> QED
  BY <1>2, <1>3 DEF ToneInv

LEMMA ToneStore ==
  ASSUME ToneInv, NEW o, StoreTone(o)
  PROVE  ToneInv'
<1> DEFINE next == next_tone_frequency_to_assign
           v == toning[o].value
<1>1. /\ UNCHANGED <<in_bus_tone_frequency_map, raced>> /\ Toned' = Toned
      /\ o \in DOMAIN toning /\ toning[o].at = "store" /\ Goes(o, "wrap", v)
      /\ next' = v + 1 /\ v < MaxTone
  BY DEF StoreTone, Toned
<1>2. v \in 0 .. MaxTone /\ next' \in 0 .. MaxTone
  BY <1>1, ToneNumbers DEF ToneInv, ToneTypes, Toning
<1>3. ToneTypes'
  BY <1>1, <1>2, GoesTypes DEF ToneInv, ToneTypes
<1>4. ASSUME ~raced' PROVE Alone' /\ Ordered'
  <2>1. Alone /\ Ordered
    BY <1>1, <1>4 DEF ToneInv
  <2>0. Moved(o, "wrap", v)
    BY <1>1, <2>1, GoesAlone
  <2>2. Alone' /\ v = next
    BY <1>1, <2>1, <2>0 DEF Alone, Moved
  <2>3. Increasing /\ ~Increasing' /\ ~Wrapping /\ Wrapping'
    BY <1>1, <2>0 DEF Moved
  <2>4. Upcoming' = Upcoming
    BY <1>1, <2>2, <2>3 DEF Upcoming
  <2>5. next' \in 0 .. Tones
    BY <1>1, <2>1, <2>2, <2>3, ToneNumbers DEF Ordered
  <2> QED
    BY <1>1, <2>1, <2>2, <2>3, <2>4, <2>5 DEF Ordered
<1> QED
  BY <1>3, <1>4 DEF ToneInv

LEMMA ToneWrap ==
  ASSUME ToneInv, NEW o, WrapTone(o)
  PROVE  ToneInv'
<1> DEFINE next == next_tone_frequency_to_assign
<1>1. /\ UNCHANGED <<in_bus_tone_frequency_map, raced>> /\ Toned' = Toned
      /\ o \in DOMAIN toning /\ toning[o].at = "wrap" /\ Done(o)
      /\ next' = Wrapped(next)
  BY DEF WrapTone, Toned, Wrapped
<1>2. next' \in 0 .. MaxTone
  BY <1>1, ToneNumbers DEF ToneInv, ToneTypes, Wrapped
<1>3. ToneTypes'
  BY <1>1, <1>2, DoneTypes DEF ToneInv, ToneTypes
<1>4. ASSUME ~raced' PROVE Alone' /\ Ordered'
  <2>1. Alone /\ Ordered
    BY <1>1, <1>4 DEF ToneInv
  <2>2. Alone' /\ ~Increasing /\ ~Increasing' /\ ~Wrapping'
    BY <1>1, <2>1, DoneAlone
  <2>3. next \in 0 .. Tones /\ next' \in 0 .. Tones /\ next' < Tones
    BY <1>1, <2>1, ToneNumbers DEF Ordered, Wrapped
  <2>4. Upcoming' = Upcoming
    BY <1>1, <2>2, <2>3, ToneNumbers DEF Upcoming, Wrapped
  <2> QED
    BY <1>1, <2>1, <2>2, <2>3, <2>4 DEF Ordered
<1> QED
  BY <1>3, <1>4 DEF ToneInv

-----------------------------------------------------------------------------
(* Patches: adev_create_audio_patch.                                       *)

LEMMA PatchOpen ==
  ASSUME DeviceInv, PatchInv, NEW o \in Openers, AdevOpen(o)
  PROVE  PatchInv'
<1>1. Opened' = Opened \cup {o} /\ patching' = patching
  BY OpenGives, OpenedAfterOpen DEF AdevOpen
<1>2. CASE audio_device_ref_count # 0
  BY <1>1, <1>2 DEF AdevOpen, PatchInv
<1>3. CASE audio_device_ref_count = 0
  <2>1. DOMAIN patching = {} /\ last_patch_id' = 0 /\ returned' = 0
    BY <1>3, CountedOpeners DEF PatchInv, AdevOpen, MakeDevice
  <2> QED
    BY <1>1, <2>1, DeviceAssumption DEF PatchInv
<1> QED
  BY <1>2, <1>3

LEMMA PatchClose ==
  ASSUME DeviceInv, PatchInv, NEW o \in Openers, AdevClose(o)
  PROVE  PatchInv'
<1>1. Opened' = Opened \ {o} /\ o \notin DOMAIN patching
  BY OpenedAfterClose DEF AdevClose, Free, Opened
<1> QED
  BY <1>1 DEF PatchInv, AdevClose, patches

LEMMA PatchCreate ==
  ASSUME DeviceInv, PatchInv, NEW o \in Openers, CreateAudioPatch(o)
  PROVE  PatchInv'
<1>1. Opened' = Opened /\ o \in Opened
  BY DEF CreateAudioPatch, Free, Opened
<1>2. /\ DOMAIN patching' = DOMAIN patching \cup {o} /\ patching'[o] = returned
      /\ \A p \in DOMAIN patching \ {o} : patching'[p] = patching[p]
  BY DEF CreateAudioPatch, Put
<1>3. last_patch_id' = last_patch_id + 1 /\ last_patch_id < MaxPatches /\ returned' = returned
  BY DEF CreateAudioPatch
<1> QED
  BY <1>1, <1>2, <1>3, DeviceAssumption DEF PatchInv

LEMMA PatchReturned ==
  ASSUME DeviceInv, PatchInv, NEW o \in Openers, PatchReturn(o)
  PROVE  PatchInv'
<1>1. Opened' = Opened
  BY DEF PatchReturn, Opened
<1>2. /\ DOMAIN patching' \subseteq DOMAIN patching
      /\ \A p \in DOMAIN patching' : patching'[p] = patching[p]
  BY DEF PatchReturn, Remove
<1>3. last_patch_id' = last_patch_id /\ returned' = last_patch_id
  BY DEF PatchReturn
<1> QED
  BY <1>1, <1>2, <1>3, DeviceAssumption DEF PatchInv

LEMMA PatchSame ==
  ASSUME PatchInv, UNCHANGED <<patches, handle>>
  PROVE  PatchInv'
BY DEF PatchInv, patches, Opened

-----------------------------------------------------------------------------
(* Hands-free calls.                                                       *)

LEMMA HfpOpen ==
  ASSUME DeviceInv, HfpInv, NEW o \in Openers, AdevOpen(o)
  PROVE  HfpInv'
<1>1. UNCHANGED <<hfp_ctl, orphaned>>
  BY DEF AdevOpen
<1>2. CASE audio_device_ref_count # 0
  BY <1>1, <1>2 DEF AdevOpen, HfpInv, HfpAgrees
<1>3. CASE audio_device_ref_count = 0
  <2>1. devs = {} /\ hfp_running' = FALSE
    BY <1>3, CountedOpeners DEF DeviceInv, AdevOpen, MakeDevice
  <2> QED
    BY <1>1, <2>1 DEF HfpInv, HfpAgrees
<1> QED
  BY <1>2, <1>3

LEMMA HfpClose ==
  ASSUME DeviceInv, HfpInv, NEW o \in Openers, AdevClose(o)
  PROVE  HfpInv'
<1>1. UNCHANGED <<hfp_ctl, hfp_running>>
  BY DEF AdevClose
<1>2. CASE audio_device_ref_count # 1
  BY <1>1, <1>2 DEF AdevClose, HfpInv, HfpAgrees
<1>3. CASE audio_device_ref_count = 1
  <2>1. orphaned' = (orphaned \/ hfp_running)
    BY <1>3 DEF AdevClose
  <2>2. devs # {}
    <3>1. Opened # {}
      BY DEF AdevClose, Free
    <3> QED
      BY <3>1 DEF DeviceInv
  <2>3. orphaned' \in BOOLEAN
    BY <2>1 DEF HfpInv
  <2> QED
    BY <1>1, <2>1, <2>2, <2>3 DEF HfpInv, HfpAgrees
<1> QED
  BY <1>2, <1>3

LEMMA HfpSet ==
  ASSUME DeviceInv, HfpInv, SetParameters
  PROVE  HfpInv'
<1>1. devs' = devs /\ devs # {}
  BY DEF SetParameters, DeviceInv, Free
<1>2. PICK enable \in BOOLEAN \cup {None} : HfpSetParameters(enable)
  BY DEF SetParameters
<1>3. CASE UNCHANGED hfp
  BY <1>1, <1>3 DEF HfpInv, HfpAgrees, hfp
<1>4. CASE enable \in BOOLEAN /\ hfp_ctl' = enable /\ hfp_running' = enable /\ orphaned' = FALSE
  BY <1>1, <1>4 DEF HfpInv, HfpAgrees
<1> QED
  BY <1>2, <1>3, <1>4 DEF HfpSetParameters, HfpSetEnable

LEMMA HfpSame == ASSUME HfpInv, UNCHANGED <<hfp, devs>> PROVE HfpInv'
BY DEF HfpInv, HfpAgrees, hfp

-----------------------------------------------------------------------------
(* Streams, their addresses and the calls that reach them.                 *)

LEMMA NewStream ==
  ASSUME NEW a \in Addresses
  PROVE  /\ NewSettings \in Settings
         /\ [address |-> a, set |-> NewSettings, foreign |-> FALSE] \in Streams
BY DeviceAssumption DEF NewSettings, Settings, Streams

\* A flag set to what it is.
LEMMA IdleNotStale ==
  ASSUME NEW v, NEW m, NEW r,
         r = [address |-> None, block |-> None, is_muted |-> m, stale |-> v]
  PROVE  [r EXCEPT !.stale = v] = r
OBVIOUS

LEMMA MapSame ==
  ASSUME MapInv, UNCHANGED <<map, controls, handle>>
  PROVE  MapInv'
BY DEF MapInv, MapTypes, Mapped, NoStreamLeft, ControlTypes, ControlHolds, SettingTypes,
   SettingHolds, ControlReachesAddress, Opened, map, controls

LEMMA MapOpen ==
  ASSUME DeviceInv, MapInv, NEW o \in Openers, AdevOpen(o)
  PROVE  MapInv'
<1>1. UNCHANGED <<streams, wanted, control, setting>>
  BY DEF AdevOpen, controls
<1>2. Opened' # {}
  BY OpenGives, OpenedAfterOpen
<1>3. MapTypes' /\ Mapped'
  <2>1. CASE audio_device_ref_count # 0
    BY <1>1, <2>1 DEF AdevOpen, MapInv, MapTypes, Mapped
  <2>2. CASE audio_device_ref_count = 0
    <3>1. DOMAIN out_bus_stream_map' = {}
      BY <2>2 DEF AdevOpen, MakeDevice, EmptyMap
    <3>2. \A b \in Blocks : streams[b] = None
      BY <2>2, CountedOpeners DEF MapInv, NoStreamLeft
    <3> QED
      BY <1>1, <3>1, <3>2 DEF MapInv, MapTypes, Mapped
  <2> QED
    BY <2>1, <2>2
<1>4. NoStreamLeft'
  BY <1>2 DEF NoStreamLeft
<1>5. /\ ControlTypes' /\ ControlHolds' /\ SettingTypes' /\ SettingHolds'
      /\ ControlReachesAddress'
  BY <1>1 DEF MapInv, ControlTypes, ControlHolds, SettingTypes, SettingHolds,
     ControlReachesAddress
<1> QED
  BY <1>3, <1>4, <1>5 DEF MapInv

LEMMA MapClose ==
  ASSUME DeviceInv, MapInv, NEW o \in Openers, AdevClose(o)
  PROVE  MapInv'
<1>1. UNCHANGED <<map, controls>>
  BY DEF AdevClose
<1>2. /\ MapTypes' /\ Mapped' /\ ControlTypes' /\ ControlHolds' /\ SettingTypes'
      /\ SettingHolds' /\ ControlReachesAddress'
  BY <1>1 DEF map, controls, MapInv, MapTypes, Mapped, ControlTypes, ControlHolds,
     SettingTypes, SettingHolds, ControlReachesAddress
<1>3. NoStreamLeft'
  <2>1. Opened' = {} => audio_device_ref_count = 1
    BY OpenedAfterClose DEF AdevClose, DeviceInv, Free, Opened
  <2> QED
    BY <1>1, <2>1 DEF AdevClose, NoStreamLeft, map
<1> QED
  BY <1>2, <1>3 DEF MapInv

\* adev_open_output_stream.
LEMMA MapOpenOutput ==
  ASSUME MapInv, NEW a \in Addresses, OpenOutput(a)
  PROVE  MapInv'
<1> DEFINE x == [address |-> a, set |-> NewSettings, foreign |-> FALSE]
<1>1. PICK b \in Blocks :
        /\ streams[b] = None
        /\ streams' = [streams EXCEPT ![b] = x]
        /\ out_bus_stream_map' = Put(out_bus_stream_map, a, b)
  BY DEF OpenOutput
<1>2. /\ x \in Streams /\ x # None /\ x.address = a /\ x.set = NewSettings
      /\ NewSettings \in Settings
  BY NewStream, NoneAssumption
<1> HIDE DEF x
<1>3. /\ streams \in [Blocks -> Streams \cup {None}] /\ wanted \in [Addresses -> Settings]
      /\ DOMAIN out_bus_stream_map \subseteq Addresses
  BY DEF MapInv, MapTypes
<1>4. /\ streams'[b] = x /\ \A c \in Blocks \ {b} : streams'[c] = streams[c]
      /\ streams' \in [Blocks -> Streams \cup {None}]
  BY <1>1, <1>2, <1>3
<1>5. /\ DOMAIN out_bus_stream_map' = DOMAIN out_bus_stream_map \cup {a}
      /\ out_bus_stream_map'[a] = b
      /\ \A c \in DOMAIN out_bus_stream_map \ {a} :
           out_bus_stream_map'[c] = out_bus_stream_map[c]
  BY <1>1 DEF Put
<1>6. wanted' = [wanted EXCEPT ![a] = NewSettings] /\ UNCHANGED <<control, setting>>
  BY DEF OpenOutput, controls
<1>7. \A c \in Blocks : streams[c] # None => streams[c].address # a
  BY DEF OpenOutput
<1>8. MapTypes'
  BY <1>2, <1>3, <1>4, <1>5, <1>6 DEF MapTypes
<1>9. Mapped'
  BY <1>1, <1>2, <1>3, <1>4, <1>5, <1>7 DEF MapInv, Mapped
<1>10. NoStreamLeft'
  BY DEF OpenOutput, NoStreamLeft, Opened, Free
<1>11. ControlTypes' /\ ControlHolds'
  BY <1>1, <1>4, <1>6 DEF MapInv, ControlTypes, ControlHolds
<1>13. SettingTypes' /\ SettingHolds'
  <2>1. \A o \in DOMAIN setting : setting[o].block \in Blocks
    BY DEF MapInv, SettingTypes
  <2> QED
    BY <1>1, <1>4, <1>6, <2>1 DEF MapInv, SettingTypes, SettingHolds
<1>12. ControlReachesAddress'
  <2>1. \A c \in Blocks \ {b} : streams[c] # None => streams[c].address \in Addresses
    BY <1>3 DEF Streams
  <2> QED
    BY <1>2, <1>3, <1>4, <1>6, <1>7, <2>1 DEF MapInv, ControlReachesAddress
<1> QED
  BY <1>8, <1>9, <1>10, <1>11, <1>12, <1>13 DEF MapInv

\* adev_close_output_stream: the calls that have the stream become stale.
LEMMA MapCloseOutput ==
  ASSUME MapInv, NEW b \in Blocks, CloseOutput(b)
  PROVE  MapInv'
<1>1. /\ streams \in [Blocks -> Streams \cup {None}] /\ streams[b] # None
      /\ streams' = [streams EXCEPT ![b] = None] /\ wanted' = wanted
      /\ out_bus_stream_map' = Remove(out_bus_stream_map, streams[b].address)
  BY DEF MapInv, MapTypes, CloseOutput
<1>2. /\ streams'[b] = None /\ \A c \in Blocks \ {b} : streams'[c] = streams[c]
      /\ streams' \in [Blocks -> Streams \cup {None}]
  BY <1>1
<1>3. /\ DOMAIN out_bus_stream_map' = DOMAIN out_bus_stream_map \ {streams[b].address}
      /\ \A a \in DOMAIN out_bus_stream_map' :
           out_bus_stream_map'[a] = out_bus_stream_map[a]
  BY <1>1 DEF Remove
<1>4. MapTypes'
  BY <1>1, <1>2, <1>3 DEF MapInv, MapTypes
<1>5. Mapped'
  BY <1>1, <1>2, <1>3 DEF MapInv, Mapped
<1>6. NoStreamLeft'
  BY <1>1, <1>2 DEF MapInv, NoStreamLeft, Opened, CloseOutput
<1>7. control' = [control EXCEPT !.stale = @ \/ control.block = b]
  BY DEF CloseOutput, Overtake
<1>8. ControlTypes' /\ control'.address = control.address /\ control'.block = control.block
      /\ (control'.stale <=> control.stale \/ control.block = b)
  BY <1>7 DEF MapInv, ControlTypes
<1>9. ControlHolds'
  <2>1. CASE control = Idle
    <3>1. control.block # b /\ control.stale = FALSE
      BY <2>1, DeviceAssumption DEF Idle
    <3>2. control' = [control EXCEPT !.stale = FALSE]
      BY <1>7, <3>1
    <3>3. [Idle EXCEPT !.stale = FALSE] = Idle
      BY IdleNotStale DEF Idle
    <3> QED
      BY <2>1, <3>2, <3>3 DEF ControlHolds
  <2>2. CASE control # Idle
    BY <1>2, <1>8, <2>2 DEF MapInv, ControlHolds
  <2> QED
    BY <2>1, <2>2
<1>10. ControlReachesAddress'
  BY <1>1, <1>2 DEF MapInv, ControlReachesAddress
<1>11. SettingTypes' /\ SettingHolds'
  <2> SUFFICES ASSUME NEW o \in DOMAIN setting'
               PROVE  /\ setting'[o] \in [address : Addresses, block : Blocks, gain : Gains,
                                          stale : BOOLEAN]
                      /\ ~setting'[o].stale =>
                           /\ streams'[setting'[o].block] # None
                           /\ streams'[setting'[o].block].address = setting'[o].address
    BY DEF SettingTypes, SettingHolds
  <2> DEFINE call == setting[o]
             f == call.stale \/ call.block = b
  <2>1. o \in DOMAIN setting /\ setting'[o] = [call EXCEPT !.stale = f]
    BY DEF CloseOutput, Overtake
  <2>2. call \in [address : Addresses, block : Blocks, gain : Gains, stale : BOOLEAN]
    BY <2>1 DEF MapInv, SettingTypes
  <2>3. f \in BOOLEAN
    OBVIOUS
  <2>4. ~f => call.block # b /\ ~call.stale
    OBVIOUS
  <2> HIDE DEF f
  <2>5. /\ setting'[o] \in [address : Addresses, block : Blocks, gain : Gains, stale : BOOLEAN]
        /\ setting'[o].block = call.block /\ setting'[o].address = call.address
        /\ setting'[o].stale = f
    BY <2>1, <2>2, <2>3
  <2>6. ~f => /\ streams[call.block] # None /\ streams[call.block].address = call.address
              /\ streams'[call.block] = streams[call.block]
    BY <1>2, <2>1, <2>2, <2>4 DEF MapInv, SettingHolds
  <2> QED
    BY <2>5, <2>6
<1> QED
  BY <1>4, <1>5, <1>6, <1>8, <1>9, <1>10, <1>11 DEF MapInv

\* adev_set_audio_port_config finds the live stream of the address.
LEMMA MapLookup ==
  ASSUME MapInv, NEW o, NEW a \in Addresses, NEW g \in Gains, SetAudioPortConfig(o, a, g)
  PROVE  MapInv'
<1> DEFINE call == [address |-> a, block |-> out_bus_stream_map[a], gain |-> g, stale |-> FALSE]
<1>1. UNCHANGED <<map, handle, control>> /\ a \in DOMAIN out_bus_stream_map
  BY DEF SetAudioPortConfig
<1>2. /\ DOMAIN setting' = DOMAIN setting \cup {o} /\ setting'[o] = call
      /\ \A p \in DOMAIN setting \ {o} : setting'[p] = setting[p]
  BY DEF SetAudioPortConfig, Put
<1>3. /\ MapTypes' /\ Mapped' /\ NoStreamLeft' /\ ControlReachesAddress' /\ ControlTypes'
      /\ ControlHolds'
  BY <1>1 DEF MapInv, MapTypes, Mapped, NoStreamLeft, ControlReachesAddress, ControlTypes,
     ControlHolds, Opened, map
<1>4. /\ out_bus_stream_map[a] \in Blocks /\ streams[out_bus_stream_map[a]] # None
      /\ streams[out_bus_stream_map[a]].address = a
  BY <1>1 DEF MapInv, Mapped
<1>5. SettingTypes'
  <2>1. call \in [address : Addresses, block : Blocks, gain : Gains, stale : BOOLEAN]
    BY <1>4
  <2> QED
    BY <1>2, <2>1 DEF MapInv, SettingTypes
<1>6. SettingHolds'
  BY <1>1, <1>2, <1>4 DEF MapInv, SettingHolds, map
<1> QED
  BY <1>3, <1>5, <1>6 DEF MapInv

\* A setting is written to a stream: y is what it becomes.
LEMMA MapWrite ==
  ASSUME MapInv, NEW b \in Blocks, streams[b] # None, NEW y \in Streams,
         y.address = streams[b].address, streams' = [streams EXCEPT ![b] = y],
         UNCHANGED <<out_bus_stream_map, handle>>,
         wanted' \in [Addresses -> Settings],
         \A c \in Addresses \ {y.address} : wanted'[c] = wanted[c],
         ~y.foreign => y.set = wanted'[y.address]
  PROVE  /\ MapTypes' /\ Mapped' /\ NoStreamLeft' /\ ControlReachesAddress'
         /\ \A c \in Blocks : /\ streams'[c] # None <=> streams[c] # None
                              /\ streams[c] # None => streams'[c].address = streams[c].address
<1>1. y # None /\ streams \in [Blocks -> Streams \cup {None}]
  BY NoneAssumption DEF MapInv, MapTypes
<1>2. /\ streams'[b] = y /\ \A c \in Blocks \ {b} : streams'[c] = streams[c]
      /\ streams' \in [Blocks -> Streams \cup {None}]
  BY <1>1
<1>3. MapTypes'
  BY <1>2 DEF MapInv, MapTypes
<1>4. Mapped'
  BY <1>1, <1>2 DEF MapInv, Mapped
<1>5. NoStreamLeft'
  BY <1>2 DEF MapInv, NoStreamLeft, Opened
<1>6. ControlReachesAddress'
  <2>1. \A c \in Blocks \ {b} : streams[c] # None =>
          streams[c].address \in Addresses /\ streams[c].address # y.address
    BY <1>1 DEF Streams, MapInv, Mapped
  <2> QED
    BY <1>2, <2>1 DEF MapInv, ControlReachesAddress
<1> QED
  BY <1>1, <1>2, <1>3, <1>4, <1>5, <1>6

\* The calls that look at streams keep what they found.
LEMMA HoldersKeep ==
  ASSUME MapInv,
         \A c \in Blocks : /\ streams'[c] # None <=> streams[c] # None
                           /\ streams[c] # None => streams'[c].address = streams[c].address
  PROVE  /\ control' \in {control, Idle} => ControlTypes' /\ ControlHolds'
         /\ (/\ DOMAIN setting' \subseteq DOMAIN setting
             /\ \A o \in DOMAIN setting' : setting'[o] = setting[o])
            => SettingTypes' /\ SettingHolds'
<1>1. ASSUME control' = control PROVE ControlTypes' /\ ControlHolds'
  <2>1. ControlTypes'
    BY <1>1 DEF MapInv, ControlTypes
  <2>2. ControlHolds'
    <3> SUFFICES ASSUME control # Idle
                 PROVE  /\ control.address \in Addresses /\ control.block \in Blocks
                        /\ ~control.stale => /\ streams'[control.block] # None
                                             /\ streams'[control.block].address = control.address
      BY <1>1 DEF ControlHolds
    <3>1. /\ control.address \in Addresses /\ control.block \in Blocks
          /\ ~control.stale => /\ streams[control.block] # None
                               /\ streams[control.block].address = control.address
      BY DEF MapInv, ControlHolds
    <3> QED
      BY <3>1
  <2> QED
    BY <2>1, <2>2
<1>2. control' = Idle => ControlTypes' /\ ControlHolds'
  BY DEF ControlTypes, ControlHolds, Idle
<1>3. ASSUME DOMAIN setting' \subseteq DOMAIN setting,
             \A o \in DOMAIN setting' : setting'[o] = setting[o]
      PROVE  SettingTypes' /\ SettingHolds'
  <2>1. \A o \in DOMAIN setting : setting[o].block \in Blocks
    BY DEF MapInv, SettingTypes
  <2>2. SettingTypes'
    BY <1>3 DEF MapInv, SettingTypes
  <2>3. SettingHolds'
    <3> SUFFICES ASSUME NEW o \in DOMAIN setting', ~setting'[o].stale
                 PROVE  /\ streams'[setting'[o].block] # None
                        /\ streams'[setting'[o].block].address = setting'[o].address
      BY DEF SettingHolds
    <3>1. /\ setting'[o] = setting[o] /\ setting[o].block \in Blocks
          /\ streams[setting[o].block] # None
          /\ streams[setting[o].block].address = setting[o].address
      BY <1>3, <2>1 DEF MapInv, SettingHolds
    <3> QED
      BY <3>1
  <2> QED
    BY <2>2, <2>3
<1> QED
  BY <1>1, <1>2, <1>3

\* adev_set_audio_port_config goes on.
LEMMA MapGain ==
  ASSUME MapInv, NEW o, SetAmplitudeRatio(o)
  PROVE  MapInv'
<1> DEFINE call == setting[o]
           b == call.block
           x == streams[b]
           f == x.foreign \/ call.stale
           y == [x EXCEPT !.set.gain = call.gain, !.foreign = f]
<1>1. /\ streams \in [Blocks -> Streams \cup {None}] /\ wanted \in [Addresses -> Settings]
      /\ call.address \in Addresses /\ b \in Blocks
      /\ call.gain \in Gains /\ call.stale \in BOOLEAN /\ o \in DOMAIN setting
  BY DEF MapInv, MapTypes, SettingTypes, SetAmplitudeRatio
<1>2. UNCHANGED <<out_bus_stream_map, handle, control>>
  BY DEF SetAmplitudeRatio
<1>3. /\ DOMAIN setting' \subseteq DOMAIN setting
      /\ \A p \in DOMAIN setting' : setting'[p] = setting[p]
  BY DEF SetAmplitudeRatio, Remove
<1>4. CASE x = None
  <2>1. UNCHANGED <<streams, wanted>>
    BY <1>1, <1>4 DEF SetAmplitudeRatio, MapInv, SettingHolds
  <2>2. MapTypes' /\ Mapped' /\ NoStreamLeft' /\ ControlReachesAddress'
    BY <1>2, <2>1 DEF MapInv, MapTypes, Mapped, NoStreamLeft, ControlReachesAddress, Opened
  <2> QED
    BY <1>2, <1>3, <2>1, <2>2, HoldersKeep DEF MapInv
<1>5. CASE x # None
  <2>1. x \in Streams /\ x.foreign \in BOOLEAN /\ x.address \in Addresses
    BY <1>1, <1>5 DEF Streams
  <2>2. streams' = [streams EXCEPT ![b] = y]
    BY <1>1, <1>5 DEF SetAmplitudeRatio
  <2>3. f \in BOOLEAN
    OBVIOUS
  <2> HIDE DEF f, x
  <2>4. /\ y \in Streams /\ y.address = x.address /\ y.foreign = f
        /\ y.set = [x.set EXCEPT !.gain = call.gain]
    BY <1>1, <2>1, <2>3 DEF Streams, Settings
  <2> HIDE DEF y
  <2> USE DEF x
  <2>5. wanted' \in [Addresses -> Settings]
    <3>1. [wanted[call.address] EXCEPT !.gain = call.gain] \in Settings
      BY <1>1 DEF Settings
    <3> QED
      BY <1>1, <3>1 DEF SetAmplitudeRatio
  <2>6. /\ \A c \in Addresses \ {y.address} : wanted'[c] = wanted[c]
        /\ ~y.foreign => y.set = wanted'[y.address]
    <3>1. CASE call.stale
      <4>1. f /\ wanted' = wanted
        BY <3>1 DEF f, SetAmplitudeRatio
      <4> QED
        BY <2>4, <4>1
    <3>2. CASE ~call.stale
      <4>1. x.address = call.address
        BY <1>1, <3>2 DEF MapInv, SettingHolds
      <4>2. wanted' = [wanted EXCEPT ![call.address].gain = call.gain]
        BY <3>2 DEF SetAmplitudeRatio
      <4>3. /\ wanted'[call.address] = [wanted[call.address] EXCEPT !.gain = call.gain]
            /\ \A c \in Addresses \ {call.address} : wanted'[c] = wanted[c]
        BY <1>1, <4>2
      <4>4. ~f => x.set = wanted[call.address]
        BY <1>1, <1>5, <4>1 DEF f, MapInv, ControlReachesAddress
      <4> QED
        BY <2>4, <4>1, <4>3, <4>4
    <3> QED
      BY <3>1, <3>2
  <2>7. /\ MapTypes' /\ Mapped' /\ NoStreamLeft' /\ ControlReachesAddress'
        /\ \A c \in Blocks : /\ streams'[c] # None <=> streams[c] # None
                             /\ streams[c] # None => streams'[c].address = streams[c].address
    BY <1>1, <1>2, <1>5, <2>2, <2>4, <2>5, <2>6, MapWrite
  <2> QED
    BY <1>2, <1>3, <2>7, HoldersKeep DEF MapInv
<1> QED
  BY <1>4, <1>5

\* get_audio_device.
LEMMA MapGet ==
  ASSUME MapInv, NEW a \in Addresses, NEW m \in BOOLEAN, GetAudioDevice(a, m)
  PROVE  MapInv'
<1>1. UNCHANGED <<map, handle, setting>> /\ a \in DOMAIN out_bus_stream_map
  BY DEF GetAudioDevice
<1>2. control' = [address |-> a, block |-> out_bus_stream_map[a], is_muted |-> m,
                  stale |-> FALSE]
  BY DEF GetAudioDevice
<1>3. /\ MapTypes' /\ Mapped' /\ NoStreamLeft' /\ ControlReachesAddress' /\ SettingTypes'
      /\ SettingHolds'
  BY <1>1 DEF MapInv, MapTypes, Mapped, NoStreamLeft, ControlReachesAddress, SettingTypes,
     SettingHolds, Opened, map
<1>4. /\ out_bus_stream_map[a] \in Blocks /\ streams[out_bus_stream_map[a]] # None
      /\ streams[out_bus_stream_map[a]].address = a
  BY <1>1 DEF MapInv, Mapped
<1>5. ControlTypes'
  BY <1>2, <1>4 DEF ControlTypes
<1>6. ControlHolds'
  BY <1>1, <1>2, <1>4 DEF ControlHolds, map
<1> QED
  BY <1>3, <1>5, <1>6 DEF MapInv

\* set_device_address_is_muted goes on.
LEMMA MapMute ==
  ASSUME MapInv, SetIsMuted
  PROVE  MapInv'
<1> DEFINE b == control.block
           x == streams[b]
           f == x.foreign \/ control.stale
           y == [x EXCEPT !.set.is_muted = control.is_muted, !.foreign = f]
<1>1. /\ streams \in [Blocks -> Streams \cup {None}] /\ wanted \in [Addresses -> Settings]
      /\ control.address \in Addresses /\ b \in Blocks
      /\ control.is_muted \in BOOLEAN /\ control.stale \in BOOLEAN
  BY DEF MapInv, MapTypes, ControlTypes, ControlHolds, SetIsMuted
<1>2. UNCHANGED <<out_bus_stream_map, handle, setting>> /\ control' = Idle
  BY DEF SetIsMuted
<1>3. CASE x = None
  <2>1. UNCHANGED <<streams, wanted>>
    BY <1>3 DEF SetIsMuted, MapInv, ControlHolds
  <2>2. MapTypes' /\ Mapped' /\ NoStreamLeft' /\ ControlReachesAddress'
    BY <1>2, <2>1 DEF MapInv, MapTypes, Mapped, NoStreamLeft, ControlReachesAddress, Opened
  <2> QED
    BY <1>2, <2>1, <2>2, HoldersKeep DEF MapInv
<1>4. CASE x # None
  <2>1. x \in Streams /\ x.foreign \in BOOLEAN /\ x.address \in Addresses
    BY <1>1, <1>4 DEF Streams
  <2>2. streams' = [streams EXCEPT ![b] = y]
    BY <1>1, <1>4 DEF SetIsMuted
  <2>3. f \in BOOLEAN
    OBVIOUS
  <2> HIDE DEF f, x
  <2>4. /\ y \in Streams /\ y.address = x.address /\ y.foreign = f
        /\ y.set = [x.set EXCEPT !.is_muted = control.is_muted]
    BY <1>1, <2>1, <2>3 DEF Streams, Settings
  <2> HIDE DEF y
  <2> USE DEF x
  <2>5. wanted' \in [Addresses -> Settings]
    <3>1. [wanted[control.address] EXCEPT !.is_muted = control.is_muted] \in Settings
      BY <1>1 DEF Settings
    <3> QED
      BY <1>1, <3>1 DEF SetIsMuted
  <2>6. /\ \A c \in Addresses \ {y.address} : wanted'[c] = wanted[c]
        /\ ~y.foreign => y.set = wanted'[y.address]
    <3>1. CASE control.stale
      <4>1. f /\ wanted' = wanted
        BY <3>1 DEF f, SetIsMuted
      <4> QED
        BY <2>4, <4>1
    <3>2. CASE ~control.stale
      <4>1. x.address = control.address
        BY <3>2 DEF MapInv, ControlHolds, SetIsMuted
      <4>2. wanted' = [wanted EXCEPT ![control.address].is_muted = control.is_muted]
        BY <3>2 DEF SetIsMuted
      <4>3. /\ wanted'[control.address] =
                 [wanted[control.address] EXCEPT !.is_muted = control.is_muted]
            /\ \A c \in Addresses \ {control.address} : wanted'[c] = wanted[c]
        BY <1>1, <4>2
      <4>4. ~f => x.set = wanted[control.address]
        BY <1>1, <1>4, <4>1 DEF f, MapInv, ControlReachesAddress
      <4> QED
        BY <2>4, <4>1, <4>3, <4>4
    <3> QED
      BY <3>1, <3>2
  <2>7. /\ MapTypes' /\ Mapped' /\ NoStreamLeft' /\ ControlReachesAddress'
        /\ \A c \in Blocks : /\ streams'[c] # None <=> streams[c] # None
                             /\ streams[c] # None => streams'[c].address = streams[c].address
    BY <1>1, <1>2, <1>4, <2>2, <2>4, <2>5, <2>6, MapWrite
  <2> QED
    BY <1>2, <2>7, HoldersKeep DEF MapInv
<1> QED
  BY <1>3, <1>4

-----------------------------------------------------------------------------
(* All together.                                                           *)

LEMMA IInvInit == Init => IInv
<1> SUFFICES ASSUME Init PROVE IInv
  OBVIOUS
<1>1. DeviceInv
  <2>1. Opened = {}
    BY DEF Init, Opened
  <2> QED
    BY <2>1, FS_EmptySet DEF Init, DeviceInv
<1>2. MapInv
  <2>1. MapTypes
    <3>1. NewSettings \in Settings
      BY DeviceAssumption DEF NewSettings, Settings
    <3> QED
      BY <3>1 DEF Init, MapTypes, EmptyMap
  <2>2. Mapped /\ NoStreamLeft /\ ControlReachesAddress
    BY DEF Init, Mapped, NoStreamLeft, ControlReachesAddress, EmptyMap
  <2>3. ControlTypes /\ ControlHolds /\ SettingTypes /\ SettingHolds
    BY DEF Init, ControlTypes, ControlHolds, SettingTypes, SettingHolds, Idle, EmptyMap
  <2> QED
    BY <2>1, <2>2, <2>3 DEF MapInv
<1>3. ToneInv /\ CallersInv
  <2>1. DOMAIN toning = {} /\ DOMAIN setting = {}
    BY DEF Init, EmptyMap
  <2> QED
    BY <2>1, ToneEmpty DEF Init, CallersInv
<1>4. PatchInv
  BY DeviceAssumption DEF Init, PatchInv, EmptyMap
<1>5. HfpInv
  BY DEF Init, HfpInv, HfpAgrees
<1>6. ZoneInv
  BY DeviceAssumption DEF Init, ZoneInv
<1> QED
  BY <1>1, <1>2, <1>3, <1>4, <1>5, <1>6 DEF IInv

\* A part that a step does not touch keeps its invariant.
LEMMA Untouched ==
  ASSUME IInv
  PROVE  /\ UNCHANGED <<static, devs, handle>> => DeviceInv'
         /\ UNCHANGED <<map, controls, handle>> => MapInv'
         /\ UNCHANGED tones => ToneInv'
         /\ UNCHANGED <<tones, controls, handle>> => CallersInv'
         /\ UNCHANGED <<patches, handle>> => PatchInv'
         /\ UNCHANGED <<hfp, devs>> => HfpInv'
         /\ UNCHANGED last_zone_selected_to_play => ZoneInv'
<1>1. DeviceInv /\ MapInv /\ ToneInv /\ PatchInv /\ HfpInv
  BY DEF IInv
<1>2. UNCHANGED last_zone_selected_to_play => ZoneInv'
  BY DEF IInv, ZoneInv
<1>3. UNCHANGED <<tones, controls, handle>> => CallersInv'
  BY DEF IInv, CallersInv, Opened, tones, controls
<1> QED
  BY <1>1, <1>2, <1>3, DeviceSame, MapSame, ToneSame, PatchSame, HfpSame

LEMMA IInvOpen == ASSUME IInv, NEW o \in Openers, AdevOpen(o) PROVE IInv'
<1>1. DeviceInv' /\ MapInv' /\ PatchInv' /\ HfpInv'
  BY DeviceOpen, MapOpen, PatchOpen, HfpOpen DEF IInv
<1>2. Opened \subseteq Opened' /\ UNCHANGED <<setting, toning>>
  BY OpenGives, OpenedAfterOpen DEF IInv, AdevOpen, controls
<1>3. CallersInv'
  BY <1>2 DEF IInv, CallersInv
<1>4. CASE audio_device_ref_count # 0
  <2>1. UNCHANGED tones /\ UNCHANGED last_zone_selected_to_play
    BY <1>4 DEF AdevOpen, tones
  <2> QED
    BY <1>1, <1>3, <2>1, Untouched DEF IInv
<1>5. CASE audio_device_ref_count = 0
  <2>1. ToneInv'
    <3>1. /\ in_bus_tone_frequency_map' = EmptyMap /\ next_tone_frequency_to_assign' = 0
          /\ raced' = FALSE
      BY <1>5 DEF AdevOpen, MakeDevice
    <3>2. DOMAIN toning' = {}
      BY <1>2, <1>5, CountedOpeners DEF IInv, CallersInv
    <3> QED
      BY <3>1, <3>2, ToneFresh
  <2>2. ZoneInv'
    BY <1>5, DeviceAssumption DEF AdevOpen, MakeDevice, ZoneInv
  <2> QED
    BY <1>1, <1>3, <2>1, <2>2 DEF IInv
<1> QED
  BY <1>4, <1>5

LEMMA IInvClose == ASSUME IInv, NEW o \in Openers, AdevClose(o) PROVE IInv'
<1>1. DeviceInv' /\ MapInv' /\ PatchInv' /\ HfpInv'
  BY DeviceClose, MapClose, PatchClose, HfpClose DEF IInv
<1>2. UNCHANGED tones /\ UNCHANGED last_zone_selected_to_play
  BY DEF AdevClose
<1>3. CallersInv'
  <2>1. Opened' = Opened \ {o} /\ o \notin DOMAIN setting \cup DOMAIN toning
    BY OpenedAfterClose DEF IInv, AdevClose, Free, Opened
  <2> QED
    BY <2>1 DEF IInv, CallersInv, AdevClose, tones, controls
<1> QED
  BY <1>1, <1>2, <1>3, Untouched DEF IInv

LEMMA IInvPatch ==
  ASSUME IInv, NEW o \in Openers, CreateAudioPatch(o) \/ PatchReturn(o)
  PROVE  IInv'
<1>1. PatchInv'
  BY PatchCreate, PatchReturned DEF IInv
<1>2. UNCHANGED <<static, tones, hfp, map, last_zone_selected_to_play, devs, handle, controls>>
  BY DEF CreateAudioPatch, PatchReturn
<1> QED
  BY <1>1, <1>2, Untouched DEF IInv

\* The actions on streams.
StreamStep ==
  \/ \E o \in Openers, a \in Addresses, g \in Gains : SetAudioPortConfig(o, a, g)
  \/ \E o \in Openers : SetAmplitudeRatio(o)
  \/ \E a \in Addresses : \/ OpenOutput(a)
                          \/ \E is_muted \in BOOLEAN : GetAudioDevice(a, is_muted)
  \/ \E b \in Blocks : CloseOutput(b)
  \/ SetIsMuted

LEMMA IInvStream == ASSUME IInv, StreamStep PROVE IInv'
<1>1. MapInv
  BY DEF IInv
<1>2. MapInv'
  BY <1>1, MapOpenOutput, MapLookup, MapGain, MapGet, MapCloseOutput, MapMute DEF StreamStep
<1>3. UNCHANGED <<static, tones, patches, hfp, last_zone_selected_to_play, devs, handle>>
  BY DEF StreamStep, OpenOutput, SetAudioPortConfig, SetAmplitudeRatio, GetAudioDevice,
     CloseOutput, SetIsMuted
<1>4. CallersInv'
  <2>1. Opened' = Opened /\ UNCHANGED toning
    BY <1>3 DEF Opened, tones
  <2>2. DOMAIN setting' \subseteq Opened
    <3>1. ASSUME NEW o \in Openers, NEW a \in Addresses, NEW g \in Gains,
                 SetAudioPortConfig(o, a, g)
          PROVE  DOMAIN setting' \subseteq Opened
      BY <3>1 DEF SetAudioPortConfig, Put, IInv, CallersInv, Free
    <3>2. ASSUME NEW o \in Openers, SetAmplitudeRatio(o)
          PROVE  DOMAIN setting' \subseteq Opened
      BY <3>2 DEF SetAmplitudeRatio, Remove, IInv, CallersInv
    <3>3. ASSUME NEW b \in Blocks, CloseOutput(b)
          PROVE  DOMAIN setting' \subseteq Opened
      BY <3>3 DEF CloseOutput, Overtake, IInv, CallersInv
    <3>4. ASSUME UNCHANGED setting
          PROVE  DOMAIN setting' \subseteq Opened
      BY <3>4 DEF IInv, CallersInv
    <3> QED
      BY <3>1, <3>2, <3>3, <3>4 DEF StreamStep, OpenOutput, GetAudioDevice, SetIsMuted, controls
  <2> QED
    BY <2>1, <2>2 DEF IInv, CallersInv
<1> QED
  BY <1>2, <1>3, <1>4, Untouched DEF IInv

LEMMA IInvTone ==
  ASSUME IInv, NEW o \in Openers,
         (\E a \in ToneAddresses : OpenToneInput(o, a)) \/ ToneStep(o)
  PROVE  IInv'
<1>1. ToneInv'
  BY ToneOpen, ToneGet, TonePut, ToneLoad, ToneStore, ToneWrap DEF IInv, ToneStep
<1>2. UNCHANGED toneless
  BY DEF OpenToneInput, ToneStep, GetTone, PutTone, LoadTone, StoreTone, WrapTone
<1>3. UNCHANGED <<static, patches, hfp, map, last_zone_selected_to_play, devs, handle, controls>>
  BY <1>2 DEF toneless
<1>4. DOMAIN toning' \subseteq Opened
  <2>1. ASSUME NEW a \in ToneAddresses, OpenToneInput(o, a)
        PROVE  DOMAIN toning' \subseteq Opened
    BY <2>1 DEF OpenToneInput, Put, IInv, CallersInv, Free
  <2>2. CASE ToneStep(o)
    <3>1. DOMAIN toning' \subseteq DOMAIN toning
      BY <2>2 DEF ToneStep, GetTone, PutTone, LoadTone, StoreTone, WrapTone, Goes, Done, Remove
    <3> QED
      BY <3>1 DEF IInv, CallersInv
  <2> QED
    BY <2>1, <2>2
<1>5. CallersInv'
  BY <1>3, <1>4 DEF IInv, CallersInv, Opened, controls
<1> QED
  BY <1>1, <1>3, <1>5, Untouched DEF IInv

LEMMA IInvParameters == ASSUME IInv, SetParameters PROVE IInv'
<1>1. HfpInv'
  BY HfpSet DEF IInv
<1>2. ZoneInv'
  BY DEF IInv, ZoneInv, SetParameters
<1>3. UNCHANGED <<static, tones, patches, map, devs, handle, controls>>
  BY DEF SetParameters
<1> QED
  BY <1>1, <1>2, <1>3, Untouched DEF IInv

LEMMA IInvNext == IInv /\ [Next]_vars => IInv'
<1> SUFFICES ASSUME IInv, [Next]_vars PROVE IInv'
  OBVIOUS
<1>1. CASE \E o \in Openers : \/ AdevOpen(o) \/ AdevClose(o)
                              \/ CreateAudioPatch(o) \/ PatchReturn(o)
  BY <1>1, IInvOpen, IInvClose, IInvPatch
<1>2. CASE StreamStep
  BY <1>2, IInvStream
<1>3. CASE \E o \in Openers : (\E a \in ToneAddresses : OpenToneInput(o, a)) \/ ToneStep(o)
  BY <1>3, IInvTone
<1>4. CASE SetParameters
  BY <1>4, IInvParameters
<1>5. CASE UNCHANGED vars
  BY <1>5, Untouched DEF IInv, vars
<1> QED
  BY <1>1, <1>2, <1>3, <1>4, <1>5 DEF Next, StreamStep

LEMMA IInvAlways == Spec => []IInv
BY IInvInit, IInvNext, PTL DEF Spec

-----------------------------------------------------------------------------
(* The theorems.                                                           *)

\* Every variable of the audio device keeps its type.
THEOREM TypeCorrect == Spec => []TypeOK
<1>1. ASSUME IInv PROVE TypeOK
  <2>1. audio_device_ref_count \in 0 .. Cardinality(Openers)
    <3>1. Opened \in SUBSET Openers
      BY DEF Opened
    <3> QED
      BY <1>1, <3>1, OpenersFinite DEF IInv, DeviceInv
  <2>2. /\ adev \in Devs \cup {None} /\ device_handle \in Devs \cup {None}
        /\ devs \subseteq Devs /\ handle \in [Openers -> Devs \cup {None}]
    BY <1>1 DEF IInv, DeviceInv
  <2>3. /\ DOMAIN out_bus_stream_map \subseteq Addresses
        /\ \A a \in DOMAIN out_bus_stream_map : out_bus_stream_map[a] \in Blocks
        /\ streams \in [Blocks -> Streams \cup {None}]
        /\ wanted \in [Addresses -> Settings]
    BY <1>1 DEF IInv, MapInv, MapTypes, Mapped
  <2>4. control \in [address : Addresses \cup {None}, block : Blocks \cup {None},
                     is_muted : BOOLEAN, stale : BOOLEAN]
    BY <1>1 DEF IInv, MapInv, ControlTypes
  <2>5. /\ DOMAIN in_bus_tone_frequency_map \subseteq ToneAddresses
        /\ \A a \in DOMAIN in_bus_tone_frequency_map :
              in_bus_tone_frequency_map[a] \in 0 .. MaxTone
        /\ next_tone_frequency_to_assign \in 0 .. MaxTone /\ raced \in BOOLEAN
        /\ \A o \in DOMAIN toning :
              toning[o] \in [address : ToneAddresses, value : 0 .. MaxTone,
                            at : {"get", "put", "load", "store", "wrap"}]
    BY <1>1 DEF IInv, ToneInv, ToneTypes, Toned, Toning
  <2>6. /\ last_patch_id \in 0 .. MaxPatches /\ returned \in 0 .. MaxPatches
        /\ DOMAIN patching \subseteq Openers
        /\ \A o \in DOMAIN patching : patching[o] \in 0 .. MaxPatches
    BY <1>1, DeviceAssumption DEF IInv, PatchInv, Opened
  <2>7. hfp_running \in BOOLEAN /\ hfp_ctl \in BOOLEAN /\ orphaned \in BOOLEAN
    BY <1>1 DEF IInv, HfpInv
  <2>8. last_zone_selected_to_play \in Zones
    BY <1>1 DEF IInv, ZoneInv
  <2>9. /\ DOMAIN setting \subseteq Openers /\ DOMAIN toning \subseteq Openers
        /\ \A o \in DOMAIN setting :
              setting[o] \in [address : Addresses, block : Blocks, gain : Gains, stale : BOOLEAN]
    BY <1>1 DEF IInv, CallersInv, MapInv, SettingTypes, Opened
  <2> QED
    BY <2>1, <2>2, <2>3, <2>4, <2>5, <2>6, <2>7, <2>8, <2>9, Zenon DEF TypeOK
<1> QED
  BY <1>1, IInvAlways, PTL

\* Every opener's device is allocated, it is the same one for all, and the
\* static handle never points to a freed one (adev_open, adev_close).
THEOREM HandlesLiveAlways == Spec => []HandlesLive
<1>1. ASSUME IInv PROVE HandlesLive
  <2>1. DeviceInv
    BY <1>1 DEF IInv
  <2>2. CASE Opened = {}
    BY <2>1, <2>2, FS_EmptySet DEF DeviceInv, HandlesLive
  <2>3. CASE Opened # {}
    <3>1. devs = {adev} /\ Cardinality(devs) = 1
      BY <2>1, <2>3, FS_Singleton DEF DeviceInv
    <3>2. devs = {handle[o] : o \in Opened}
      BY <2>1, <2>3, <3>1 DEF DeviceInv
    <3> QED
      BY <2>1, <2>3, <3>1, <3>2 DEF DeviceInv, HandlesLive
  <2> QED
    BY <2>2, <2>3
<1> QED
  BY <1>1, IInvAlways, PTL

\* A stream has the settings last asked for its address, unless a mute or a
\* gain that a close overtook between the lookup and the lock fell on it
\* (set_device_address_is_muted, adev_set_audio_port_config).
THEOREM ControlReachesAddressAlways == Spec => []ControlReachesAddress
<1>1. IInv => ControlReachesAddress
  BY DEF IInv, MapInv
<1> QED
  BY <1>1, IInvAlways, PTL

\* No two addresses share a tone while there are tones for all, as long as
\* no two calls that assign one have overlapped
\* (create_or_fetch_tone_frequency, increase_next_tone_frequency).
THEOREM TonesDistinctAlways == Spec => []TonesDistinct
<1>1. IInv => TonesDistinct
  BY DEF IInv, ToneInv, Ordered, TonesDistinct, Toned
<1> QED
  BY <1>1, IInvAlways, PTL

\* hfp_running agrees with the mixer's control (hfp_set_enable).
THEOREM HfpAgreesAlways == Spec => []HfpAgrees
<1>1. IInv => HfpAgrees
  BY DEF IInv, HfpInv
<1> QED
  BY <1>1, IInvAlways, PTL

\* The handle that adev_create_audio_patch reads after the unlock is greater
\* than all that were returned before the call.
THEOREM PatchHandlesGrowAlways == Spec => PatchHandlesGrow
<1>1. ASSUME IInv, [Next]_vars, NEW o \in DOMAIN patching, o \notin DOMAIN patching'
      PROVE  returned' > patching[o]
  <2>1. PatchInv /\ DeviceInv
    BY <1>1 DEF IInv
  <2>2. PICK p \in Openers : PatchReturn(p)
    <3>1. ASSUME NEW p \in Openers, CreateAudioPatch(p) PROVE FALSE
      BY <1>1, <3>1 DEF CreateAudioPatch, Put
    <3>2. ASSUME UNCHANGED patching PROVE FALSE
      BY <1>1, <3>2
    <3> QED
      BY <1>1, <3>1, <3>2 DEF Next, AdevOpen, AdevClose, OpenOutput, SetAudioPortConfig,
         SetAmplitudeRatio, GetAudioDevice, CloseOutput, SetIsMuted, OpenToneInput, ToneStep,
         GetTone, PutTone, LoadTone, StoreTone, WrapTone, toneless, SetParameters, patches, vars
  <2>3. returned' = last_patch_id
    BY <2>2 DEF PatchReturn
  <2> QED
    BY <1>1, <2>1, <2>3 DEF PatchInv
<1>2. IInv /\ [Next]_vars =>
        [\A o \in DOMAIN patching : o \notin DOMAIN patching' => returned' > patching[o]]_vars
  BY <1>1
<1> QED
  BY <1>2, IInvAlways, PTL DEF Spec, PatchHandlesGrow

-----------------------------------------------------------------------------
(* refine_output_parameters and refine_input_parameters.                   *)

\* Tables of at most eight rates in order, as the two there are.
Table(rates, n) ==
  /\ n \in 1 .. 8 /\ Len(rates) = n /\ DOMAIN rates = 1 .. n
  /\ \A i \in 1 .. n : rates[i] \in Nat
  /\ \A i, j \in 1 .. n : i <= j => rates[i] <= rates[j]

LEMMA Tables == Table(OutputRates, 8) /\ Table(InputRates, 6)
<1>1. Table(OutputRates, 8)
  <2>1. \A i \in 1 .. 8 : i \in {1, 2, 3, 4, 5, 6, 7, 8}
    OBVIOUS
  <2> QED
    BY <2>1 DEF Table, OutputRates
<1>2. Table(InputRates, 6)
  <2>1. \A i \in 1 .. 6 : i \in {1, 2, 3, 4, 5, 6}
    OBVIOUS
  <2> QED
    BY <2>1 DEF Table, InputRates
<1> QED
  BY <1>1, <1>2

LEMMA LeastIndex ==
  ASSUME NEW S \in SUBSET (1 .. 8), S # {}
  PROVE  \E i \in S : \A j \in S : i <= j
<1>1. \A i \in S : i \in {1, 2, 3, 4, 5, 6, 7, 8}
  OBVIOUS
<1>2. CASE 1 \in S
  BY <1>1, <1>2
<1>3. CASE 1 \notin S /\ 2 \in S
  BY <1>1, <1>3
<1>4. CASE {1, 2} \cap S = {} /\ 3 \in S
  BY <1>1, <1>4
<1>5. CASE {1, 2, 3} \cap S = {} /\ 4 \in S
  BY <1>1, <1>5
<1>6. CASE {1, 2, 3, 4} \cap S = {} /\ 5 \in S
  BY <1>1, <1>6
<1>7. CASE {1, 2, 3, 4, 5} \cap S = {} /\ 6 \in S
  BY <1>1, <1>7
<1>8. CASE {1, 2, 3, 4, 5, 6} \cap S = {} /\ 7 \in S
  BY <1>1, <1>8
<1>9. CASE {1, 2, 3, 4, 5, 6, 7} \cap S = {}
  <2>1. \A i \in S : i = 8
    BY <1>1, <1>9
  <2>2. PICK i \in S : TRUE
    OBVIOUS
  <2>3. \A j \in S : i <= j
    BY <2>1, <2>2
  <2> QED
    BY <2>2, <2>3
<1> QED
  BY <1>2, <1>3, <1>4, <1>5, <1>6, <1>7, <1>8, <1>9

\* The rate chosen is in the table, and the next one up if there is one.
LEMMA RateChosen ==
  ASSUME NEW rates, NEW n, Table(rates, n), NEW rate \in Nat
  PROVE  /\ \E k \in 1 .. n : RefineRate(rates, rate) = rates[k]
         /\ \A i \in 1 .. n : rate <= rates[i] =>
              rate <= RefineRate(rates, rate) /\ RefineRate(rates, rate) <= rates[i]
<1> DEFINE above == {i \in DOMAIN rates : rate <= rates[i]}
<1>1. above \in SUBSET (1 .. 8) /\ above \in SUBSET (1 .. n)
  <2>1. DOMAIN rates = 1 .. n /\ n \in 1 .. 8
    BY DEF Table
  <2>2. 1 .. n \subseteq 1 .. 8
    BY <2>1
  <2> QED
    BY <2>1, <2>2
<1>2. CASE above = {}
  <2>1. RefineRate(rates, rate) = rates[n]
    BY <1>2 DEF RefineRate, Table
  <2> QED
    BY <1>2, <2>1 DEF Table
<1>3. CASE above # {}
  <2> DEFINE k == CHOOSE i \in above : \A j \in above : i <= j
  <2>1. k \in above /\ \A j \in above : k <= j
    BY <1>1, <1>3, LeastIndex
  <2>2. RefineRate(rates, rate) = rates[k]
    BY <1>3 DEF RefineRate
  <2> HIDE DEF k
  <2> QED
    BY <1>1, <2>1, <2>2 DEF Table
<1> QED
  BY <1>2, <1>3

\* A refined configuration is left as it is.
LEMMA RefineSettles ==
  ASSUME NEW rates, NEW n, Table(rates, n), NEW config \in Configs
  PROVE  /\ Accepted(Refine(rates, config), Refine(rates, Refine(rates, config)))
         /\ \A i \in DOMAIN rates : rates[i] >= config.sample_rate =>
              /\ rates[i] >= Refine(rates, config).sample_rate
              /\ Refine(rates, config).sample_rate >= config.sample_rate
<1> DEFINE rate == config.sample_rate
           chosen == RefineRate(rates, rate)
           count == IF config.channel_count \in {1, 2} THEN config.channel_count ELSE 2
<1>1. rate \in Nat
  BY DeviceAssumption DEF Configs
<1>2. PICK k \in 1 .. n : chosen = rates[k]
  BY <1>1, RateChosen
<1>3. \A i \in 1 .. n : rate <= rates[i] => rate <= chosen /\ chosen <= rates[i]
  BY <1>1, RateChosen
<1>4. chosen \in Nat
  BY <1>2 DEF Table
<1>5. RefineRate(rates, chosen) = chosen
  <2>1. \A i \in 1 .. n : chosen <= rates[i] =>
          chosen <= RefineRate(rates, chosen) /\ RefineRate(rates, chosen) <= rates[i]
    BY <1>4, RateChosen
  <2>2. PICK l \in 1 .. n : RefineRate(rates, chosen) = rates[l]
    BY <1>4, RateChosen
  <2> QED
    BY <1>2, <1>4, <2>1, <2>2 DEF Table
<1>6. Refine(rates, config) =
        [sample_rate |-> chosen, format |-> "PCM_16_BIT", channel_count |-> count]
  BY DEF Refine
<1> HIDE DEF chosen, count
<1>7. count \in {1, 2}
  BY DEF count
<1>8. Refine(rates, Refine(rates, config)) =
        [sample_rate |-> chosen, format |-> "PCM_16_BIT", channel_count |-> count]
  BY <1>5, <1>6, <1>7 DEF Refine
<1>9. Accepted(Refine(rates, config), Refine(rates, Refine(rates, config)))
  BY <1>6, <1>8 DEF Accepted
<1>10. Refine(rates, config).sample_rate = chosen
  BY <1>6
<1> QED
  BY <1>1, <1>3, <1>4, <1>9, <1>10 DEF Table

\* For every rate that may be asked for: parameters that were refined are
\* accepted when they come back, and are the next ones up.
THEOREM RefinedIsAcceptedAlways == Spec => []RefinedIsAccepted
<1>1. RefinementSettles
  BY Tables, RefineSettles DEF RefinementSettles, RefineOutputParameters,
     RefineInputParameters
<1>2. RefinedIsAccepted
  BY <1>1 DEF RefinedIsAccepted
<1> QED
  BY <1>2, PTL
==============================================================================
