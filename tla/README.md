# A TLA+ verification of the xenvm_trout device code

The repository is the Android device definition of a Xen guest. Most of it is
build files, policy and overlays; its own programs are a DHCP client, an audio
HAL, and a few set-up scripts. This project models the DHCP client, down to the
bytes it sends and the system it configures, and the audio HAL, checks them with
TLC on small instances and proves all of their safety properties with TLAPS for
every value of the constants.

## Inventory

| Component | State | Operations | Hard because | Correct when |
|---|---|---|---|---|
| DHCP client (`dhcp/client/dhcpclient.cpp`, `timer.cpp`) | `mState`, `mNextTimeout`, `mFuzzNextTimeout`, `mLastMsg`, server and address asked for, timers T1 and T2 | one evaluation of `run`'s switch; `waitAndReceive`: timeout, offer, ACK, NAK, anything else | lost, late and duplicated messages; retries; timers; failing configuration; restart | binds only to what it asked for; renews in time; every round ends; always comes back to a lease |
| DHCP messages (`dhcp/common/message.cpp`) | transaction counter | build, validate, find an option | lengths taken from the message | what was written is read back |
| Raw socket (`dhcp/common/socket.cpp`) | a file descriptor | send and receive UDP in raw frames, checksums | odd lengths, carries, byte order | a receiver can verify every frame |
| Interface, router (`interface.cpp`, `router.cpp`) | `IFF_UP`, address, MTU, routes (kernel), properties | up, down, set address, MTU, default gateway | every call can fail, the process can die between two | the system is as the lease says |
| Ring buffer (`audio_vbuffer.c`) | `data`, `head`, `tail`, `live` | `read`, `write`, `live`, `dead` | wrap-around; full looks like empty | a bounded FIFO queue |
| Output stream (`audio_hw.c`) | standby flags, position, buffer, worker thread | `out_write`, `out_standby`, open, close, position | two threads, two condition variables, sleeps without the lock | no lost wake-up, calls return, position never goes back |
| Shared PCM, mixer (`ext_pcm.c`) | `shared_ext_pcm`, reference count, pipelines, mixer thread | open, write, close, mix | the last close joins a thread while others open | exact count, no use after free, calls return |
| Input stream (`audio_hw.c`) | standby flags, position, buffer, worker thread | `in_read`, `in_standby`, routing, open, close, position | standby and routing from other threads while a read sleeps without the lock; an `assert` on clock arithmetic | the assertion holds, data is of the right device, calls return |
| Audio device (`audio_hw.c`) | reference count, static handle, stream map, tones, patch counter, zone | open, close, streams, gains, mutes, patches, parameters | several openers, AudioControl on a thread of its own, fields read outside the lock | nobody holds a freed device, settings reach their address |
| HFP (`audio_extn/hfp.c`) | `hfp_running` | start, stop | the mixer may refuse | flag agrees with the control |
| Ethernet set-up (`ethernet/`) | namespaces, links, rules (kernel) | two one-shot scripts, restarted by property triggers | restarted half-way | the same result however often it runs |
| Display scripts, GNSS replay, build, policy, overlays | - | - | - | not modelled |

Interactions: the DHCP client talks to servers over a raw socket and configures
the interface, the route and the properties by system calls. The framework opens
streams on the audio device, and AudioControl mutes them by their address. The framework's playback thread calls an output
stream, which passes frames through its ring buffer to its worker thread; the
workers of all streams write into the shared PCM, whose mixer thread writes to
the device. An input stream's worker captures into its ring buffer, and the
framework's capture thread reads from it at the pace of the clock.

## Modules

| Module | Models | Form |
|---|---|---|
| `DhcpClient` | DHCP client, its interface, the network and the servers | spec, properties |
| `DhcpClientProofs` | theorems about it | proofs |
| `Fifo` | what the ring buffer promises | abstract spec |
| `VBuffer` | `audio_vbuffer.c` | spec; refines `Fifo` |
| `VBufferProofs` | theorems about it, the refinement among them | proofs |
| `OutStream` | one output stream of `audio_hw.c`, client and worker | spec, properties |
| `OutStreamProofs` | theorems about it | proofs |
| `ExtPcm` | `ext_pcm.c`: the shared device and its mixer | spec, properties |
| `ExtPcmProofs` | theorems about it | proofs |
| `InStream` | one input stream of `audio_hw.c`, reader and worker | spec, properties |
| `InStreamProofs` | theorems about it | proofs |
| `AudioDevice` | the device of `audio_hw.c`, its maps, and `hfp.c` | spec, properties |
| `AudioDeviceProofs` | theorems about it | proofs |
| `DhcpMessage` | `message.cpp` and the option loop of `configureDhcp` | operators on bytes |
| `RawUdp` | frames and checksums of `socket.cpp` | operators on bytes |
| `NetConfig` | `configureDhcp` step by step on interface, route and properties | spec; uses the two above |
| `NetConfigProofs` | theorems about it and about the operators of the two above | proofs |
| `Recursion` | induction, and what a recursive function is | lemmas for the proofs |
| `MCDhcpClient`, `MCVBuffer`, `MCOutStream`, `MCExtPcm`, `MCInStream`, `MCAudioDevice`, `MCNetConfig` | instances for TLC | constants, symmetry |

Each specification also holds, next to a definition, altered forms of it marked
"Mutant": a plausible mistake in that piece of code. They are used only to see
that a property notices the mistake.

### DhcpClient

The variables named `m...` are the fields of `DhcpClient`. `pc` says whether the
client is about to evaluate `run`'s switch (`"step"`) or blocked in `ppoll`
(`"poll"`, with `poll` ticks left). `Evaluate` is one turn of the switch
including the start of `waitAndReceive`; `Timeout` and the five `Receive...`
actions are the ways `waitAndReceive` goes on. `Configure` is `configureDhcp`:
it arms the timers first and then takes the steps that may fail, in the order of
the code. `HaltNetwork` is `haltNetwork`.

Timers are kept as the ticks left, so no clock value grows. Time passes only in
`ppoll`. `net` is the set of messages in flight; it loses, reorders, delays and
duplicates. Servers are external: they answer with any address, confirm or
refuse only requests that name them or are broadcast. `Restart` is the death of
the process and its next start by init. `sends`, `lease` and `grantor` are
history variables.

Taken as given, from how the code uses them: `setAddress(0, 0)` removes the
address; nothing leaves an interface that is down; a message does not outlive
2^32 transactions of one process; servers that state T1 or T2 state both, in
order and before the end of the lease; messages are well formed (a lease time of
0 stands for every ACK whose options `configureDhcp` rejects). What is behind
the last two is the matter of `NetConfig`.

### NetConfig, with DhcpMessage and RawUdp

`DhcpClient` says when a message is sent and taken; `NetConfig` says what is in it
and what becomes of it, in any order of messages. A request is built by the
operators named after `message.cpp`'s functions, option by option, and wrapped by
`RawFrame`; a reply is a list of options, encoded the same way, perhaps cut off.
`Receive` runs `receiveRawUdp`'s and `isValidDhcpMessage`'s tests and reads the
options as `configureDhcp` does; then each of its calls is an action of its own,
which may fail, and the process may die before any of them. `told` keeps what the
reply was made from, so that properties compare the result with the intent and
not with the bytes. Of the fixed part of a message the fields the client tests or
uses are kept; a transaction identifier is one byte. The loops over words, options
and carries are recursive functions. A sum of 16-bit words is not bounded, since
`addChecksum` folds it before it could leave 32 bits. `numDns` is 4 in the code
and 2 in the run. `setDefaultGateway` returns true when its request could be sent and
does not read the kernel's answer. `KernelAddsRoute` is that answer, external: a request
with `NLM_F_CREATE` and without `NLM_F_REPLACE` (router.cpp:58) adds a route beside those
there are, or is refused, which `skipped` records. Taking the interface down removes its
routes.

### Fifo and VBuffer

`Fifo` is a bounded queue: a write moves a prefix of the caller's frames and
falls short only on a full queue, a read moves the oldest frames and falls short
only on an empty one. `VBuffer` has the fields of `audio_vbuffer_t`; a call takes
the lock, each turn of its loop is an action, and it returns when the loop ends.
The refinement maps the ring to the `live` frames from `tail` on.

### OutStream

Both threads work under `out->lock`, so an action is a critical section: from
the lock, or the return of `pthread_cond_wait` or `usleep`, to the unlock or the
next wait. `client` and `worker` are the two threads' control states, `clientWoken` and
`workerWoken` say that a wait has been signalled. Waits may return spuriously.
`elapsed` is the time since `underrun_time`, in frames; it stops counting one
beyond `MaxFrames`, where every position is past the frames written. Of the ring
buffer only the number of frames matters. Left out: `frames_rendered` and
`frames_total_buffered` (the second is never read), gain and ducking, zones
(a zone not selected skips the device write). `Failures` says which external
calls may fail, and the history variable `failed` that one has. With the present `ext_pcm.c`, `ext_pcm_write` never fails; the
worker's handling of a failure is modelled all the same.

### ExtPcm

One action per critical section of `ext_pcm_init_lock` and `mixer_lock`.
`ext_pcm_open` takes three: the set-up up to `pthread_create`, the rest of it, and
the return, which reads `shared_ext_pcm` after the unlock. Between the first two
the mixer thread already runs; if it comes to the pipeline map first it
dereferences a null pointer, which ends the process (`MixNullMap`). A worker
whose device is not ready ends without closing, as in `out_write_worker`. The
failure of `pthread_join` itself is left out.

### InStream

As in `OutStream` an action is a critical section. `in_read` has two, with a sleep
between them, and before them copies `mic_mute` under the device's lock
(`InReadBegin`); `in_standby`, `in_set_parameters`, `in_get_capture_position` and
`adev_set_mic_mute` may come from any thread in between, but the stream is not closed
under a read. `result` says what the caller finds in its buffer: frames of the ring
buffer, of the oscillator, or silence; `heard` whether the microphone was unmuted at
some time of the call.
Here time counts in microseconds (`US` to the second, more than the frames), since
`AssertAvailable` is about the two conversions, both of which round down. It holds
because `usleep` sleeps longer than it is asked to (`MinOversleep`, at least one
microsecond); with an exact sleep of a fraction of a frame the assertion would
fail. `MaxSince` ends the count where every frame is captured, `MaxPosition` bounds
the position over standbys. `device` stands for the three classes the code tells
apart: microphones, tone generators and the rest.

### AudioDevice

`devs` and `streams` are memory: a freed block may be allocated again, and a write
to it through an old pointer is lost or falls on its next owner. The AudioControl
thread looks a stream up in one action (`GetAudioDevice`) and writes its flag in the
next (`SetIsMuted`), and so does `adev_set_audio_port_config` with a gain
(`SetAudioPortConfig`, without any lock, and `SetAmplitudeRatio`); `stale` records a
close in between. `wanted` is what was last asked of an address since its stream was
opened. The open of a tone generator is a step per access to the tones
(`OpenToneInput`, `GetTone`, `PutTone`, `LoadTone`, `StoreTone`, `WrapTone`), since no
lock is taken; `raced` records that two such calls have overlapped. Openers follow the
rules of the HAL interface (one stream per address, the device is closed after its
streams, a caller makes one call at a time); what they do is otherwise in any order.
`refine_output_parameters` and `refine_input_parameters` are operators on a request.

## What is checked

| Run | Bounds | Shows |
|---|---|---|
| `dhcp_safety` | 2 servers, 2 addresses, 3 grants, 2 messages in flight, timeouts 1, 2, 4 | `LeaseMatchesRequest`, `RenewBeforeLeaseEnds`, `T1BeforeT2`, `BoundedRequests` hold |
| `dhcp_restart` | 1 server, 1 restart, leases of 1 and 3 seconds, NAKs, failing calls, only the client is fair | `PollsForOwnSend`, `NetworkUpWhileLeased` hold; `RoundEnds`: no server is needed for a round to end; `AlwaysBoundAgain`: a client that is served is bound again and again |
| `vbuffer` | 3 slots, 2 frame values, requests up to 5 | `RingConsistent`, `ImplementsFifo`, `CallsReturn` |
| `out_stream` | 2 periods of 2 frames, writes up to 6, 7 frames in a stream's life, any failure | `StandbyPositionExact`, `NoLostWakeup`, `PositionNeverBack`, `OutCallsReturn` |
| `ext_pcm` | 3 streams, 2 instances at a time, writes of 2 samples into pipelines of 1, failing open | `RefCountExact`, `NoUseAfterFree`, `WriterHasMixer`, `PcmCallsReturn` |
| `in_stream` | 2 frames to 3 microseconds, 2 periods of 2 frames, reads up to 3, 4 frames between standbys, any failure, every routing and muting | `AssertAvailable`, `NoLostWakeup`, `PositionNeverBack`, `ReadDecisionsHold`, `InCallsReturn` |
| `audio_device` | 2 openers, 2 device and 2 stream blocks, 2 addresses, 2 patches, the boundaries of the rate tables; 3 addresses of tone generators, 2 tones, no frequency stored beyond 3 | `HandlesLive`, `ControlReachesAddress`, `TonesDistinct`, `HfpAgrees`, `PatchHandlesGrow`, `RefinedIsAccepted` |
| `net_config` | 2 addresses, 2 gateways, 8 replies (orders, repetitions, wrong lengths, no lease, cut off, foreign, OFFER, NAK), every failure and crash | `SentMessagesArrive`, `ParsedAsSent`, `ConfiguredAsLeased`, `BroadcastOfSubnet` |

Why the bounds are enough. Two servers and two addresses are what it takes to
take one for the other; two messages in flight let an old answer meet a new
request; three identifiers let the counter wrap. Timeouts 1, 2, 4 have the first,
a doubled and the last value. Three slots give every relation of `head` and
`tail`, a request longer than the buffer gives short reads and writes. A write of
6 into 4 frames waits at least once; 7 frames allow a second write and an
underrun between. Three streams are an opener, a closer and a bystander. In
`in_stream` a frame is not a whole number of microseconds, and a read may be
shorter or longer than a period. Two blocks for two addresses let a freed stream
be replaced by that of the other address. Three tone addresses for two tones let the
tones run out. Frequencies are counted from 0; `MaxTone` cuts off only what overlapping
increases would store beyond it. No action reads both the tones and the rest of the
device, so `audio_device` explores opens of tone generators only while all the rest is
as it was in the beginning (`MCApart`); the theorems need no such restriction. The replies have messages of odd and
even length, and two leases in a row of which the second gives less than the first.

Disagreements between the code and what it says of itself. The first four have a run
that shows a counterexample; the last two are exceptions that a property makes, since the
statement it would otherwise be about is false in the model:

| Run | Statement | What happens |
|---|---|---|
| `dhcp_halted` | "Request denied, halt network and start over" (dhcpclient.cpp:271) | the interface is down and no DISCOVER leaves it again |
| `dhcp_renewing` | "eventually it will allow for a full timeout which will lead to a move to the Init state" (dhcpclient.cpp:266) | each ACK that cannot be configured arms T2 anew; the client renews for ever |
| `dhcp_reborn` | "Only look for message with a matching transaction ID" (message.cpp:160) | a restarted client counts from 1 again and accepts its predecessor's ACK |
| `out_close` | "targets where output streams are closed regularly" (audio_hw.c:1244) | the worker waiting for data never sees `worker_exit`; the join never returns |
| (none) | "If another default route exists it will be removed and replaced by the new one" (router.h:34) | the request (router.cpp:58) does not ask for it: after a second lease with another gateway `routes` has both; `ConfiguredAsLeased` claims only that the gateway is among them |
| (none) | "int next_tone_frequency_to_assign; // Protected by this->lock" (audio_hw.h:37) | no lock is taken (audio_hw.c:1496): two overlapping opens read the same next tone and map two addresses to it; `TonesDistinct` excepts that by `raced` |

In the passing runs the conditions that lead to these are excluded by a constant
(`MaxRestarts` is 0 in `dhcp_safety`, which has NAKs and failures) or by the property
itself (`AlwaysBoundAgain` and `~ifUp`, the close in `OutCallsReturn`, `raced` in
`TonesDistinct`; `ConfiguredAsLeased` asks only that the gateway is among the routes).

Boundaries that a property or an assumption names, without a run of their own:

- `leaseTime * 7` overflows for leases beyond 2^32 / 7 seconds, the infinite lease
  among them, and T2 may precede T1 (dhcpclient.cpp:406): `T1BeforeT2Always`
  assumes that it does not.
- After a failed open nobody drains the output buffer, and a write that does not
  fit waits for ever, although the code "just consumes bytes if we start getting
  backed up" (audio_hw.c:603): `OutCallsReturn` excepts it.
- A mute or a gain whose stream was looked up before a close may be written after
  it, even to another stream (audio_hw.c:173, 1522): `ControlReachesAddress` excepts
  that stream.
- A microphone muted after a read has copied `mic_mute` (audio_hw.c:1057) is still
  heard in that read, and frames captured before a standby, a routing or a mute stay
  in the buffer (audio_hw.c:922) and are returned by a later read:
  `ReadDecisionsHold` is about what a read decides, not about when a frame was
  captured.
- The kernel may refuse a default route, and `configureDhcp` returns true all the
  same (router.cpp:70): `ConfiguredAsLeased` excepts it.
- Two overlapping `adev_create_audio_patch` may return the same handle
  (audio_hw.c:1570): `PatchHandlesGrow` is about calls that follow one another.
- A device closed during a hands-free call leaves the mixer's control on, and the
  next device ignores the stop (hfp.c:111): `HfpAgrees` excepts it.
- The MTU of a lease outlives it when the next lease gives none
  (dhcpclient.cpp:414), and a renewal that fails half-way leaves new properties
  with the old address: `ConfiguredAsLeased` is about calls that return true.

### Fairness

- DHCP client: weak fairness of `Evaluate`, `Timeout` and `Tick`. The process
  blocks only in `ppoll`, with a finite timeout, and time passes. `RoundEnds`
  needs no more. `AlwaysBoundAgain` has as its premise (`Served`) that a client
  which keeps sending keeps being offered and granted leases it can configure
  (strong fairness of the server's answers and their delivery): no client can do
  without. The premise leaves losses, NAKs and failures possible in between.
- Ring buffer: a call in progress goes on.
- Output stream: weak fairness of the worker, of a call that has been signalled
  or whose sleep is over, and of time. The framework need not call again, and
  no spurious wake-up is assumed.
- Input stream: weak fairness of the worker (`pcm_read` returns), of a read whose
  sleep is over, of the join and of time. Nobody need read again, and no spurious
  wake-up is assumed.
- Shared PCM: weak fairness of each thread; strong fairness of taking
  `ext_pcm_init_lock`, which other threads take in between.

## What is proved

`DhcpClientProofs`, from the named assumptions on the constants in `DhcpClient`:

- `TypeCorrect`: `Spec => []TypeOK`.
- `PollsForOwnSendAlways`, `NetworkUpWhileLeasedAlways`,
  `RenewBeforeLeaseEndsAlways`: restarts, losses, failures and NAKs included.
- `LeaseMatchesRequestAlways`: for a client that is not restarted
  (`dhcp_reborn` shows why that is needed).
- `T1BeforeT2Always`: for leases with `7 * lease < UintMod`.
- `BoundedRequestsAlways`: for all timeouts. `RoundInv` ties the number of requests of a
  round to the timeout it has come to: it is at least the first one doubled once for
  each request after the first, or has reached `kMaxTimeout`, and it was below that
  before the last request. So these doublings are all below `kMaxTimeout`, and there are
  no more of them than `MaxSends` counts.

The inductive invariant `IInv` is the conjunction of `TypeInv` (types, and a
client past Selecting has an address and a server), `PollInv` (what a client in
`ppoll` has sent), `LeaseInv` (in Bound the poll ends no later than T1, and T1 no
later than the lease), `NetworkUpWhileLeased`, and `NetInv` (every answer in
flight belongs to a request with its identifier: an ACK whose identifier is that
of `mLastMsg` carries its address and comes from a server it names). Without
`PollInv` an answer could be taken in a state that did not ask; without `NetInv`
nothing ties the content of an ACK to the request.

`VBufferProofs`, for every buffer size, set of frames and request size:

- `TypeCorrect`, `RingConsistentAlways`. The invariant is the conjunction of
  the two: `head = (tail + live) % frame_count` with `live` in `0 .. frame_count`.
- `Refinement`: `Spec => ImplementsFifo`. Each chunk is a step of the abstract queue:
  lemmas on modular positions show that the slots written lie behind the queue
  and the slots read are its first.

`OutStreamProofs`, for every buffer, bound and choice of failing calls:

- `TypeCorrect`, `StandbyPositionExactAlways`, `NoLostWakeupAlways`. The invariant
  adds to the properties what the two threads know of each other: a write in
  progress fits into what is left of the bound and the stream is not in standby,
  the exit flag is set only by a close, and a worker ends only for that flag or
  after a failed call. Without the last two a writer could wait for a worker that
  has gone for no reason the model knows of.
- `PositionNeverBackAlways`, from the invariant and two lemmas: what is reported
  grows with the time elapsed, and storing it in `underrun_position` keeps it.

`InStreamProofs`, for every rate up to `US` frames a second and every oversleep of
at least one microsecond:

- `TypeCorrect`, `NoLostWakeupAlways`, `PositionNeverBackAlways`.
- `ReadDecisionsHoldAlways`, from what a sleeping read knows: unless the stream is in
  standby its device is of the class the read decided on, since routing to another
  device needs standby, and a read of a microphone that is not to be muted was heard
  when it began (`ReadDevice`, `ReadMute`).
- `AssertAvailableAlways`, the assertion of `in_read`. It is not inductive: the frames
  are counted after the sleep and justified before it. `ReadCounted` carries the
  reason across: `(standby_frames_read + frames) * US <= Wakes * rate`, the frames to
  be counted will have been captured when the sleep is over, unless the stream is
  put in standby meanwhile. `SleepCovers` establishes it: a position rounded down
  only makes the read lack more, a sleep rounded down is short by less than the one
  microsecond it sleeps too long, and a read that lacks a frame does sleep, since a
  frame takes at least a microsecond (`US >= rate`).

`ExtPcmProofs`, for any finite set of streams and any set of instances, with a `NULL`
that is neither a stream, an instance nor a pipeline map:

- `TypeCorrect`, `RefCountExactAlways`, `NoUseAfterFreeAlways`,
  `WriterHasMixerAlways`. The invariant says more than the properties about who
  may hold what: only the shared instance is referenced, and its count is the number
  of streams between their open and their close (`CountExact`); what a stream was
  given is the shared instance still (`HandlesShared`), so that the read of
  `shared_ext_pcm` after the unlock returns what was counted; the creator holds the
  lock while nobody else has a reference (`LockHeld`); and streams in a last close
  free different instances, none of them shared (`Joins`). Without `Joins` one close
  could free what the next one still joins.

`AudioDeviceProofs`, for any finite set of openers and any sets of blocks and
addresses. No action touches all of the device, so the invariant has a part per
group of fields, and each part lemmas of its own:

- `HandlesLiveAlways` from `DeviceInv`.
- `ControlReachesAddressAlways` from `MapInv`: the map and the blocks agree in both
  directions (a mapped block is a stream of that address, an open stream is mapped),
  closing the device leaves no stream, and a mute or a gain in progress that no close
  has overtaken holds the block of its address (`ControlHolds`, `SettingHolds`).
- `TonesDistinctAlways` from `ToneInv`, access by access: while no calls have
  overlapped, there is at most one, which finds unchanged what it has read (`Alone`);
  and as long as tones are left they are given in order, counting an increase in
  progress as done (`Ordered`, `Upcoming`), so the next is greater than all before it.
- `PatchHandlesGrowAlways` from `PatchInv`: the counter is beyond what it was at the
  start of every call that is yet to return.
- `HfpAgreesAlways` from `HfpInv`: a control that is on without a device is one that a
  close left behind.
- `RefinedIsAcceptedAlways`, for every requested rate: the rate put in the place of a
  refused one is the first of its table that is no smaller, since the tables are sorted,
  or the last one.
- `TypeCorrect` from the parts together.

`NetConfigProofs`, for every set of replies with any lists of options, any addresses,
any number of DNS servers, and replies cut anywhere. `NetConfigAssumption` says that
addresses are four bytes and that an option has a code other than `OPT_END` and a length
that fits its byte:

- `SentMessagesArriveAlways`. The invariant `WireInv` says what can be on the wire: the
  frame of a request, of a reply, or one that `isValidFrame` refuses. That a frame
  verifies is arithmetic modulo 65535: folding the carries keeps the sum
  (`FoldCarriesValue`), `addChecksum` adds what the bytes weigh, an odd last byte
  included (`AddChecksumValue`), the sum of pieces of whole words is that of the frame
  (`ConcatSum`), the order of bytes only multiplies it by 256 (`SwappedSum`), and the
  complement makes it zero (`SumsEnd`). That a server reads back what was meant follows
  from where the options lie (`DiscoverReads`, `RequestReads`).
- `ParsedAsSentAlways`. The options of a reply lie one after the other (`Laid`); the loop
  of `configureDhcp` visits just their offsets (`LaidOffsets`), so that the last option of
  a right length counts in the bytes as it does in the list (`GivenRead`).
- `BroadcastOfSubnetAlways`, for servers that give netmasks (`NetmaskAssumption`: ones and
  then zeros; with other masks the prefix length means nothing). `SubnetInv` says that the
  lease in hand has a netmask and the interface describes one subnet. The hard case is a
  reply that was cut within the netmask: what `configureDhcp` reads behind the end is
  zero, and a netmask that ends in zero bytes is a netmask (`CutMask`). `popcount` of a
  netmask is its prefix byte by byte (`OnesOfByte`).
- `ConfiguredAsLeasedAlways`. The invariant says, for each step of `configureDhcp`, what
  the steps before it have established, and that nothing later disturbs it. It uses
  nothing of what the messages hold: it is the order of the calls that the theorem is
  about, after any failure or crash before.

What the recursive functions compute is proved by induction with the lemmas of
`Recursion`. The induction theorems of the library take a predicate, which the provers
cannot instantiate, but a set of numbers will do: `LeastNumber` (from the library's
well-founded order on `Nat`) gives `SetInduction`, `StrongInduction` and
`BoundedInduction`, each about a set that is shown to be all of `Nat` or of `0 .. n`.
`RankedRecursion` shows that a recursion whose argument comes down in some rank has a
solution, without which `CHOOSE`, the meaning of a recursive function, says nothing.

Only model-checked: the liveness properties (`RoundEnds`, `AlwaysBoundAgain`,
`CallsReturn`, `OutCallsReturn`, `InCallsReturn`, `PcmCallsReturn`). Liveness under
fairness is out of the prover's reach.

## What is not modelled

- The Ethernet set-up: two scripts of `ip` and `iptables` commands whose effect is
  kernel state; the repository says nothing of it that could be checked.
- What else the kernel does with routes: it only adds, refuses, and forgets those of an
  interface that goes down.
- `sendOnInterface`, `receiveFromInterface`, `bindIp`, `enableOption` of the socket,
  which nothing here calls; command-line parsing; the wording of errors.
- Samples: gain, ducking, tones, stereo to mono; `out_set_parameters` and the query
  calls, which change nothing that is used.
- A torn read of the stream map or of the tones' map while another thread changes it
  (audio_hw.c:1294, 1421): a map operation is one step.
- The key of a mixer pipeline: ext_pcm.c:115 stores the pointer `out->bus_address`,
  which audio_hw.c:1295 frees when the stream is closed, while the shared instance
  may live on with the dangling key.
- Standby of an output stream from a second thread during `out_write`: the
  framework calls both from its playback thread.
- Display scripts, GNSS replay, build and policy files.

## Plan

1. Done: all modules above; proofs of every safety property and of the refinement.
2. Left: standby from a second thread beside a write in `OutStream`
   (audio_hw.c:667); the address an interface keeps after its lease has ended and the
   server a renewal names after a rebind (dhcpclient.cpp:174, 161), once it is settled
   what they should be.
