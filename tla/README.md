# GStreamer EEVideo: a TLA+ model of the streaming stack

This directory specifies the program in `../src`: a Rust workspace that
streams uncompressed video over UDP with the leader, payload and trailer
packets of the *EEVideo Stream Compatibility Profile*, and controls the
streaming devices through registers that are read and written with CoAP
messages. The modules are checked with TLC on small instances; the
`...Proofs` modules prove, with TLAPS and for every instance, each safety
property that a run checks. `PROJECT.json` maps every definition to the lines
it models.

Contents: [components](#1-components), [modules](#2-modules),
[runs](#3-runs), [bounds](#4-bounds-and-what-passes-rest-on),
[fairness](#5-fairness), [divergences](#6-divergences), [proofs](#7-proofs),
[not modelled](#8-what-is-not-modelled), [plan](#9-plan).

## 1. Components

Paths are relative to `src/crates`.

| component | state it keeps | operations | hard behaviours | what makes it correct |
|---|---|---|---|---|
| frame assembler, `eevideo-proto/src/assembler.rs` | a map of partial frames (next packet id, image, out-of-order buffer, trailer, last update), `StreamStats` | `ingest_view` (leader, payload, trailer), `reap_timeouts` | lost, repeated and reordered packets; each handler takes the frame out of the map and puts it back on some paths | emitted frames are the sent ones; every opened frame is emitted, dropped and counted, or live; bounded memory |
| packetizer and codec, `compat_stream.rs`, `compat_profile.rs` | none between frames | `emit_packets`, `parse`, `to_bytes` | last short chunk, packet numbering | with the assembler: an unreliable network yields whole frames or none, unless an id was used twice |
| `eevideosink`, `gst-plugin-eevideo/src/eevideosink/imp.rs` | socket, next frame id, negotiated caps, flush flag, statistics | `start`, `stop`, `unlock`, `unlock_stop`, `set_caps`, `render` | frame ids restart with the element; a send that fails half-way leaves its id to the next frame | two frames are mixed only if an id was reused, and never in an ordered lossless network |
| `eevideosrc`, `eevideosrc/imp.rs` | receiver thread with socket, assembler, current format; bounded channel (8); negotiated caps; stop and flush flags; control session | `start`, `stop`, `unlock`, `unlock_stop`, `create`, receiver loop | two threads and the application; full channel; thread that ends by itself; flush and restart; reaping by time; a start that fails half-way | order, frame accounting, one format per run, `create`/`stop` return; no device left streaming silently |
| device runtime, `eevideo-device/src/lib.rs` | registers under a mutex with condition variable; `active_capture`, `active_mtu` caches; stop flag | control loop, sender loop, `spawn`, `shutdown` | two loops and the owner; settings that change in mid-frame; cached capture; notification without the mutex; captures and sends that fail | caches agree with settings, a disabled stream stops, capture released unless its start or stop failed, shutdown returns, settings take effect |
| capture backends, `eedeviced/src/providers/` | the running pipeline, its format, a pending sample | `start_capture`, `stop_capture`, `next_frame` | a start that fails after the pipeline plays; a camera that renegotiates | frames are of the announced format; nothing captures after the end, but for a pipeline whose start or stop failed |
| `eedeviced`, `eefakedev` | configuration, Ctrl+C flag | command line, spawn, poll, shutdown | Ctrl+C against the threads of the runtime | Ctrl+C ends the daemon |
| control session, `eevideo-control/src/lib.rs` | `requested`, `applied`, `running`, description; a connection or none | `describe`, `configure`, `start`, `stop`, `disconnect` | calls that fail half-way; early returns that trust earlier state | session, connection and device agree on what runs |
| CoAP register connection, `backend.rs`, `register.rs`, `register_map.rs` | configured profile, running flag; next message id | `configure`, `start`, `stop`; `RegisterClient::execute` with retries | lost and late answers, repeated writes, fixed local port | a call that returns Ok has done what it says; every call returns |
| register fields, `register_map.rs`, `controller.rs`, `eevid` | none between calls | write a word, write fields: read, merge, write, read back | two controllers on one register, accesses that fail | fields are whole; an update is lost only in a race |
| discovery, `discovery.rs` | responses so far, interface, deadline | `discover_devices` | repeated and late answers, foreign datagrams, silence | every device once per interface |
| description cache, `backend.rs`, `yaml.rs` | YAML files | look up, introspect, persist | truncating writes of several processes, crashes, devices that change | a client uses a whole description of its device |
| `eeview` | pipeline, target, result | resolve, describe, play, Ctrl+C, finalize | Eos, errors and Ctrl+C in any order; a recording that must be completed | right device; success means complete; Ctrl+C ends it |
| `eevid` | none | one command per process | shares registers and files with the others | see register fields, description cache |
| pixel formats, CoAP codec, GStreamer glue | none | tables, encoding, registration | - | unit tests |

How they interact:

```
 eevid / eeview / eevideosrc                eedeviced / eefakedev (main thread)
   discovery, description files                spawn, shutdown
   ControlSession                              control loop ----+
     CoapRegisterConnection --CoAP/UDP------->  registers (mutex, condvar)
       RegisterClient       <--------------        |
                                               sender loop --> capture backend
 eevideosrc receiver thread <--stream/UDP----  packetizer  (also eevideosink)
   FrameAssembler
     | bounded channel
   create() --> GStreamer pipeline (eeview: display, recording)
```

* register accesses of a session reach the device's control loop, which wakes
  the sender loop through the condition variable;
* the sender loop and `eevideosink` emit packets with the same packetizer; the
  assembler in the receiver thread of `eevideosrc` takes them;
* completed frames and errors pass through a bounded channel to the streaming
  thread;
* clients are processes: they share the device's registers and the description
  files, and nothing else.

The hazards of the code, each at its line and with the properties that watch
it, are the list `hazards` of `PROJECT.json`.

## 2. Modules

```
 FrameAssembler <-- CompatStream --> FrameDelivery (abstract)
                        |
                    EeVideoSink                 EeVideoSrc
 CaptureBackends <-- DeviceRuntime <-- DeviceDaemon
 ManagedControl  <-- ManagedSource              RegisterFields
 Discovery <-- DeviceDescription <-- Viewer
```

**`FrameAssembler`** (`assembler.rs`, `stats.rs`). `frames` is the map of
partial frames, `stats` the counters, `output` what the last call returned.
One action per handler: `IngestLeader`, `IngestPayload`, `IngestTrailer`,
`ReapTimeouts`; `Tick` is the passing of time. A handler's disjuncts are its
early returns, and the ways it can end are operators: `Ignore` (put back,
anomaly), `Discard` (not put back, drop), `Keep`, `Deliver`. `Reconcile` is
`reconcile_frame` with `flush_pending_payloads` and `progress_frame`: the loop
that moves the gap-free run is one step, `Flushed`, whose end `RunEnd` is the
first gap; at the largest packet id `checked_add` fails and the frame is
dropped. Payload bytes are contents with a size, so a buffer is a function
from packet ids to contents and the image is their sequence. `wire`, `led` and
`orphans` are history: what the packets said, independently of what the
assembler did with them.

**`EeVideoSink`** (`eevideosink/imp.rs`, `emit_packets`). The element from
`SinkStart` to `SinkStop`, with flushes, caps and `render`: `Render` begins a
frame, `SendPacket` sends one packet of it, `SendFails` ends it early without
advancing `next_frame_id`. `sent` is the history of what was sent under which
id. **`CompatStream`** composes it with a network and `FrameAssembler` as the
receiver. What the network and the sink's surroundings may do is `abilities`,
chosen initially: reorder, let packets overtake their leader, lose, repeat,
let time pass, or keep the order; make sends fail and the sink restart.
**`FrameDelivery`** is what this promises without packets: whole sent frames,
late, in any order or not at all, more than once only if the network repeats;
and, as the one exception, a frame mixed of several (`DeliverMixed`), only
after an id was given to two frames and only in a network that does not merely
keep the order and lose nothing. `ImplementsDelivery` is the refinement, with
`once <- "repeats" \notin abilities`, `whole <- {c : Whole(c)}`,
`reused <-` two buffers share an id, and `mixed <- foreign`: every emitted
frame is either counted in `deliveries` or `mixed`, none is left out.

**`EeVideoSrc`** (`eevideosrc/imp.rs`). Three actors: the application
(`Start`, `Unlock`, `UnlockStop`, `StopBegin`, `StopEnd`), which calls as
`GstBaseSrc` does, the receiver thread (`Top`, the `Recv...` actions,
`RecvTimeout`, `Reap`) and the streaming thread in `create()` (`Enter`,
`CheckUnlocked`, `Take...`, `WaitTimeout`, `Disconnected`). A partial frame is
its format and its age, in two versions: the age the code computes from the
instant it read before `recv_from` blocked (`idle`), and the true one
(`silent`). Any packet may keep, complete or spoil its frame, which covers
everything `FrameAssembler` can do with it. `account` is the history of what
became of each frame.

**`CaptureBackends`** (`providers/mod.rs`, `providers/gstreamer.rs`, and the
synthetic backend of `eevideo-device`). `camera` is the backend's state: the
format it captures and a pending sample. A start may be invalid, refused, or
fail after the pipeline was set to play; such a pipeline is dropped without
`set_state(Null)` and is `abandoned`, and an Argus or V4L2 camera then stays
busy. **`DeviceRuntime`** (`eevideo-device/src/lib.rs`): control loop
(`ControlTop`, `ControlIdle`, `ControlReports`, `ControlError`,
`WriteMaxPacket`, `WriteStream`), sender loop (`SenderBind` to `Finish`) and
owner (`SpawnRefused`, `SpawnControl`, `SpawnSender`, `Shutdown...`). The
mutex is held between `WaitTest` and `WaitSettings` (`sender = "hold"`), so
register writes wait; setting the stop flag and notifying do not take it and
may fall in between, which is why the wait must have a timeout.
**`DeviceDaemon`** (`eedeviced`, `eefakedev`) is the main thread around it:
the command line and its refusals, spawning, the Ctrl+C handler, the poll and
the shutdown.

**`ManagedControl`** (`eevideo-control`: `lib.rs`, `backend.rs`,
`register.rs`, `register_map.rs`; `handle_register_request` of the device).
The calls of `ControlSession` take their early returns or set up a `script` of
register accesses; `Send`, `Resend`, `GiveUp` and `Receive` are
`RegisterClient::execute`; `CallDone` applies the result to session and
connection. `Serve` is the device, `Lose` the network. `configure` writes
port, address and packet size, each followed by a read back, and reads the
format; `start` and `stop` write the enable bit of the packet-size register,
`stop` after reading it. `seen`, `writes`, `tainted`, `abandoned`
are history. **`ManagedSource`** says who calls: a user that makes any calls,
or `eevideosrc`, whose `start()` describes, configures and starts with a new
session and drops it on the first error, and whose `stop()` stops and
disconnects whatever fails.

**`RegisterFields`** (`register_map.rs`, `controller.rs`, `eevid`). Several
controllers write words and fields of one register; a word is the set of its
bits. `Begin` is a command with its refusals, `Read`, `Write` and `Check` its
accesses, each one request; `AccessFails` is a request without an answer,
served or not.

**`Discovery`** (`discovery.rs`): one request per interface, answers, silence,
errors. **`DeviceDescription`** (`backend.rs`, `yaml.rs`): each client's way to
a description, from a file (`Look`) or from the device (`Introspect`,
`Introspected`), and the file it writes, in two steps because `fs::write`
truncates first (`Persist`, `Written`); a client may die between them
(`CutShort`), two may write at once. What fails before anything is written
leaves the old file (`LookFails`, `IntrospectFails`, `PersistFails`). **`Viewer`** (`eeview`): `run()` from the
target to the exit status over both of them, with another client beside it;
the pipeline is external and may fail, post messages or end at any time.

**`MC...`** modules extend the module they name and define constants a cfg
file cannot write. Operators marked *Mutant* are faulty variants of the
definition that follows them; each names a slip that one of the properties
must catch.

**`...Proofs`** modules hold the theorems of the module they name and the
lemmas these rest on; see [proofs](#7-proofs). `NatFacts` has what several of
them need of natural numbers: least elements, induction, finite intervals, and
that a running sum, which is a recursive function, exists.

```
 NatFacts <-- FrameAssemblerProofs <-- CompatStreamProofs (INSTANCE)
    ^
    +-- EeVideoSrcProofs
 DeviceRuntimeProofs   ManagedControlProofs   RegisterFieldsProofs
 ViewerProofs
```

## 3. Runs

| run | what it shows |
|---|---|
| `MCFrameAssembler` | Whatever packets come, in whatever order: what is emitted is what was received, in order and in full; a kept frame holds exactly what arrived, within its length, and could not go on; every opened frame is emitted, dropped and counted, or live; an unfinished frame goes away. |
| `MCCompatStream` | Sink and assembler together deliver whole frames that were sent, and a mixed one only after an id was used twice and in a network that does not merely keep the order (refinement of `FrameDelivery`, in which every emitted frame counts). Two frames get one id only by a restart or a failed send. Reordering alone loses nothing and counts nothing; in an ordered lossless network reused ids do no harm. |
| `MCEeVideoSrc` | Order, frame accounting, one format per run, errors last, reaping in time, with a channel that is full and refuses completed frames, flush and restart; `create()` notices the end of the thread, `unlock()` and `stop()` return, unfinished frames are reaped. |
| `MCDeviceRuntime` | A daemon from command line to exit with any provider: the cached capture, packetizer and sample agree with the settings of the frame; a disabled stream stops within a frame; a sender loop that has ended leaves nothing capturing, except that a camera pipeline whose start or stop failed plays on (at most that, and never the synthetic backend); Ctrl+C ends the daemon; settings take effect; an enabled stream keeps sending after failures. |
| `MCManagedControl` | Over lost and late messages, failed calls and reconnects: session, connection and device agree; a write taken as done was done; every call returns. A stopped source element leaves its device streaming only after it has reported an error, and an enabled device has a destination somebody asked for. |
| `MCRegisterFields` | An update is lost only if a controller wrote back a word that had been written since it read it; a field is never a mixture; a reported mismatch means another controller. |
| `MCViewer` | The viewer plays from the device it was given or from the only one it heard, by a whole description of it, except in the three cases the files allow: one file serves several devices, the text was read during or after a write that was cut short or overlapped, or the device changed its layout; success means that the stream ended without an error or that the 5 s passed; Ctrl+C ends it. |
| `MCTrailerBoundary`, `MCSrcForeign`, `MCSrcLostError`, `MCControlReconnect` | See [divergences](#6-divergences). |

## 4. Bounds, and what passes rest on

| run | bounds | why they suffice |
|---|---|---|
| `MCFrameAssembler` | one frame id, 7 packets, packet ids 0..4, contents of 0, 1 and 2 bytes, lengths 0 (rejected) and 3, timeout 1 tick | frames of different ids share only the counters; seven packets are a leader, two payloads, a trailer and three that repeat, replace or contradict them; ids up to 4 leave room for a gap, for a payload beyond the trailer and for the largest id |
| `MCCompatStream` | 2 buffers, of formats with two payload packets (the last short) and one, 2 starts, 2 repeats, 10 packets ingested, 6 kinds of network | two frames are needed for packets of one to meet the other; one restart or one failed send for an id to be used twice |
| `MCEeVideoSrc` | 2 formats, 1 frame id, with and without managed control, channel of 2 (8 in the code), 6 packets, 2 starts | a completed frame takes two packets, so that three are completed and the third finds a channel of two full; a restart is what lets something of one run leak into the next |
| `MCDeviceRuntime` | 3 register writes, 2 failures, 2 packets per frame, packet sizes on both sides of the minimum, formats that are native, capturable, only known, unknown; four providers; fixed format or not | three writes direct a stream, enable it, and change or disable it; two failures are a capture that fails and a restart that fails; two packets make a frame that can be interrupted |
| `MCManagedControl` | 2 configurations that differ in every register; a prompt network with 2 losses and 3 calls, one that delays by an exchange with 1 loss and 2 calls; 2 attempts (3 in the code), 2 starts of the element | two losses are all attempts of one exchange; three calls configure, fail and start again; a start of the element is not counted in the calls |
| `MCRegisterFields` | 4 bits, a flag above a number and one bit of no field, 2 controllers, 4 commands, acceptable and not | a lost update takes two commands, its discovery a third |
| `MCViewer` | 2 interfaces, 2 devices, 1 repeated answer, 2 clients, 2 layouts per device, 1 crash, 2 messages besides the end of the stream | two of each are what the questions are about |

What passes rest on.

* A whole frame can be delivered a second time only if all its packets are
  repeated, three at least, more than `MaxCopies`: the run checks repeats
  within a frame and across its end, not redelivery, which `FrameDelivery`
  allows.
* `GapsTimeOut` says what happens once packets stop, because each further
  packet renews the frame; `GapsReaped` once datagrams that do not parse stop.
* `ReorderingIsFree` needs each frame's leader to come before its other
  packets: a payload before its leader is a drop by design.
* `ViewIsCurrent`, `NoSilentRunaway` and `DestinationWhole` hold in a network
  that does not deliver a request after its exchange has ended: the device
  does not recognise repeats and applies a late copy of an old write.
  `ViewIsCurrent` ends with the first call that fails.
* `KeepsStreaming` excludes a pipeline that was abandoned while it played.
* `RightDevice` is about the answers that were heard: 200 ms of silence end
  the search, and a slower second device is not known to the viewer. It allows
  what the files allow: another device's description when the root is one file
  for all, a text cut off when it was read during a write or after one that
  was cut short or overlapped, a mixture once the device changed its layout.
  It shows that there is no fourth way to a wrong description.
* `CaptureReleased` allows a pipeline that was dropped while it played
  (`PipelineAbandoned`, a `StopCapture` that fails): such a camera captures on
  after `shutdown()`, as the code leaves it. It shows that this takes a failure
  and a camera, and that the backend itself holds nothing.
* `OneFormat` speaks of the channel of one run: a start makes a new one.
* `StopsWithinAFrame` counts from the write that disables the stream.
* No frame has more packets than packet ids (`PacketIdsAssumption`):
  `emit_packets` counts with `wrapping_add` in a `u32`, so a frame would have
  to have some 2^32 packets for an id to be used twice within it.

Runs do not look for deadlocks: all of these systems may stop, at a bound, in
the stopped element, or after shutdown. That nobody waits for ever is what the
liveness properties say.

## 5. Fairness

* `FrameAssembler`: time passes, and the receiver thread reaps after every
  packet and every read timeout.
* `EeVideoSrc`: the receiver thread, the streaming thread and time go on, and
  `join` returns when the thread has ended; nothing is assumed of the network
  or the application.
* `DeviceDaemon`: the control loop runs (in `recv_from` it returns by its
  50 ms timeout, `ControlIdle`), the sender loop runs, `next_frame` returning
  because the backends wait with a timeout, and the main thread runs. Writes,
  failures and Ctrl+C are never forced.
* `ManagedSource`: the thread that made a call goes on with it, and its socket
  has a read timeout; the device may be silent for ever.
* `Viewer`: the viewer's thread runs, and requests and `set_state` return; the
  pipeline owes nothing, not even its Eos.

`CompatStream` and `RegisterFields` state safety only.

## 6. Divergences

Each is a run that TLC ends with a counterexample; `findings` of
`PROJECT.json` has the lines.

* `MCTrailerBoundary`: the profile document says payloads at or beyond the
  trailer drop the frame; a payload that was buffered *before* the trailer
  arrived is not checked against it. With one whose id is beyond the
  trailer's the frame is completed and emitted, which is the run's trace
  (leader 0, payloads 1, 4 and 2, trailer 3). With one that has the trailer's
  own id, or the frame's run going on past it, the trailer is never next, and
  the frame is not dropped at once either: it stays, and times out.
* `MCSrcForeign`: the document says a frame with gaps is dropped on timeout;
  a datagram that does not parse makes the receiver `continue` before
  `reap_timeouts`, so a steady supply of them keeps the frame.
* `MCSrcLostError`: the document says a format change is a stream error; the
  error is put into the channel with `try_send`, whose failure on a full
  channel is ignored, and the stream ends with Eos.
* `MCControlReconnect`: `disconnect` drops the connection but keeps
  `applied`; the next `configure` returns early and `start` fails with
  `stream must be configured before start`.

More was seen while modelling that no document contradicts clearly enough for
a run:

* the document (`docs/compatibility-stream-profile.md:72`) drops a frame when
  the buffered bytes exceed what remains of it; the in-order branch
  (`assembler.rs:173`) shrinks what remains without comparing, which is why
  `MemoryBounded` bounds the buffer by the frame's length;
* `last_update` is the instant read before `recv_from` blocked
  (`eevideosrc/imp.rs:768`): `ReapedNearTimeout` states how early a frame may
  be reaped;
* `spawn` that fails in `advertised_ip` leaves the control loop running; a
  receive error ends the control loop while the sender streams on; a stream
  that is disabled keeps its camera capturing;
* one datagram that does not decode discards all answers of a discovery;
* after `configure(A)` succeeded and `configure(B)` failed with registers
  written, `configure(A)` returns early with Ok (`lib.rs:383`) while the device
  keeps the registers of B; nothing in the repository says what a failed
  configure leaves, so `ViewIsCurrent` ends with the first failed call;
* an abandoned capture pipeline plays on after the end of the daemon's sender
  loop (`gstreamer.rs:76`), which `CaptureReleased` bounds;
* after a reply to `start` was lost, the session's `stop()` sends nothing: the
  device streams on, which `NoSilentRunaway` bounds to the case that an error
  was reported;
* a recording cut off by the 5 s deadline is reported as success.

## 7. Proofs

Every invariant, and every action property and refinement that a run checks,
is a theorem; liveness is not. The theorems hold for every value of the
constants that meets the `ASSUME`s of the modules: bounds such as
`MaxPackets`, `MaxStarts` or `MaxCopies` are any numbers, and the sets of
formats, configurations, controllers, devices and so on are any sets, finite
only where the code counts their members. TLC evaluates the assumptions in
every run. Hardly any property is inductive as it stands; what follows says, for each module, which invariant is and why the additions are needed.
TLC checked each of these invariants on a small instance before it was proved.

### `FrameAssemblerProofs`

    AssemblyInv == TypeOK /\ AllSound /\ DeliveredInOrder
    FillInv     == AssemblyInv /\ AllFilled /\ DeliveredInFull

That an emitted image is right depends on it having been right while the frame
was in the map. `AllSound` says that each live frame `Holds` what arrived (the
image up to `packetId`, the buffer above, the trailer as first announced) and
`IsReconciled`. `RunEnd` exists (`RunEndExists`, by `NatLeast`), so `Flushed`
moves exactly the run and preserves `Holds` (`FlushedHolds`); a flushed frame
that is not complete cannot go on; one that is complete holds exactly the ids
between leader and trailer, so `Deliver` emits what arrived. `ReconcileSound`
collects this for the three ends of `reconcile_frame`; each handler is one
lemma, and only the frame of the packet changes (`Others`).

`DeliveredInFull` and `MemoryBounded` are about bytes. A sum of bytes is a
recursive function, of which TLAPS knows nothing by itself: `NatFacts` builds
the function from its finite beginnings (`BeginningsExist`, `BeginningsAgree`,
`RunningSum`), and `NatSetInduction` then gives what sums do (`SumType`,
`SumSplit`, `SumSame`, `SumMonotone`...). `AllFilled` says that the offset is the
sum of what is in the image, and that neither it nor the buffer exceeds the
announced length; the in-order branch, which compares nothing, keeps this
because `reconcile_frame` refuses what does not fit.

`Accounted` is inductive with `TypeOK`: each handler empties, fills or keeps
one slot of the map and counts accordingly. `OnlyGrows` follows from
`AssemblyInv` step by step.

### `CompatStreamProofs`

The receiver in the stream takes packets that also carry, for the history, the
buffer they are of. `ReceiverAssembles` shows that it takes the assembler's
steps all the same (`Bare(p)` is what a packet says), so that `FillInv`, proved
once, holds here (`ReceiverInvariant`). On it rest, one after the other,

* `KnownInv`: what the sink has sent and with which ids (`SinkInv`: within a
  run ids do not go back, and go on after each frame that was sent to its
  end), that everything under way (`NetInv`), every chunk and every end the
  receiver has seen (`WireInv`) was sent under that id;
* `OnceInv`, for `StreamImplementsDelivery`: without repeats the first payload
  of a buffer is under way, or in one frame, or its buffer was delivered: so
  it is delivered once at most. A whole image has all its chunks, and its
  trailer or that of a buffer with the same id (`EmittedWasSent`). That an
  emitted frame which is none of the sent ones is allowed follows from
  `MixHolds`, on the next two;
* `OrderInv` and `MixInv`, for `MixHolds`: in a network that keeps the order
  and loses nothing each frame is of the last buffer that began under its id;
  without a shared id every frame is of one buffer; and only a restart or a
  failed send makes two buffers share an id (`ReuseExplained`);
* `Fates`, for the two remaining theorems: until its leader arrives all of a
  buffer is under way, and it has been delivered when all of it has arrived.
  The chunks of one image are as many bytes as its leader says (`FullBytes`,
  `PartBytes`), so a frame that shows some of them overflows nowhere, goes on
  with the next, and is emitted with the last (`ShownReconciles`, `Progress`).
  `ReorderInv` adds that no two buffers share an id and that every other
  buffer's frame is left alone; `LosslessInv` that what is under way of a
  buffer is its last packets, that the frame of the newest buffer has what
  arrived of it, and that a frame the sender has counted is counted by the
  receiver or has its trailer under way.

### `EeVideoSrcProofs`

    SrcInv == SrcTypes /\ QueueOrder /\ FramesCounted /\ Uniform /\ NearTimeout

The parts do not need one another beyond the types. `QueueOrder` adds to
`InOrder` and `ErrorIsLast` that no frame is pushed before it is completed and
that a stopped element has no thread and an empty channel; `Uniform`
relates the formats in the channel to `current` and to the caps in every
phase, not only while running; `NearTimeout` bounds the age that the code
computes by the true one, plus one read timeout, for frames that are still
there.

### `DeviceRuntimeProofs`

About the daemons of `DeviceDaemon`, whose main thread decides when the sender
loop exists at all (`Spawned`). `RuntimeInv` relates the caches of the sender
loop to the camera in each of its states: `active_capture` is the camera's
format except while a capture is being started (`CaptureCached`), the settings
in use have a destination and a known format (`SettingsSound`), a fixed format
is in registers, settings and capture (`FixedFormat`), a frame under way was
begun with the settings in use (`FrameCached`), and the packets sent after a
disabling write together with those still to come are of one frame
(`LateBounded`).
`LostByFailure` says that a pipeline is abandoned only after a failure and
never by the synthetic backend, which is what `CaptureReleased` leaves open.

### `ManagedControlProofs`

    SourceInv  == ControlInv /\ ElementTypes /\ ElementInv
    ControlInv == SessionTypes /\ NetworkTypes /\ CallLinks /\ SessionInv
                    /\ ScriptInv /\ ExchangeInv /\ PromptInv /\ ViewInv

What is left of a call is what is left of the script it began with
(`ScriptInv`). Messages carry the id of their exchange, and a response to the
exchange under way means that its write was served: hence `WritesHappened`,
in any network (`ExchangeInv`). In a prompt network, one that delivers no
request after its exchange, a register holds what the last successful access
says (`PromptInv`: `PromptMessages`, `Answered`, `Progress`), so that a call
that succeeds leaves the device as the session believes it to be (`ViewInv`).
`ElementInv` says for each call of `start()` and `stop()` what session, device
and report are when it is made and while it is under way.

### `RegisterFieldsProofs`

`RegisterInv` adds to the three properties what a busy controller knows: its
word carries the command's values in the command's fields; the other fields of
a word it is about to write are ones the register held, and still holds if
nobody wrote since it was read; and a word it has written is the register if
nobody wrote since. That masks are disjoint intervals within the width (`MaskFacts`)
makes a field's value that of one command.

### `ViewerProofs`

    ViewerInv == SearchInv /\ DescribedInv /\ MyJob /\ PipelineInv

The three parts do not meet except in `MyJob`. Every answer that was heard is
in the list (so one entry means one answer); every description file and every
text a client holds is whole, or mixed by a change of its device, or cut off
by a write that is under way or was torn, or that of another device when all
share one file; these are the exceptions of `RightDevice`. And an error that was posted before
the end of the stream is still ahead of it on the bus. `Listing` adds that a
search lists each device once per interface.

### Not proved

Liveness, which takes fairness and `ENABLED`: `GapsTimeOut`, `EndIsNoticed`,
`UnlockReturns`, `StopReturns`, `GapsReaped`, `StopsOnInterrupt`,
`SettingsTakeEffect`, `KeepsStreaming`, `CallsReturn` and `InterruptEnds` are
checked by TLC only, within the bounds of their runs. The four divergences are
counterexamples and need no proof.

## 8. What is not modelled

* The layout of packets and CoAP messages (`compat_profile.rs`, `coap.rs`):
  pure encoding and decoding; a datagram that does not decode is an action
  where the code reacts to it.
* Contents of images, pixel formats beyond their identity, timestamps, packet
  delays, frame rates, test patterns, texts, events and logging.
* The limits of the `u64` counters of `StreamStats`, the wrap of the sink's
  `u32` frame ids after 2^32 frames of one run, and the wrap of the `u16`
  message ids: an exchange's id is compared only with those of messages still
  in the network, and the channel's `lifetime` bounds how old these are.
* The control session of the sink, whose backend does nothing; the format
  registers of a configuration, which only `eevid` writes; a session beside
  another controller of the same device.
* The description and its YAML text beyond whose it is and whether it is
  whole; a root whose name ends in `.yaml` counts as a file.
* Elements and links of `eeview`'s pipeline; its overlay and statistics.
* GStreamer itself, sockets and threads of the operating system: external,
  modelled by how the code uses them.
* Plugin registration and caps conversion (`gst-plugin-eevideo/src/lib.rs`,
  `common.rs`, `control.rs`).

## 9. Plan

The model covers the components above, and the safety properties its runs
check are proved. What would add most from here:

1. abstract specifications for the other components, in the way of
   `FrameDelivery`: the channel of `eevideosrc` as a bounded queue of numbered
   frames, and the registers of a device as atomic variables, with the
   refinements proved from `SrcInv` and `SourceInv`;
2. the safety half of the liveness properties: that no reachable state of
   `EeVideoSrc` or `ManagedControl` lacks a step of the thread it waits for;
3. `RegisterFields` below `ManagedControl`, a session beside another
   controller of the same device, which is left out today.
