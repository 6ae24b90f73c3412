# sapfs: models, model checking and proofs

TLA+ models of the player sapfs: a command line program that decodes WAVE, FLAC
and MP3 files and plays them through one of JACK, PipeWire, PulseAudio, ALSA,
WASAPI, ASIO and CoreAudio. The models are translated from the C sources, whose
paths and lines are given as in the repository, without the leading
`src/audio_output/` where the file name says enough. `PROJECT.json` maps each
definition to the lines it stands for and each hazard of the code to the
properties that watch it.

1. [The system](#1-the-system)
2. [The plan](#2-the-plan)
3. [The modules and the code](#3-the-modules-and-the-code)
4. [The runs](#4-the-runs)
5. [Assumptions and fairness](#5-assumptions-and-fairness)
6. [Proofs](#6-proofs)
7. [What the models found](#7-what-the-models-found)
8. [What is not modelled](#8-what-is-not-modelled)

## 1. The system

One thread, the player's, opens a decoder and an output and moves frames from the
one to the other. Everything concurrent is inside an output.

    file -> decoder -> main.c play_audio_file -> audio_output.h -> back end -> device or server
              ^              ^                                        ^
          libFLAC,      SIGINT, keys                   callback or render thread, server,
          libmpg123                                    graph changes, suspend, unplugging

| component | state | operations | shared with | what is hard | what makes it correct |
|---|---|---|---|---|---|
| **player loop** `main.c` 143-152, 380-536 | `g_running`, `loop_mode`, the rest of the last chunk, paused, draining, failed | open, init, start, one turn of the loop (key, read, write, drain, rewind), cleanup | the signal handler writes `g_running` | partial writes, keys and Ctrl+C in every phase, the way from draining back to reading with `--loop` | every frame heard once and in order, success means heard to the end, it ends |
| **decoders** `audio_decoder.c`, `parser/*` | position, FLAC: a partly read block, end flags | read, seek, close | libFLAC calls back into the parser | blocks that straddle reads, the end of the stream, seeking | reads are contiguous; 0 means the end |
| **sample conversion** `audio_converter.c` | none | float to 16, 24, 32 bits | | rounding, clipping | not modelled |
| **output front end** `audio_output.c`, `.h` | the back end in use | create, start, stop, pause, resume, write, drain, queries, close | | drain on platforms without one | a bounded FIFO with pause and drain |
| **ring buffer** `ring_buffer.c` | bytes, two positions, fill count, canceled; a mutex and a condition variable | write (blocks), read, available, cancel | player's and device's threads, whoever cancels | wrap-around, lost wake-ups, waiting for ever | FIFO, no lost wake-up, writes return |
| **JACK** `jack_output.c` | a lock-free frame queue, requested and acknowledged state, playback tail, graph version and snapshot, watchdog times | the public functions, `process` and the server's other callbacks | atomics between the owner and a real-time callback | everything interleaves at the grain of single loads and stores | FIFO, no race on the samples, acknowledged state changes, never plays to a stale graph, drain means heard |
| **PipeWire** `pipewire_output.c` | frame queue, stream state, format and rate agreed, drain flags, last process time | the public functions, five stream callbacks | the loop's lock; `wait_ready` gives it away in mid-function | streams fail, renegotiate, are drained again and again; exclusive mode needs a cycle before it is ready | FIFO, drained means played, waits end, honest watchdog |
| **PulseAudio** `pulseaudio_output.c` | state, result of the last operation, drain operation and result, times | the public functions, six callbacks, a timer | the loop's lock; waits give it away | answers that are late, missing or of another operation | our state is the server's, drain answers are of this segment, fair time limits |
| **ALSA** `alsa_output.c`, drain in `linux_output.c` | our state; the rest is the device's | the public functions, `recover` | the kernel changes the device between any two calls | underruns, suspension, devices that cannot pause or resume | nothing lost or repeated, pause keeps the queue, drain ends and means heard |
| **WASAPI** `wasapi_output.c` | a ring buffer, a consumer thread, an event of the engine and a stop event, state | the public functions; the thread waits, asks for room, reads, converts, hands over | the ring buffer; the events; the thread uses the output until it is joined | the room is asked for long before it is used, two buffers in exclusive mode, join against a thread that waits, calls of which the last fails | every frame once, the thread dead before its output is freed, everything given back |
| **CoreAudio** `coreaudio_output.c` | a ring buffer, an audio unit or an IOProc, hog mode, the mixer, state | the public functions; the render callback of the unit, the IOProc of a device in hog mode | the ring buffer, with a callback of the system | stop and close against a callback, what create had acquired when it failed, a device buffer larger than ours | the same; hog mode and mixer given back |
| **ASIO** `asio_output.c` | a ring buffer, a driver, its double buffer, the global `g_active_output` | the public functions; the buffer switch | the ring buffer; the global, through which a callback finds its output | a switch that is under way or comes late while the output closes | the same; no switch uses an output that was freed |
| **dispatch** `linux_output.c`, `windows_output.c` | the table of the back end | forwards | | the drain of ALSA is in AlsaOutput; the rest is a table | |
| **tests** `tests/` | | | | | read for what the back ends promise |

The behaviours a test hardly reaches are listed with their lines under `hazards`
in `PROJECT.json`; the properties of the runs are derived from that list.

## 2. The plan

In order of what matters most: the queues every sound goes through, then the
control around them, then the loop that uses them, then the other back ends.

| step | modules | state |
|---|---|---|
| 1 | `Fifo`, the abstract queue; `RingBuffer`, which implements it | done |
| 2 | `JackOutput`, the lock-free back end, which implements `Fifo` | done |
| 3 | `PipewireOutput` (implements `Fifo`), `PulseaudioOutput`, `AlsaOutput` (implements `Fifo`) | done |
| 4 | `Decoder`, and `Player` on top of it | done |
| 5 | `RingBufferProofs`, `JackOutputProofs`: queues, types, handshake, race freedom, `ImplementsFifo` | done |
| 6 | `RingDevice`, what the back ends behind the ring share; `WasapiOutput`, `CoreaudioOutput`, `AsioOutput`; `AudioOutput` composes them with `RingBuffer` and the calls of the player | done |
| 7 | `FrameProofs`, `AudioOutputProofs` | done: all safety properties of the composition, and those of the ring in it |
| 8 | `AlsaOutputProofs`, `PulseaudioOutputProofs`, `PipewireOutputProofs`, `PlayerProofs` | done: all safety properties |
| 9 | `JackOutputProofs`: `SnapshotAccurate`, `PlaysOnlyRouted`, `StallIsReal`, `DrainMeansHeard` and how wrong drain can be when the period changes | done |
| 10 | the disconnection watchdog of JACK beside a history of outages; `Player` against the queue of one back end instead of a generic one | left |

Abstract specifications: `Fifo` is the one promise all outputs share, and
`RingBuffer` (alone and in `AudioOutput`), `JackOutput`, `PipewireOutput` and
`AlsaOutput` are shown to implement it. No module declares a RECURSIVE operator, so
all of them can be proved about; parameters are CONSTANTS with a named ASSUME in
the module that declares them; each invariant is a conjunction of named parts.

## 3. The modules and the code

The configurations instantiate the modules directly: a bound is a CONSTANT of its
module and is named in its comment as `bound`. Within a module the comment
"mistake" marks an alternative form of a definition, as a plausible bug would
leave it. Nothing in the specification refers to it; it serves to show that the
properties would notice.

**Fifo**. Frames are numbered as they are accepted. The state is how many were
accepted and delivered, and the last piece delivered; a queue accepts, delivers a
contiguous piece in order, or drops all it holds.

**RingBuffer** (`ring_buffer.c`). One action per critical section. The write loop
keeps the mutex over its iterations, so there an action is an iteration
(`WriteLock`, `WriteChunk`, `WriteWait`, `WriteReturn`) and `lock` keeps the
others out; `SpuriousWake` is what POSIX allows. `CopyIn` and `CopyOut` are the
two-part copies at the end of the ring.

**JackOutput** (`jack_output.c`). `process()` is a sequence of actions, one per
atomic access another party may interfere with (`CycleBegin` ... `CycleAck`); so
is every public function of the owner, which begins with `check_health`
(`HealthBroken`, `HealthGraph`, `ScanPort`, `StoreMask`, `StoreSeen`, `Watchdog`).
`change_state` is `RequestState` and `AwaitState`, with a full health check each
time round. The server makes and breaks links (`Relink`), tells of it later
(`PortConnect`), changes period and latency, and faults the output. `downstream`
is what drain must respect: a history of how many frames pass until all that were
copied are heard. Stop gives up what is downstream as it gives up the queue: it
waits for no tail (397-403), and a drain after it is not about those frames.

**PipewireOutput** (`pipewire_output.c`). A public function or a callback under
the loop's lock is one action; `wait_ready` splits start, resume and write, and
the owner then stands at `pc = "ready"`. `stream` is libpipewire's part.

**PulseaudioOutput** (`pulseaudio_output.c`). The same grain; `wait_operation` and
the waits of create split the functions, and `own.step` says for which operation
the owner waits; a wait may look again at any time, as any callback wakes it. What
the server did and what the client knows of it are two things: `timing` says whether
the client has a read index that can be used (`known`), whether it differs from
`last_read` (`shown`), and whether the server has moved on since the last timing reply
(`newer`); `server.room` is what the server has asked for. `TimingReply`, `TimingLost`
and `Request` are the messages that change what is known, and come when they come.
The two watchdogs are ages of `progress_at`, `pause_at` and the drain deadline.

**AlsaOutput** (`alsa_output.c`, `linux_output.c` 55-58). A function is one action
up to what it learned from libasound; `recover`, `pause` and `resume` look at the
device and act later, so the device moves in between. `pcm` is the PCM state
machine of the kernel, with or without hardware pause and resume. `snd_pcm_resume` and
`snd_pcm_prepare` may fail on a device that is there (`Refused`).

**RingDevice** holds what the three back ends behind the ring buffer have in common.
`call` says where the owner is in the life of an output, `res` which resources of
the system the output owns, `worker` where its thread or callback is, `held` what
is in the thread's conversion buffer and `device` what the device was given and
has not played; `running` is the device's clock. `heard` and `gone` are histories
of the frames that left. `write` is the write of `RingBuffer`, `drain` is done when
the ring is empty.

**WasapiOutput** (`wasapi_output.c`). One action of the consumer thread is what it
does up to its next call: `ThreadWakes` (the stop event comes first), `ThreadNeeds`
(room, from the padding in shared mode), `ThreadReads` (the ring), `ThreadRenders`
(the hand-over, which may be refused). `stop` is `WasapiStop`, `WasapiCancel` and
`WasapiJoin`, which waits for a dead thread. `stranded` notes that start failed
with the stop event or the thread made.

**CoreaudioOutput** (`coreaudio_output.c`). `CoreaudioSteps` lists what create acquires
in each mode, and each step may fail; a callback is `CallbackBegins` and
`CallbackReads` or, when the device's buffer is larger than the conversion buffer
(`oversize`), `CallbackSilent`. Halt, dispose and free are separate actions, so that
a callback may come between them wherever the system lets it.

**AsioOutput** (`asio_output.c`). A buffer switch is entered (`SwitchBegins`, which looks
for `g_active_output`), fills its half (`SwitchRenders`) and returns; close takes the
global back, disposes of the buffers and frees the rest, in this order.

**AudioOutput** (`audio_output.c`, `windows_output.c`) is the composition: it chooses the
back end (`kind`), runs it with the ring and the player's calls, and states the
properties that hold of all three. The order of the calls is that of
`play_audio_file`: create, start, then writes, pauses and drains, stop, close; nobody
in the repository starts an output again after a stop.

**Decoder** (`audio_decoder.c` and the parsers) and **Player** (`main.c`). A frame
is its number in the file. `Player` extends `Decoder` and adds the loop turn by
turn, the signal handler as an action that may happen at any time, keys, and an
output with what `audio_output.h` promises: partial writes that report a lost
device (Linux) or blocking writes (behind a ring buffer). Behind the output's queue is
a device that takes frames ahead of playing them (`Take`, `Play`). `Drained` waits for
both on the Linux back ends; behind a ring buffer it looks at the ring alone
(`audio_output.c` 53-57), so that success tells of all but what the device had taken,
which is what `EndMeansHeard` says. A short read of a damaged file is the end of the
input for the player, in WAVE (`fread`) as in MP3 where the format changes
(`ReadNewFormat`).

## 4. The runs

Deadlock is not checked where the program may stop: a player that has closed its
output, an output that is closed, bounds that are used up. The types of PipeWire,
PulseAudio and ALSA are not among the invariants of their runs: they are theorems.

| run | bounds | what it shows |
|---|---|---|
| `platforms` | WASAPI and CoreAudio in both modes, ASIO; a ring of 3 frames, requests up to 4, 5 frames in all, device buffers of 2, one refused call | requests exceed the ring, the ring wraps, and buffers of 2 never align with it: every frame in one place, in order; the ring is a FIFO without a lost wake-up; what drain cuts is bounded; thread and callbacks end before their output is freed; a closed output has given everything back; every call returns |
| `jack_queue` | 1 channel, 2 frames, indices modulo 6, period 1, latency 0 or 3, changing at any time, 7 frames | the index wraps and the queue fills and empties; every interleaving of write, pause, stop, drain with the callback's loads and stores; FIFO, no race, `Settled`, drain means heard |
| `jack_graph` | 2 channels, one link change or fault, time | a port is connected or broken at any point of scan and cycle: never plays on a snapshot that is known to be old, the snapshot is accurate once told, the gate opens again, the watchdog is honest |
| `jack_calls` | 1 channel, all control functions, one fault, time | every call returns, with any server |
| `jack_tail` | periods 1 and 2 | violated, see section 7 |
| `player` | 5 frames in blocks of 2, chunks of 3, queue of 2, device of 2, two keys, damaged files, lost devices | chunk, block and queue never align, so every rest occurs, and the file is longer than queue and device together: order, end, interruption, termination |
| `player_flac_loop`, `player_blocked` | as above | violated, see section 7 |
| `pipewire` | queue of 2, quanta 1 and 2, 3 frames, one fault, both modes, time out after 1 | see the properties in the module; two segments with a drain between them fit in 3 frames |
| `pulseaudio` | server queue of 2, writes up to 2, timeout of 2, a full queue plays in 1, one fault | control against late, failed and missing answers, the watchdogs against late and missing timing replies and requests |
| `alsa` | device of 2 frames, writes up to 3, 4 frames, two faults, all four kinds of hardware | a suspension during the recovery from another |
| `alsa_suspend` | one fault | violated, see section 7 |

Why the bounds are enough: the code tells full, empty and partly filled queues
apart, aligned and unaligned pieces, before and after a deadline, and whether an
index has wrapped. Each bound is the smallest at which all these occur together.
Timestamps are ages, cut off just beyond the limit they are compared with: the
code cannot tell greater ones apart.

## 5. Assumptions and fairness

What the models take from outside the repository:

- JACK: a cycle runs to its end; period and latency change between cycles; notifications
  may come any time later or never; `jack_client_close` waits for the cycle. Atomics
  are sequentially consistent, although the code uses acquire and release: each
  variable has one writer, except `graph_version`, which is only added to. For the same
  reason two adjacent loads are one action in `CycleLoad`, `DrainQueue`, `HealthBroken` and
  `HealthGraph`: each of the variables loaded has one writer, so the loads commute.
  The write cap of 4096 frames is a bound on a write like `MaxWrite`.
- PipeWire: a drain that was asked for survives `set_active(false)` and not
  `flush(false)`; the event of a drain that was cancelled does not come later; a
  stream runs only with a format.
- WASAPI: an event is an auto-reset one and remembers one period; `IAudioClient_Reset`
  is refused while the client runs; in exclusive mode the device has two buffers and
  plays one each period; a pause keeps what the device holds. `CoInitialize` succeeds:
  `RPC_E_CHANGED_MODE`, after which create goes on and close calls `CoUninitialize` all the
  same, needs a thread that was initialised otherwise before, which no caller here is.
  The consumer thread
  is modelled as long as its output exists: what it does with freed memory is not.
- CoreAudio and ASIO: to stop, to dispose of a unit or of ASIO's buffers and to destroy an
  IOProc wait for a callback that is under way, and after the last three none
  comes; `disposeBuffers` implies stop. ASIO has a double buffer.
- PulseAudio: an operation that was cancelled calls nobody back. Timing replies and
  requests are asynchronous: any time may pass between what the server does and the
  client's knowing, and a reply may leave the read index missing or corrupt.
- ALSA: the PCM core of the kernel: a start threshold of 1; an empty running device
  is an underrun; `prepare` and `drop` discard the queue; `snd_pcm_resume` gives
  state and queue back where the hardware can, fails with ENOSYS where it cannot, with
  EAGAIN while the machine sleeps, and may fail otherwise on any hardware; `prepare`
  may fail too. An interrupted `writei` is treated as
  a full device; both make the caller try again.
- libFLAC and libmpg123: frames come in order; FLAC's come in blocks, and seeking
  delivers the rest of the block it lands in.

Fairness, only where a liveness property needs it:

- the thread that calls runs (`WriterStep`, `OwnerStep`, `Waiting`, `Returning`,
  `PlayerStep`): it is an ordinary thread and nothing but its own waits holds it;
- strong fairness of the owner's steps in JACK, because `jack_client_close` is
  enabled only between cycles, which go on;
- strong fairness of a control function that goes on (`OwnerReturns`) and of the thread
  or callback that was entered (`WorkerStep`) behind the ring, because the mutex is
  not free all the time and stop waits for callbacks that go on coming;
- `DeviceServes` there, that a device whose clock runs plays on, is a hypothesis of
  the part of `CallsReturn` that is about write, and not part of the specification;
- the owner polls `drain`, as `play_audio_file` does in each turn (`main.c` 471-497);
- a cycle of JACK that began ends; the clock advances;
- servers owe nothing. `ServerServes` in PipeWire is a hypothesis of the two
  properties that are about a server that serves.

## 6. Proofs

The prover is TLAPS. `RingBufferProofs` shows for every capacity, request size
and number of bytes, from `RingAssumption` alone:

- `RingInvariant`: `RingInv` is inductive. It is the types, `LockHeld` (the mutex is
  held exactly in the loop), `Contents` (positions, counts and the live slots agree),
  `Progress` (what the write in progress has taken is a prefix of its data) and
  `NoLostWakeup`. The last needs the others: a writer falls asleep only under the
  mutex, on a full ring, and the only actions that make room or cancel also wake it.
- `NoWakeupIsLost` and `ContentsAlways`, two of the properties of the run;
- `RingImplementsFifo`: every step of the ring is a step of `Fifo` or a stutter.
  The heart is that `CopyOut` returns the next numbers in order, also across the
  wrap, which rests on two lemmas about `%`.

`JackOutputProofs` shows for every number of channels, capacity, index range,
set of periods and latencies, write size and time limit, from `JackAssumption`
alone, which the configurations of the runs satisfy too:

- `JackInvariant`: `JackInv` is inductive. It has three parts, each proved from the
  ones before it.
  `Types` is stronger than `TypeOK`: it also types the records and bounds the
  version a refresh has read.
  `Control` is the handshake. `Phases` ties the owner's label to `failed`, `active`
  and the waiting flag; `Handshake` says that while the owner waits, the request is
  what its call asked for and a cycle can only still be under another state before
  the acknowledgement, and that otherwise request, acknowledgement and cycle agree.
  `Settled` alone is not inductive, because it says nothing of the time in between.
  `Queueing` is the queue. `QueueInv`: the slots from `read_index` on hold what is
  accepted and not delivered, in order. `CycleInv`: a cycle holds the oldest of them.
  `WriteInv`: a write holds free slots, and from its copy on they hold the frames
  that follow. `Queueing` needs `Control` in one place, `ClearQueueing`: stop resets
  both indices without a lock, which is safe only because the handshake has made
  sure that no cycle holds frames then.
- `TypesAlways`, `RequestsSettle` and `QueueIsRaceFree`: `TypeOK`, `Settled` and
  `NoDataRace`.
- `JackImplementsFifo`: a copy of a cycle is `Take`, a store of `write_index` is
  `Put`, stop's reset is `Discard`, every other step is a stutter.
- `SnapshotsAreAccurate` and `OnlyRoutedPlays`, from `Routing`. The argument is that
  the version never falls: while the version a scan has read is still that of now,
  and nothing waits to be notified, no link has changed since, so what the scan has
  collected so far (`mask` up to `count`) is what is linked. A cycle past the gate has
  read the version twice around its look at the snapshot, which makes the same
  hold of the snapshot it trusts.
- `StallsAreReal`, from `Watching`: the age the watchdog compares is never greater than
  the time without a cycle, although the watchdog only notices at its next look
  that a cycle has come.
- `DrainErrsByAPeriod`, for every `D` by which periods may differ, every latency and
  every change of either: when drain answers 1, the queue is empty and what is
  downstream is at most `D` frames. The invariant, `Owed(D)`, compares two counters
  that lose the same frames at different times. `downstream` loses at the begin of a
  cycle the period that ended, `tail_frames` loses later in the cycle the period that
  begins; between the two, the tail has lost the last period instead of the first
  one, `q`, in which the frames were copied. Each `q` is fixed by a copy and lives until
  the next, hence the \E in `Owed`. `DrainIsHonest` is the case that the period does
  not grow while something is downstream (`PeriodKept`), `DrainAtOnePeriod` that of a
  server with one period, that of the run: there the property of the run is a
  theorem as it stands. Run `jack_tail` shows that the hypothesis is needed.
- Two action properties, checked on no run of the list. `PauseHolds`: when pause or stop
  has returned on a healthy output, no frame leaves the queue until the next call.
  `FailuresAreFinal`: a failed output keeps its first reason and asks for nothing but
  STOPPED, and no cycle that begins later plays. Both rest on the handshake.

Both proofs about a queue rest on the same few lemmas about remainders. For JACK
they also say why the counters may wrap: a slot is an index modulo `Capacity`, an
index is a number modulo `IndexRange`, and because the latter is a multiple of the
former (2^32 and a power of two in the code), the wrap does not change the slot
(`ShiftByMultiple`, `SlotValue`); places less than a queue apart are different slots
(`SlotsDiffer`).

`AudioOutputProofs`, with the lemmas of `FrameProofs` about the frames of a sequence,
is about WASAPI, CoreAudio and ASIO at once, for every ring, device buffer, number
of frames and of refused calls. Every step of the composition is a step of the
ring or leaves the ring alone (`OutputUsesTheRing`), so `OutputQueueIsFifo` and
`OutputLosesNoWakeup` follow from what was proved of the ring. Two invariants are
inductive. `Queues` is the data: the types, `EveryFrameOnce`, and how much the device
holds at each point of its worker's round, without which it could not be shown
that a hand-over fits into the room seen before. `Life` is the calls: what the
output owns, and where its worker may be, at each point of its life. From them
follow `FramesOnce`, `CutBounded`, `OutputTypes`, `UsedThenFreed` and `ClosedOwnsNothing`.
A third, `LostByRefusal`, says what all their exceptions have in common: as long as
the system has refused no call, nothing is stranded, and no frame is dropped before
the output has stopped (`LossNeedsRefusal`). So `DrainHearsAllButABuffer`: a player that
was refused nothing and whose drain answered 1 has heard all but what one device
buffer (two in exclusive mode and with ASIO) holds, and `UnrefusedClosesAll`: its
close leaves nothing behind.

`AlsaOutputProofs`: `AlsaInv` says, beside the types, what the queue holds (`Held`), in
which states of the device it is empty (`Dry`), and how our state follows the
device's although the two change at different times (`Agree`). From it follow
`DrainIsHonest`, `NothingIsDropped` and `AlsaImplementsFifo`. `DrainWithoutResumption` is
the complement of run `alsa_suspend`: where no hardware can resume a suspended
device with its queue, drain means heard without exception.

`PulseaudioOutputProofs`: `PulseInv` says when the server's queue is empty (`Emptied`),
what the server has done of the operation that is waited for (`Asked`; without it a
late answer could not be told from that of this operation), that what the server asks
for fits into its queue (`Fits`), and how the ages the code compares relate to those of
the history (`DrainAge`, `ProgressAge`). `ProgressAge` ends where progress is under way to
the client: the age compared is at most that of the last progress, unless a timing
reply that tells of later progress is still to come, to be read, or unusable.
`StallsAreReal` therefore excepts a stall declared while the last progress was `Hidden`
from the client, and nothing else. From `PulseInv`
follow `DrainIsHonest`, `CorkedWhenNotPlaying`, `LateDrainsAreLate`, `StallsAreReal`.

`PipewireOutputProofs`: `PipeInv` says what the queue holds (`Held`), how far a drain has
come, in the stream and in the output's flags (`Drains`), and that no silence is
longer than its history tells (`SilentAge`). From it follow `DrainIsHonest`,
`StallsAreReal` and `PipeImplementsFifo`.

`PlayerProofs`: `PlayerInv` puts the frames in the device, in the output's queue, in the
rest of the chunk, in the read in progress and in the decoded block in one line: they are, one after
the other, those from the frame last heard to the decoder's position (`Flow`). Most
steps only move frames along this line. `Ends` and `Reads` are needed to see that a
drain begins only with an empty line and a file at its end. From it follow
`OrderIsKept`, with no FLAC among the decoders played with `--loop` (`player_flac_loop`
shows why), `SuccessMeansHeard` and `InputEndsFirst`, with FLAC in loops as well.
`SuccessMeansHeard` says that the line was empty when success was told, but for the
device where drain does not look at it: there at most `DeviceSize` frames were not
heard, for every size.

Every safety property of every passing run is a theorem. Only model-checked is
liveness, which fairness and ENABLED put beyond the prover: `FramesKeepMoving`,
`CallsReturn`, `InterruptStops`, `PlaybackEnds`, `Activates` and `DrainEnds`. Induction over data cannot be done with the provers at
hand and is not needed: no definition is recursive.

## 7. What the models found

| run | where | what |
|---|---|---|
| `jack_tail` | `jack_output.c` 162-164 | the tail is counted down in the periods of later cycles: when the server's period grows after the last frames, drain answers 1 before they were heard, by at most what it has grown (`DrainErrsByAPeriod`) |
| `player_flac_loop` | `flac_parser.c` 430-437 | seeking delivers the block of the target to the callback, and `flac_seek` then empties the buffer: each pass of `--loop` but the first begins at the second block |
| `player_blocked` | `main.c` 456, `ring_buffer.c` 85-95 | on the back ends with a ring buffer Ctrl+C does not end a write that waits for a device that has stopped |
| `alsa_suspend` | `alsa_output.c` 298 | a drain polled after the machine slept answers 1 although the device that was resumed still holds its queue; not so where nothing is resumed (`DrainWithoutResumption`) |

Found while modelling and without a run of its own: an ALSA device that was
suspended while paused goes back to its pause after `resume` has set our state to
PLAYING, and neither pause nor resume gets it out (`DrainEnds` excepts this state);
a start of WASAPI that fails after its thread was made leaves the thread running, as
stop returns early in this state and close then frees the output under it
(`wasapi_output.c` 433, 440: `FreedLast` and `CloseGivesBack` except it by the name
`stranded`); in hog mode CoreAudio plays silence for ever, and a write waits for ever,
when the device's buffer could not be set and is larger than ours
(`coreaudio_output.c` 256, 453: `oversize` in `CallsReturn`); on platforms other than
Linux drain is done when the ring is empty, although the device still holds frames
(`audio_output.c` 54: `CutIsBounded` and `EndMeansHeard` say how many are cut at most); a
PulseAudio server that plays is declared stalled, during a drain or with its queue
full, when for longer than the timeout no timing reply told of its progress
(`pulseaudio_output.c` 252-255: `StallIsReal` excepts it by the name `Hidden`); WASAPI never
clears `canceled`, so that nothing would play after stop and start
(`wasapi_output.c` 440), which no caller in the repository does. They are among the
hazards, except the last; JACK's `disconnected_ns` (`jack_output.c` 222), which adds
up outages that no health check saw the end of, is there without a property yet.

The proof of `DrainMeansHeard` corrected a model. With a latency of 1, run `jack_queue`
had not noticed that a drain after stop and start answers 1 at once, the tail being
0, whatever is downstream: frames that stop gave up, which is what stop is for. The
history now says so, and the run has latencies that are longer than two periods
and change.

## 8. What is not modelled

- The command line, the terminal and the progress display of `main.c`, and its device
  listing: sequential input and output.
- Header parsing in the decoders and sample conversion: pure functions of bytes.
- The listing of devices and ports in the back ends: separate programs, in effect.
- Format negotiation in `alsa_output_create`: a straight line of library calls.
- Xruns of JACK, underflows of PulseAudio: only counted.
- The choice of formats and devices in WASAPI, CoreAudio and ASIO, the registry, and
  `asio_message`: straight lines of library calls, or answers that change no state of
  the output. What the IOProc does in hog mode when the negotiated format has another
  number of channels than the file (`coreaudio_output.c` 196 only prefers a match, 248)
  is not modelled: the models carry frames, not channels.
