--------------------------- MODULE PipewireOutput ---------------------------
(***************************************************************************)
(* src/audio_output/pipewire_output.c.  The lock of the PipeWire thread    *)
(* loop serializes everything: a public function of the owner's thread is  *)
(* one step, and so is a callback of the loop's thread.  Only wait_ready() *)
(* gives the lock away in the middle of a function; then the callbacks go  *)
(* on while the owner waits at pc = "ready".                               *)
(*                                                                         *)
(* The stream is libpipewire's: it is corked by set_active(false), keeps   *)
(* the frames that on_process() queued until they are played, loses them   *)
(* with flush(false), and after flush(true) reports `drained` once it has  *)
(* played them all.  A drain it was asked for outlives a pause and not a   *)
(* flush(false).  A frame is its number; time is a Tick, a timestamp its   *)
(* age, and ages beyond timeout_ms are not told apart.                     *)
(***************************************************************************)
EXTENDS Integers

CONSTANTS
    Capacity,     \* frames in the queue
    Quanta,       \* frames the graph may ask for at once
    Modes,        \* PipewireMode: a set of "SHARED", "EXCLUSIVE"
    Timeout,      \* timeout_ms, in ticks
    MaxWrite,     \* bound: frames passed to one write
    MaxFrames,    \* bound: frames accepted in a behaviour
    MaxFaults     \* bound: errors of the server and of the library

ASSUME PipewireAssumption ==
    /\ Capacity \in Nat \ {0}
    /\ Quanta \subseteq Nat \ {0}
    /\ Modes \subseteq {"SHARED", "EXCLUSIVE"}
    /\ Timeout \in Nat \ {0}
    /\ MaxWrite \in Nat /\ MaxFrames \in Nat /\ MaxFaults \in Nat

VARIABLES
    mode, stream_state, state, failed, format_ready, graph_rate_verified,
    queue, filled, read_pos, write_pos,
    drain_requested, drain_sent, drained,    \* struct PipewireOutput
    own,       \* the owner's call: [pc, op, frames, waited]
    stream,    \* libpipewire: [active, queued, draining, faults]
    clock,     \* [timed, process, silent]: last_process_ns, and history
    accepted, delivered, output    \* history: frames written, queued to the stream

positions == <<read_pos, write_pos, filled>>
fifo      == <<queue, positions>>
drain     == <<drain_requested, drain_sent, drained>>
ready     == <<stream_state, format_ready, graph_rate_verified>>
history   == <<accepted, delivered, output>>
vars      == <<mode, ready, state, failed, fifo, drain, own, stream, clock, history>>

Slots == 0 .. Capacity - 1

AtMost(a, b) == IF a < b THEN a ELSE b
Older(age)   == IF age > Timeout THEN age ELSE age + 1

(* fail: the first reason stays. *)
Fail(reason) == failed' = IF failed = "no" THEN reason ELSE failed

(* A fault of the environment, within the bound. *)
FaultAfter(count) ==
    /\ stream.faults < MaxFaults
    /\ stream' = [stream EXCEPT !.faults = @ + 1, !.queued = @ + count]

Fault == FaultAfter(0)

Idle == own' = [pc |-> "idle", op |-> "none", frames |-> 0, waited |-> 0]

WaitReady(op, n) == own' = [pc |-> "ready", op |-> op, frames |-> n, waited |-> 0]

(* pipewire_output_create up to its wait_ready. *)
Init ==
    /\ mode \in Modes
    /\ stream_state = "CONNECTING" /\ format_ready = FALSE /\ graph_rate_verified = FALSE
    /\ state = "STOPPED" /\ failed = "no"
    /\ queue = [s \in Slots |-> 0] /\ filled = 0 /\ read_pos = 0 /\ write_pos = 0
    /\ drain_requested = FALSE /\ drain_sent = FALSE /\ drained = FALSE
    /\ own = [pc |-> "ready", op |-> "create", frames |-> 0, waited |-> 0]
    /\ stream = [active |-> FALSE, queued |-> 0, draining |-> FALSE, faults |-> 0]
    /\ clock \in [timed : BOOLEAN, process : {Timeout + 1}, silent : {0}]
    /\ accepted = 0 /\ delivered = 0 /\ output = [i \in 1 .. 0 |-> 0]
-----------------------------------------------------------------------------
(* The callbacks, on the thread of the loop. *)

(* on_state_changed: the graph starts a stream that is active and stops one that
   is not; an active one is suspended as a fault, or because the news of an
   earlier pause was late. *)
Streams ==
    /\ stream_state = "PAUSED" /\ stream.active /\ format_ready
    /\ stream_state' = "STREAMING"
    /\ UNCHANGED <<failed, format_ready, stream>>

Pauses ==
    /\ stream_state \in {"CONNECTING", "STREAMING"}
    /\ stream_state' = "PAUSED"
    /\ IF stream.active THEN Fault ELSE UNCHANGED stream
    /\ UNCHANGED <<failed, format_ready>>

StreamLost ==
    /\ stream_state' \in {"ERROR", "UNCONNECTED"}
    /\ Fail("error") /\ Fault
    /\ UNCHANGED format_ready

(* on_core_error *)
CoreError ==
    /\ Fail("error") /\ Fault
    /\ UNCHANGED <<stream_state, format_ready>>

(* on_param_changed: the format is withdrawn, agreed on, or another one. *)
ParamChanged(param) ==
    /\ stream_state \in {"CONNECTING", "PAUSED", "STREAMING"}
    /\ format_ready' = (param = "ours")
    /\ IF param = "other" THEN Fail("error") ELSE UNCHANGED failed
    /\ IF param = "ours" THEN UNCHANGED stream ELSE Fault
    /\ UNCHANGED stream_state

Notified ==
    /\ own.pc # "closed"
    /\ \/ Streams \/ Pauses \/ StreamLost \/ CoreError
       \/ \E param \in {"none", "ours", "other"} : ParamChanged(param)
    /\ UNCHANGED <<mode, graph_rate_verified, state, fifo, drain, own, clock, history>>

(* send_drain: ask the stream to drain once nothing is left in the queue. *)
DrainIsDue(requested, fill) == requested /\ fill = 0 /\ ~drain_sent

CopyOutNeverSplits(count) ==    \* mistake: ignore the end of the queue
    [i \in 1 .. count |-> queue[AtMost(read_pos + i - 1, Capacity - 1)]]

(* What the two memcpys hand to the stream. *)
CopyOut(count) ==
    LET first == AtMost(Capacity - read_pos, count)
    IN  [i \in 1 .. count |-> IF i <= first THEN queue[read_pos + i - 1]
                              ELSE queue[i - 1 - first]]

(* on_process.  The graph asks for n frames; the rate it runs at may not be
   known yet, or be another one; the stream may have no buffer to give. *)
Processing ==
    /\ own.pc # "closed" /\ stream_state = "STREAMING"
    /\ failed = "no" /\ state = "PLAYING" /\ format_ready
    /\ clock' = [clock EXCEPT !.process = 0, !.silent = 0]

RateUnknown ==
    /\ Processing /\ mode = "EXCLUSIVE"
    /\ UNCHANGED <<mode, ready, state, failed, fifo, drain, own, stream, history>>

WrongRate ==
    /\ Processing /\ mode = "EXCLUSIVE"
    /\ Fail("error") /\ Fault
    /\ UNCHANGED <<mode, ready, state, fifo, drain, own, history>>

RateKnown ==
    /\ Processing
    /\ graph_rate_verified' = (graph_rate_verified \/ mode = "EXCLUSIVE")
    /\ UNCHANGED <<mode, stream_state, format_ready, state, own, accepted>>

(* Nothing is left and the end was signalled, or there is no usable buffer. *)
ProcessNothing ==
    /\ RateKnown
    /\ IF drain_requested /\ filled = 0
       THEN /\ drain_sent' = TRUE
            /\ \/ stream' = [stream EXCEPT !.draining = @ \/ ~drain_sent] /\ UNCHANGED failed
               \/ ~drain_sent /\ Fail("error") /\ Fault
       ELSE /\ UNCHANGED drain_sent
            /\ \/ UNCHANGED <<failed, stream>>
               \/ Fail("error") /\ Fault
    /\ UNCHANGED <<fifo, drain_requested, drained, delivered, output>>

(* Take what there is, up to n frames, and queue it, with silence after it
   unless the end was signalled. *)
ProcessFrames(n) ==
    /\ ~(drain_requested /\ filled = 0)
    /\ RateKnown
    /\ LET count == AtMost(n, filled)
           due   == DrainIsDue(drain_requested, filled - count)
       IN  /\ output' = CopyOut(count)
           /\ delivered' = delivered + count
           /\ read_pos' = (read_pos + count) % Capacity
           /\ filled' = filled - count
           /\ \/ /\ drain_sent' = (drain_sent \/ due)
                 /\ stream' = [stream EXCEPT !.queued = @ + count, !.draining = @ \/ due]
                 /\ UNCHANGED failed
              \/ UNCHANGED drain_sent /\ Fail("error") /\ Fault
              \/ /\ due /\ drain_sent' = TRUE
                 /\ Fail("error") /\ FaultAfter(count)
    /\ UNCHANGED <<queue, write_pos, drain_requested, drained>>

(* on_drained *)
OnDrained ==
    /\ own.pc # "closed" /\ stream.draining /\ stream.queued = 0
    /\ stream' = [stream EXCEPT !.draining = FALSE]
    /\ drained' = (drained \/ drain_sent)
    /\ UNCHANGED <<mode, ready, state, failed, fifo, drain_requested, drain_sent, own, clock,
                   history>>

(* The graph plays a frame. *)
Play ==
    /\ stream_state = "STREAMING" /\ stream.queued > 0
    /\ stream' = [stream EXCEPT !.queued = @ - 1]
    /\ UNCHANGED <<mode, ready, state, failed, fifo, drain, own, clock, history>>

(* Time passes, until the output fails. *)
Tick ==
    /\ clock.timed /\ failed = "no"
    /\ clock' = [clock EXCEPT !.process = Older(@),
                              !.silent = IF state = "PLAYING" /\ ~drained THEN Older(@) ELSE 0]
    /\ own' = [own EXCEPT !.waited = IF own.pc = "ready" THEN Older(@) ELSE 0]
    /\ UNCHANGED <<mode, ready, state, failed, fifo, drain, stream, history>>
-----------------------------------------------------------------------------
(* The public functions, on the owner's thread. *)

Owner == own.pc = "idle"

(* check_health *)
Stalled ==
    /\ state = "PLAYING" /\ ~drained /\ (filled > 0 \/ drain_requested)
    /\ clock.process > Timeout

Healthy == failed = "no" /\ ~Stalled

(* check_health fails in write, drain or a query. *)
FoundStalled ==
    /\ Owner /\ failed = "no" /\ Stalled
    /\ failed' = "stalled"
    /\ UNCHANGED <<mode, ready, state, fifo, drain, own, stream, clock, history>>

ActivateStale(op, n) ==    \* mistake: inherit the silence of the pause
    /\ graph_rate_verified' = FALSE
    /\ UNCHANGED clock
    /\ stream' = [stream EXCEPT !.active = TRUE]
    /\ state' = "PLAYING"
    /\ WaitReady(op, n)
    /\ UNCHANGED <<failed, mode, stream_state, format_ready, fifo, history>>

(* activate, up to its wait_ready. *)
Activate(op, n) ==
    /\ graph_rate_verified' = FALSE
    /\ clock' = [clock EXCEPT !.process = 0]
    /\ \/ /\ stream' = [stream EXCEPT !.active = TRUE]
          /\ state' = "PLAYING"
          /\ WaitReady(op, n)
          /\ UNCHANGED failed
       \/ Fail("error") /\ Fault /\ UNCHANGED <<state, own>>
    /\ UNCHANGED <<mode, stream_state, format_ready, fifo, history>>

Start ==
    /\ Owner /\ failed = "no" /\ state # "PLAYING"
    /\ Activate("start", 0)
    /\ UNCHANGED drain

Resume ==
    /\ Owner /\ failed = "no" /\ state = "PAUSED"
    /\ Activate("resume", 0)
    /\ UNCHANGED drain

Pause ==
    /\ Owner /\ failed = "no" /\ state = "PLAYING"
    /\ \/ /\ stream' = [stream EXCEPT !.active = FALSE]
          /\ state' = "PAUSED"
          /\ UNCHANGED failed
       \/ Fail("error") /\ Fault /\ UNCHANGED state
    /\ UNCHANGED <<mode, ready, fifo, drain, own, clock, history>>

(* stop: drop everything, here and in the stream. *)
Stop ==
    /\ Owner
    /\ state' = "STOPPED"
    /\ filled' = 0 /\ read_pos' = 0 /\ write_pos' = 0
    /\ drain_requested' = FALSE /\ drain_sent' = FALSE /\ drained' = FALSE
    /\ \/ /\ stream' = [stream EXCEPT !.active = FALSE, !.queued = 0, !.draining = FALSE]
          /\ UNCHANGED failed
       \/ Fail("error") /\ Fault
    /\ delivered' = accepted
    /\ UNCHANGED <<mode, ready, queue, own, clock, accepted, output>>

(* The two memcpys of a write of n frames. *)
CopyIn(n) ==
    LET first == AtMost(Capacity - write_pos, n)
    IN  [s \in Slots |-> IF s >= write_pos /\ s < write_pos + first
                         THEN accepted + 1 + s - write_pos
                         ELSE IF s < n - first THEN accepted + 1 + first + s
                         ELSE queue[s]]

Room == Capacity - filled

Append(frames) ==
    LET n == AtMost(frames, Room)
    IN  /\ queue' = CopyIn(n)
        /\ write_pos' = (write_pos + n) % Capacity
        /\ filled' = filled + n
        /\ accepted' = accepted + n
        /\ UNCHANGED <<read_pos, delivered, output>>

(* write: frames for a stream that plays... *)
Writable(n) == Owner /\ Healthy /\ state = "PLAYING" /\ n > 0 /\ accepted + n <= MaxFrames

DrainIgnored == TRUE    \* mistake: write behind a drain

NotDraining == ~drain_requested

Write(n) ==
    /\ Writable(n) /\ NotDraining
    /\ Append(n)
    /\ UNCHANGED <<mode, ready, state, failed, drain, own, stream, clock>>

(* ... or that was drained and begins another segment.  Until it is drained,
   write takes nothing. *)
SegmentKeepsSent ==    \* mistake: the next drain looks as if it were sent
    drain_requested' = FALSE /\ drained' = FALSE /\ UNCHANGED drain_sent

Segment == drain_requested' = FALSE /\ drain_sent' = FALSE /\ drained' = FALSE

WriteAnew(n) ==
    /\ Writable(n) /\ drained
    /\ Segment
    /\ Activate("write", n)

Drain ==
    /\ Owner /\ Healthy /\ state = "PLAYING"
    /\ drain_requested' = TRUE
    /\ LET due == DrainIsDue(TRUE, filled)
       IN  /\ drain_sent' = (drain_sent \/ due)
           /\ \/ stream' = [stream EXCEPT !.draining = @ \/ due] /\ UNCHANGED failed
              \/ due /\ Fail("error") /\ Fault
    /\ UNCHANGED <<mode, ready, state, fifo, drained, own, clock, history>>

IsReadyByRate ==    \* mistake: ask for the graph's rate in shared mode too
    IF own.op = "create" THEN stream_state \in {"PAUSED", "STREAMING"}
    ELSE stream_state = "STREAMING" /\ format_ready /\ graph_rate_verified

(* wait_ready *)
IsReady ==
    IF own.op = "create" THEN stream_state \in {"PAUSED", "STREAMING"}
    ELSE /\ stream_state = "STREAMING" /\ format_ready
         /\ mode = "EXCLUSIVE" => graph_rate_verified

Ready ==
    /\ own.pc = "ready" /\ failed = "no" /\ IsReady
    /\ IF own.op = "write" THEN Append(own.frames) ELSE UNCHANGED <<fifo, history>>
    /\ Idle
    /\ UNCHANGED <<mode, ready, state, failed, drain, stream, clock>>

DeadlineNeverPasses == FALSE    \* mistake: wait for a callback only

DeadlinePassed == own.waited >= Timeout

(* create that fails closes what there is. *)
NotReady ==
    /\ own.pc = "ready"
    /\ failed # "no" \/ (~IsReady /\ DeadlinePassed)
    /\ Fail("timeout")
    /\ IF own.op = "create" THEN own' = [own EXCEPT !.pc = "closed"] ELSE Idle
    /\ UNCHANGED <<mode, ready, state, fifo, drain, stream, clock, history>>

(* close: stop the loop's thread, then free everything. *)
Close ==
    /\ Owner
    /\ own' = [own EXCEPT !.pc = "closed"]
    /\ UNCHANGED <<mode, ready, state, failed, fifo, drain, stream, clock, history>>
-----------------------------------------------------------------------------
GraphStep == RateUnknown \/ WrongRate \/ ProcessNothing \/ \E n \in Quanta : ProcessFrames(n)

Waiting == Ready \/ NotReady

OwnerCall ==
    \/ FoundStalled \/ Start \/ Resume \/ Pause \/ Stop \/ Drain \/ Close
    \/ \E n \in 1 .. MaxWrite : Write(n) \/ WriteAnew(n)

Next == Notified \/ GraphStep \/ OnDrained \/ Play \/ Tick \/ Waiting \/ OwnerCall

Spec == Init /\ [][Next]_vars

(* The owner's thread wakes up, the clock advances. *)
FairSpec == Spec /\ WF_vars(Waiting) /\ WF_vars(Tick)

(* A server that serves: it connects the stream, agrees on the format, starts
   what is active, asks for frames, plays them and reports the drain. *)
Serve ==
    \/ (ParamChanged("ours") \/ Streams \/ (stream_state = "CONNECTING" /\ Pauses)) /\ Notified
    \/ ProcessNothing \/ (\E n \in Quanta : ProcessFrames(n)) \/ Play \/ OnDrained

ServerServes == ~clock.timed /\ WF_vars(Serve)
-----------------------------------------------------------------------------
TypeOK ==
    /\ stream_state \in {"ERROR", "UNCONNECTED", "CONNECTING", "PAUSED", "STREAMING"}
    /\ state \in {"STOPPED", "PLAYING", "PAUSED"}
    /\ failed \in {"no", "error", "stalled", "timeout"}
    /\ {format_ready, graph_rate_verified, drain_requested, drain_sent, drained}
          \subseteq BOOLEAN
    /\ queue \in [Slots -> 0 .. MaxFrames]
    /\ filled \in 0 .. Capacity /\ read_pos \in Slots /\ write_pos \in Slots
    /\ own.pc \in {"idle", "ready", "closed"} /\ stream.queued \in 0 .. MaxFrames

Abstract == INSTANCE Fifo

(* What the stream is given is what was written, each frame once and in order,
   across the end of the queue, pauses, drains and the segments after them;
   only a stop drops frames, all the queued ones (lines 181-209, 414-475). *)
ImplementsFifo == Abstract!Spec

(* drain answers 1, which is `drained`, only when every frame written has left
   the queue and was played: neither a write after the end was signalled nor
   the drain of an earlier segment can make it say so (lines 137-149, 450-475,
   512-522; audio_output.h:38-40). *)
DrainedMeansPlayed == drained => filled = 0 /\ stream.queued = 0 /\ delivered = accepted

(* The graph is declared stalled only if it asked for nothing for longer than
   the timeout while we played: pauses, earlier segments and what passed before
   the stream was activated do not count (lines 77-84, 396-403). *)
StallIsReal == failed = "stalled" => clock.silent > Timeout

(* Every call returns, whatever the server does or fails to do: each wait for a
   callback has a deadline (lines 291-303). *)
CallsReturn == clock.timed => (own.pc = "ready" ~> own.pc # "ready")

(* With a server that serves, start, resume and the first write of a segment
   find the stream ready, exclusive mode included, where on_process must run
   for the graph's rate to be known (lines 151-169, 291-303, 396-403). *)
Activates ==
    ServerServes => (own.pc = "ready" ~> own.pc = "idle" \/ failed # "no")

(* With a server that serves, a drain that was asked for ends, segment after
   segment, unless the owner stops or pauses first (lines 137-173, 457-461,
   512-522). *)
DrainEnds ==
    ServerServes
      => (drain_requested ~> drained \/ failed # "no" \/ state # "PLAYING" \/ own.pc = "closed")
=============================================================================
