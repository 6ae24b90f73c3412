----------------------------- MODULE JackOutput -----------------------------
(***************************************************************************)
(* src/audio_output/jack_output.c.  Three parties share one JackOutput:    *)
(*   - the JACK process callback, process(), which may never block and     *)
(*     talks to the rest through atomics only;                             *)
(*   - the owner, the one application thread that calls the public         *)
(*     functions, nearly all of which start with check_health();           *)
(*   - the JACK server, which runs the other callbacks and changes the     *)
(*     graph, the period and the latency.                                  *)
(* An atomic access another party can interfere with is an action of its   *)
(* own.  Atomics are sequentially consistent.  A frame is the number under *)
(* which it was published.  Time is a Tick; a timestamp of the code is     *)
(* represented by its age, and ages beyond Timeout are not told apart.     *)
(***************************************************************************)
EXTENDS Integers

CONSTANTS
    NumChannels,   \* output ports, one per source channel
    Capacity,      \* frames in the queue
    IndexRange,    \* where the unsigned read and write indices wrap around
    Periods,       \* period sizes of the server that fit the queue
    Latencies,     \* playback latencies the server may report
    AutoConnect,   \* connection_mode = JACK_CONNECT_AUTO
    Timeout,       \* timeout_ms, in ticks
    Timed,         \* bound: whether time passes
    Functions,     \* bound: the functions the owner calls
    MaxWrite,      \* bound: frames passed to one write
    MaxFrames,     \* bound: frames published in a behaviour
    MaxChanges     \* bound: links made or broken by others, and faults

ASSUME JackAssumption ==
    /\ NumChannels \in Nat \ {0}
    /\ Capacity \in Nat \ {0}
    /\ IndexRange \in Nat /\ 2 * Capacity < IndexRange
    /\ IndexRange % Capacity = 0
    /\ Periods \subseteq 1 .. Capacity
    /\ Latencies \subseteq Nat
    /\ AutoConnect \in BOOLEAN /\ Timed \in BOOLEAN
    /\ Timeout \in Nat \ {0}
    /\ Functions \subseteq {"start", "stop", "pause", "resume", "write", "drain", "query"}
    /\ MaxWrite \in Nat /\ MaxFrames \in Nat /\ MaxChanges \in Nat

VARIABLES
    queue, read_index, write_index, tail_frames,       \* struct JackOutput
    requested_state, actual_state, fault, active, failed,
    graph_version, graph_seen, connected,
    cyc,      \* process(): pc and locals
    own,      \* the owner's call: function, pc, locals
    net,      \* the JACK server: links to our ports, pending notifications, ...
    clock,    \* the watchdog's timestamps, as ages
    accepted, delivered, output,   \* history: frames published, heard, last period
    downstream                     \* history: frames until all copied ones are heard

atomics == <<tail_frames, actual_state, fault, active, graph_version>>
history == <<accepted, delivered, output, downstream>>
fifo    == <<queue, read_index, write_index>>
refresh == <<graph_seen, connected>>
request == <<requested_state, failed>>
vars    == <<fifo, atomics, refresh, request, cyc, own, net, clock, history>>

Channels == 0 .. NumChannels - 1
Slots    == 0 .. Capacity - 1
Never    == -1    \* disconnected_ns = 0; for progress: cycles # last_cycles

Least(a, b) == IF a < b THEN a ELSE b
Monus(a, b) == IF a > b THEN a - b ELSE 0
Older(age)  == IF age = Never \/ age > Timeout THEN age ELSE age + 1

(* As a plausible mistake would leave them: indices kept masked, so that a full
   queue looks empty; a queue filled beyond its last slot. *)
IndexAddMasked(i, n) == (i + n) % Capacity
FreeSpaceOffByOne    == Capacity + 1 - ((write_index - read_index) % IndexRange)

(* Unsigned arithmetic on the indices; the slot an index is masked to. *)
IndexAdd(i, n) == (i + n) % IndexRange
Queued         == (write_index - read_index) % IndexRange
FreeSpace      == Capacity - Queued
SlotOf(i)      == i % Capacity
Region(i, n)   == {SlotOf(IndexAdd(i, k)) : k \in 0 .. n - 1}

(* all_connected: the snapshot is of this graph and misses no channel. *)
AllConnected == graph_seen = graph_version /\ connected = Channels

NoCall == [pc |-> "idle", op |-> "none", waiting |-> FALSE, version |-> 0,
           mask |-> {}, count |-> 0, waited |-> 0]

Init ==
    /\ queue = [s \in Slots |-> 0] /\ read_index = 0 /\ write_index = 0
    /\ tail_frames = 0
    /\ requested_state = "STOPPED" /\ actual_state = "STOPPED"
    /\ fault = FALSE /\ active = FALSE /\ failed = "no"
    /\ graph_version = 1 /\ graph_seen = 0 /\ connected = {}
    /\ cyc = [pc |-> "idle", state |-> "STOPPED", frames |-> 0, version |-> 0,
              read |-> 0, count |-> 0]
    /\ own = NoCall
    /\ net \in [links : {{}}, unnotified : {0}, changes : {0}, latency : Latencies,
                period : {p \in Periods : 2 * p <= Capacity}]
    /\ clock = [progress |-> Timeout + 1, disconnected |-> Never, silent |-> 0]
    /\ accepted = 0 /\ delivered = 0 /\ output = [i \in 1 .. 0 |-> 0]
    /\ downstream = 0
-----------------------------------------------------------------------------
(* The process callback, from jack_activate to jack_client_close. *)

CycleGoTo(label) == cyc' = [cyc EXCEPT !.pc = label]

(* Load requested_state, count the cycle, clear the port buffers and look for
   a fault.  A missing buffer faults the cycle: RecordFault just before it. *)
CycleBegin ==
    /\ active /\ own.pc # "closed"
    /\ cyc.pc = "idle"
    /\ cyc' = [cyc EXCEPT !.state = requested_state, !.frames = net.period,
                          !.pc = IF requested_state = "PLAYING" /\ ~fault
                                 THEN "version" ELSE "tail"]
    /\ clock' = IF Timed /\ failed = "no"
                THEN [clock EXCEPT !.progress = Never, !.silent = 0] ELSE clock
    /\ downstream' = Monus(downstream, cyc.frames)
    /\ UNCHANGED <<fifo, atomics, refresh, request, own, net, accepted, delivered, output>>

(* The four loads of all_connected. *)
GateVersion ==
    /\ cyc.pc = "version"
    /\ cyc' = [cyc EXCEPT !.version = graph_version, !.pc = "seen"]

(* Mistake: trust the last scan, however old it is. *)
GateSeenTrusting == cyc.pc = "seen" /\ CycleGoTo("mask")

GateSeen ==
    /\ cyc.pc = "seen"
    /\ CycleGoTo(IF graph_seen = cyc.version THEN "mask" ELSE "tail")

GateMask ==
    /\ cyc.pc = "mask"
    /\ CycleGoTo(IF connected = Channels THEN "recheck" ELSE "tail")

GateRecheck ==
    /\ cyc.pc = "recheck"
    /\ CycleGoTo(IF graph_version = cyc.version THEN "load" ELSE "tail")

(* Mistake: leave a last short period in the queue. *)
CycleLoadFullPeriods ==
    /\ cyc.pc = "load"
    /\ LET count == IF Queued < cyc.frames THEN 0 ELSE cyc.frames
       IN  cyc' = [cyc EXCEPT !.read = read_index, !.count = count,
                              !.pc = IF count > 0 THEN "copy" ELSE "tail"]

(* How many queued frames this period takes. *)
CycleLoad ==
    /\ cyc.pc = "load"
    /\ LET count == Least(Queued, cyc.frames)
       IN  cyc' = [cyc EXCEPT !.read = read_index, !.count = count,
                              !.pc = IF count > 0 THEN "copy" ELSE "tail"]

(* Deinterleave them into the ports.  From here the last of them needs `count`
   frames of this period and the downstream latency to be heard. *)
CycleCopy ==
    /\ cyc.pc = "copy"
    /\ output' = [i \in 1 .. cyc.count |-> queue[SlotOf(IndexAdd(cyc.read, i - 1))]]
    /\ delivered' = delivered + cyc.count
    /\ downstream' = cyc.count + net.latency
    /\ CycleGoTo("tail")
    /\ UNCHANGED <<tail_frames, read_index, actual_state>>

(* Mistake: the tail covers this period and not what is downstream of it. *)
NewTailNoLatency ==
    IF cyc.state = "STOPPED" THEN 0
    ELSE IF cyc.count > 0 THEN cyc.frames
    ELSE Monus(tail_frames, cyc.frames)

NewTail ==
    IF cyc.state = "STOPPED" THEN 0
    ELSE IF cyc.count > 0 THEN cyc.frames + net.latency
    ELSE Monus(tail_frames, cyc.frames)

CycleTail ==
    /\ cyc.pc = "tail"
    /\ tail_frames' = NewTail
    /\ CycleGoTo("retire")
    /\ UNCHANGED <<read_index, actual_state, delivered, output, downstream>>

(* Only now do the frames leave the queue. *)
CycleRetire ==
    /\ cyc.pc = "retire"
    /\ read_index' = IF cyc.count > 0 THEN IndexAdd(cyc.read, cyc.count) ELSE read_index
    /\ CycleGoTo("ack")
    /\ UNCHANGED <<tail_frames, actual_state, delivered, output, downstream>>

CycleAck ==
    /\ cyc.pc = "ack"
    /\ actual_state' = cyc.state
    /\ cyc' = [cyc EXCEPT !.pc = "idle", !.state = "STOPPED", !.version = 0,
                          !.read = 0, !.count = 0]
    /\ UNCHANGED <<tail_frames, read_index, delivered, output, downstream>>

CycleProbe ==
    /\ GateVersion \/ GateSeen \/ GateMask \/ GateRecheck \/ CycleLoad
    /\ UNCHANGED <<fifo, atomics, refresh, request, own, net, clock, history>>

CycleEffect ==
    /\ CycleCopy \/ CycleTail \/ CycleRetire \/ CycleAck
    /\ UNCHANGED <<queue, write_index, fault, active, graph_version, refresh, request,
                   own, net, clock, accepted>>

ProcessStep == CycleBegin \/ CycleProbe \/ CycleEffect
-----------------------------------------------------------------------------
(* The JACK server.  A connection changes first and is notified later; period
   and latency change between cycles. *)

(* Somebody connects or disconnects one of our ports. *)
Relink(ch) ==
    /\ active /\ own.pc \notin {"connect", "closed"}
    /\ net.changes < MaxChanges
    /\ net' = [net EXCEPT !.changes = @ + 1, !.unnotified = @ + 1,
                          !.links = IF ch \in @ THEN @ \ {ch} ELSE @ \union {ch}]
    /\ UNCHANGED <<fifo, atomics, refresh, request, cyc, own, clock, history>>

(* on_port_connect *)
PortConnect ==
    /\ net.unnotified > 0
    /\ net' = [net EXCEPT !.unnotified = @ - 1]
    /\ graph_version' = graph_version + 1
    /\ UNCHANGED <<fifo, tail_frames, actual_state, fault, active, refresh, request, cyc,
                   own, clock, history>>

(* on_buffer_size with a period the queue can hold, on_latency with a latency
   that can be represented. *)
Retune(frames, max) ==
    /\ active /\ cyc.pc = "idle"
    /\ net' = [net EXCEPT !.period = frames, !.latency = max]
    /\ UNCHANGED <<fifo, atomics, refresh, request, cyc, own, clock, history>>

(* on_shutdown, and on_sample_rate, on_buffer_size and on_latency with a value
   the output cannot follow: record_fault. *)
RecordFault ==
    /\ net.changes < MaxChanges
    /\ net' = [net EXCEPT !.changes = @ + 1]
    /\ fault' = TRUE
    /\ UNCHANGED <<fifo, tail_frames, actual_state, active, graph_version, refresh, request,
                   cyc, own, clock, history>>

(* Time passes, until the output fails.  `silent` is how long no cycle has begun
   since the last request. *)
Tick ==
    /\ Timed /\ failed = "no"
    /\ clock' = [progress |-> Older(clock.progress),
                 disconnected |-> Older(clock.disconnected),
                 silent |-> IF clock.progress = Never THEN clock.silent
                            ELSE Older(clock.silent)]
    /\ own' = [own EXCEPT !.waited = IF own.waiting THEN Older(@) ELSE @]
    /\ UNCHANGED <<fifo, atomics, refresh, request, cyc, net, history>>

ServerStep ==
    \/ \E ch \in Channels : Relink(ch)
    \/ PortConnect
    \/ \E frames \in Periods, max \in Latencies : Retune(frames, max)
    \/ RecordFault
-----------------------------------------------------------------------------
(* The owner's thread. *)

GoTo(label) == own' = [own EXCEPT !.pc = label] /\ UNCHANGED request

Return == own' = NoCall /\ UNCHANGED request

(* fail(): note the first reason, ask the callback to stop, return -1. *)
Fail(reason) ==
    /\ failed' = reason
    /\ requested_state' = "STOPPED"
    /\ own' = NoCall

Call(f) ==
    /\ own.pc = "idle"
    /\ own' = [own EXCEPT !.pc = "health", !.op = f]
    /\ UNCHANGED request

(* check_health: a failed output stays failed, a fault fails it. *)
HealthBroken ==
    /\ own.pc = "health"
    /\ \/ failed # "no" /\ Return
       \/ failed = "no" /\ fault /\ Fail("fault")

(* refresh_connections: rescan if the graph moved since the last scan, the
   version first, then jack_port_connected of one port after the other. *)
HealthGraph ==
    /\ own.pc = "health"
    /\ failed = "no" /\ ~fault
    /\ \/ graph_version = graph_seen /\ GoTo("watch")
       \/ /\ graph_version # graph_seen
          /\ own' = [own EXCEPT !.pc = "scan", !.version = graph_version, !.mask = {}]
          /\ UNCHANGED request

ScanPort ==
    /\ own.pc = "scan"
    /\ LET next == own.count + 1
       IN  own' = [own EXCEPT !.mask = @ \union (net.links \intersect {own.count}),
                              !.pc = IF next < NumChannels THEN "scan" ELSE "mask",
                              !.count = IF next < NumChannels THEN next ELSE 0]
    /\ UNCHANGED request

StoreMask ==
    /\ own.pc = "mask"
    /\ connected' = own.mask /\ UNCHANGED graph_seen
    /\ GoTo("seen")

(* Mistake: vouch for the version of now, not for the one scanned. *)
StoreSeenCurrent ==
    /\ own.pc = "seen"
    /\ graph_seen' = graph_version /\ UNCHANGED connected
    /\ GoTo("watch")

StoreSeen ==
    /\ own.pc = "seen"
    /\ graph_seen' = own.version /\ UNCHANGED connected
    /\ GoTo("watch")

(* The watchdog: has process() run since the last look, and, if we play to
   automatic connections, since when is a channel known to be unconnected? *)
Watchdog ==
    /\ own.pc = "watch"
    /\ LET progress == IF clock.progress = Never THEN 0 ELSE clock.progress
           playing  == active /\ requested_state = "PLAYING"
           stalled  == playing /\ progress > Timeout
           unrouted == AutoConnect /\ ~AllConnected
           since    == IF clock.disconnected = Never THEN 0 ELSE clock.disconnected
       IN  /\ clock' = [clock EXCEPT
                !.progress = progress,
                !.disconnected = IF ~playing \/ stalled THEN @
                                 ELSE IF unrouted THEN since ELSE Never]
           /\ IF stalled THEN Fail("stalled")
              ELSE IF playing /\ unrouted /\ since > Timeout THEN Fail("disconnected")
              ELSE GoTo(IF own.waiting THEN "await" ELSE "body")

(* change_state: publish the request, then poll its acknowledgement under a
   deadline, with a health check each time round. *)
Target == CASE own.op \in {"start", "resume"} -> "PLAYING"
            [] own.op = "pause" -> "PAUSED"
            [] OTHER -> "STOPPED"

(* Mistake: let a request inherit the silence before it. *)
InheritedProgress == clock.progress

(* A request starts the watchdog afresh. *)
FreshProgress == 0

RequestState ==
    /\ own.pc = "request"
    /\ requested_state' = Target /\ UNCHANGED failed
    /\ clock' = [clock EXCEPT !.progress = FreshProgress, !.silent = 0]
    /\ own' = [own EXCEPT !.pc = "health", !.waiting = TRUE, !.waited = 0]

(* Mistakes: take the request for its acknowledgement; wait without a deadline. *)
RequestedIsEnough ==
    /\ requested_state = Target
    /\ Target = "PLAYING" => ~AutoConnect \/ AllConnected

Acknowledged ==
    /\ actual_state = Target
    /\ Target = "PLAYING" => ~AutoConnect \/ AllConnected

AwaitStateForever ==
    /\ own.pc = "await"
    /\ \/ Acknowledged /\ IF own.op = "stop" THEN GoTo("clear") ELSE Return
       \/ ~Acknowledged /\ GoTo("health")

AwaitState ==
    /\ own.pc = "await"
    /\ \/ Acknowledged /\ IF own.op = "stop" THEN GoTo("clear") ELSE Return
       \/ ~Acknowledged /\ own.waited < Timeout /\ GoTo("health")
       \/ ~Acknowledged /\ own.waited >= Timeout /\ Fail("unacknowledged")

(* What each function does once check_health let it pass. *)
Start ==
    /\ own.pc = "body" /\ own.op = "start"
    /\ IF requested_state = "PLAYING" THEN Return
       ELSE GoTo(IF active THEN "request" ELSE "activate")

(* jack_activate, which may fail. *)
Activate(works) ==
    /\ own.pc = "activate"
    /\ active' = works
    /\ IF works THEN GoTo("connect") ELSE Fail("setup")
    /\ UNCHANGED <<graph_version, net>>

(* Connect every port in automatic mode, which may fail half-way; the version
   step makes sure that the next health check scans the ports. *)
ConnectPorts(made) ==
    /\ own.pc = "connect"
    /\ net' = IF AutoConnect /\ made # {}
              THEN [net EXCEPT !.links = made, !.unnotified = @ + 1] ELSE net
    /\ IF AutoConnect /\ made # Channels
       THEN Fail("setup") /\ UNCHANGED graph_version
       ELSE GoTo("request") /\ graph_version' = graph_version + 1
    /\ UNCHANGED active

Stop ==
    /\ own.pc = "body" /\ own.op = "stop"
    /\ GoTo(IF active THEN "request" ELSE "clear")

(* The callback has acknowledged STOPPED: drop the queue and the tail.  What is
   downstream is given up too: no later drain waits for it. *)
ClearQueue ==
    /\ own.pc = "clear"
    /\ read_index' = 0 /\ write_index' = 0 /\ tail_frames' = 0
    /\ clock' = [clock EXCEPT !.disconnected = Never]
    /\ delivered' = accepted /\ downstream' = 0
    /\ Return
    /\ UNCHANGED <<queue, accepted>>

PauseOrResume ==
    /\ own.pc = "body" /\ own.op \in {"pause", "resume"}
    /\ IF requested_state = (IF own.op = "pause" THEN "PLAYING" ELSE "PAUSED")
       THEN GoTo("request") ELSE Return

(* Take as many of n frames as fit... *)
Write(n) ==
    /\ own.pc = "body" /\ own.op = "write"
    /\ accepted + n <= MaxFrames
    /\ LET fits == Least(n, FreeSpace)
       IN  IF requested_state # "PLAYING" THEN Return
           ELSE IF fits = 0 THEN Return
           ELSE own' = [own EXCEPT !.pc = "copy", !.count = fits] /\ UNCHANGED request

(* ... convert them into the slots after write_index... *)
WriteCopy ==
    /\ own.pc = "copy"
    /\ queue' = [s \in Slots |->
                    IF s \in Region(write_index, own.count)
                    THEN accepted + 1 + ((s - write_index) % Capacity)
                    ELSE queue[s]]
    /\ GoTo("publish")
    /\ UNCHANGED <<read_index, write_index, tail_frames, clock, accepted, delivered, downstream>>

(* ... and publish them. *)
WritePublish ==
    /\ own.pc = "publish"
    /\ write_index' = IndexAdd(write_index, own.count)
    /\ accepted' = accepted + own.count
    /\ Return
    /\ UNCHANGED <<queue, read_index, tail_frames, clock, delivered, downstream>>

(* drain: load the queue, then the tail; done when both are empty. *)
DrainQueue ==
    /\ own.pc = "body" /\ own.op = "drain"
    /\ own' = [own EXCEPT !.pc = "drain", !.count = Queued]
    /\ UNCHANGED request

DrainAnswer ==
    IF requested_state # "PLAYING" THEN -1
    ELSE IF AutoConnect /\ ~AllConnected THEN 0
    ELSE IF own.count + tail_frames = 0 THEN 1 ELSE 0

DrainTail ==
    /\ own.pc = "drain"
    /\ Return

(* get_state, get_available_frames, get_queued_frames, get_error and the name
   getters: a health check and a look. *)
Query ==
    /\ own.pc = "body" /\ own.op = "query"
    /\ Return

(* close: no health check; jack_client_close waits for a running callback. *)
Close ==
    /\ own.pc = "idle"
    /\ requested_state' = "STOPPED" /\ UNCHANGED failed
    /\ own' = [own EXCEPT !.pc = "joining"]

CloseClient ==
    /\ own.pc = "joining"
    /\ cyc.pc = "idle"
    /\ GoTo("closed")

OwnerControl ==
    /\ \/ HealthBroken \/ HealthGraph \/ ScanPort \/ AwaitState
       \/ Start \/ Stop \/ PauseOrResume
       \/ \E n \in 0 .. MaxWrite : Write(n)
       \/ DrainQueue \/ DrainTail \/ Query \/ CloseClient
    /\ UNCHANGED <<fifo, atomics, refresh, cyc, net, clock, history>>

OwnerRefresh ==
    /\ StoreMask \/ StoreSeen
    /\ UNCHANGED <<fifo, atomics, cyc, net, clock, history>>

OwnerWatch ==
    /\ Watchdog \/ RequestState
    /\ UNCHANGED <<fifo, atomics, refresh, cyc, net, history>>

OwnerSetup ==
    /\ \/ \E works \in BOOLEAN : Activate(works)
       \/ \E made \in SUBSET Channels : ConnectPorts(made)
    /\ UNCHANGED <<fifo, tail_frames, actual_state, fault, refresh, cyc, clock, history>>

OwnerQueue ==
    /\ ClearQueue \/ WriteCopy \/ WritePublish
    /\ UNCHANGED <<actual_state, fault, active, graph_version, refresh, cyc, net, output>>

OwnerStep == OwnerControl \/ OwnerRefresh \/ OwnerWatch \/ OwnerSetup \/ OwnerQueue

OwnerCall ==
    /\ Close \/ \E f \in Functions : Call(f)
    /\ UNCHANGED <<fifo, atomics, refresh, cyc, net, clock, history>>

Next == ProcessStep \/ ServerStep \/ Tick \/ OwnerStep \/ OwnerCall

Spec == Init /\ [][Next]_vars

(* The owner's thread runs and keeps calling, as the player's loop does (strong
   fairness: jack_client_close returns although cycles go on until it has joined
   the callback); a cycle that has begun ends; the clock advances.  The server
   owes nothing: no cycle need begin, no notification arrive. *)
Fairness ==
    /\ SF_vars(OwnerStep) /\ WF_vars(OwnerCall)
    /\ WF_vars(CycleProbe \/ CycleEffect)
    /\ WF_vars(Tick)

FairSpec == Spec /\ Fairness
-----------------------------------------------------------------------------
TypeOK ==
    /\ queue \in [Slots -> 0 .. MaxFrames]
    /\ read_index \in 0 .. IndexRange - 1 /\ write_index \in 0 .. IndexRange - 1
    /\ Queued <= Capacity
    /\ tail_frames \in Nat
    /\ {requested_state, actual_state} \subseteq {"STOPPED", "PLAYING", "PAUSED"}
    /\ fault \in BOOLEAN /\ active \in BOOLEAN
    /\ failed \in {"no", "fault", "stalled", "disconnected", "unacknowledged", "setup"}
    /\ graph_seen \in 0 .. graph_version /\ connected \subseteq Channels

(* The callback and a write never touch the same slot at the same time: plain
   floats are shared without a lock (lines 151-158, 447-451). *)
NoDataRace ==
    own.pc = "copy" /\ cyc.pc = "copy"
        => Region(write_index, own.count) \intersect Region(cyc.read, cyc.count) = {}

Abstract == INSTANCE Fifo

(* What reaches the ports is what was written, each frame once and in order,
   across index wrap-around, pauses and lost routes; only a stop drops frames,
   all the queued ones (lines 134-173, 397-406, 437-454). *)
ImplementsFifo == Abstract!Spec

(* Once a call has returned, the callback has seen its request: no cycle under
   way still runs under an earlier state, so pause holds the queue and stop
   resets indices nobody uses (lines 361-373, 400-403). *)
Settled ==
    failed = "no" /\ (own.pc = "idle" \/ own.pc = "clear")
        => /\ actual_state = requested_state
           /\ cyc.pc # "idle" => cyc.state = requested_state

(* A snapshot that claims to be current is what the graph looks like, unless a
   change is still to be notified (lines 101-105, 181-191). *)
SnapshotAccurate ==
    graph_seen = graph_version /\ net.unnotified = 0 => connected = net.links

(* Frames go to the ports only while every channel has a destination, unless
   the change came, or is to be notified, after this cycle looked at the graph
   (lines 126-132, 145-147). *)
PlaysOnlyRouted ==
    /\ cyc.pc \in {"load", "copy"}
    /\ graph_version = cyc.version /\ net.unnotified = 0
    => net.links = Channels

(* drain answers 1 only when the last frame written has left the queue and was
   heard downstream (lines 167-170, 465-477; audio_output.h:38-40). *)
DrainMeansHeard ==
    own.pc = "drain" /\ DrainAnswer = 1 => accepted = delivered /\ downstream = 0

(* The output is declared stalled only if process() was silent for longer than
   the timeout (lines 211-221, 361-363). *)
StallIsReal == failed = "stalled" => clock.silent > Timeout

(* No call blocks for ever, even if the server never runs another cycle: every
   wait is bounded by the timeout (lines 365-372). *)
CallsReturn ==
    own.pc \notin {"idle", "closed"} ~> own.pc \in {"idle", "closed"}

(* A frame accepted while playing is heard, be it the last one of a short
   period, unless the owner or the watchdog ended playing or a port lost its
   link: after a graph change the handshake opens again (lines 126-173,
   181-191, 193-229). *)
FramesKeepMoving ==
    \A k \in 1 .. MaxFrames :
        accepted >= k ~> \/ delivered >= k
                         \/ requested_state # "PLAYING" \/ net.links # Channels
=============================================================================
