-------------------------- MODULE JackOutputProofs --------------------------
(***************************************************************************)
(* Theorems about JackOutput for every number of channels, capacity,       *)
(* index range, period, latency and time limit that JackAssumption allows. *)
(*                                                                         *)
(* JackInv, the inductive invariant, has three parts, proved one after the *)
(* other because each needs the ones before it:                            *)
(*   Types      what every variable ranges over;                           *)
(*   Control    how far the handshake between a request of the owner and   *)
(*              the acknowledgement of a cycle has got;                    *)
(*   Queueing   where the frames of the queue lie, what the cycle and the  *)
(*              write under way hold of it.                                *)
(* It implies TypeOK, Settled and NoDataRace, and under it every step is a *)
(* step of Fifo or leaves Fifo's variables unchanged.  Four invariants are *)
(* inductive on top of it:                                                 *)
(*   Routing    what scans, snapshots and cycles know of the graph;        *)
(*   Watching   how the ages of the watchdog relate to the silence;        *)
(*   Asked      which functions reach a request;                           *)
(*   Owed       what the tail covers of the frames that were copied and    *)
(*              are not heard yet, as the server changes its period.       *)
(***************************************************************************)
EXTENDS JackOutput, TLAPS

-----------------------------------------------------------------------------
(* Types: what each variable ranges over. *)
States == {"STOPPED", "PLAYING", "PAUSED"}

(* The labels of the owner's calls, of a cycle, and why the output failed. *)
OwnerPcs == {"idle", "health", "scan", "mask", "seen", "watch", "request", "await", "body",
             "activate", "connect", "clear", "copy", "publish", "drain", "joining", "closed"}

CyclePcs == {"idle", "version", "seen", "mask", "recheck", "load", "copy", "tail", "retire",
             "ack"}

Reasons == {"no", "fault", "stalled", "disconnected", "unacknowledged", "setup"}

(* read_index and write_index are counters that wrap at IndexRange. *)
Indices == 0 .. IndexRange - 1

(* A call of the owner, a cycle of the callback, the server's graph, the clocks. *)
Calls  == [pc : OwnerPcs, op : Functions \union {"none"}, waiting : BOOLEAN, version : Nat,
           mask : SUBSET Channels, count : Int, waited : Nat]
Cycles == [pc : CyclePcs, state : States, frames : Nat, version : Nat, read : Indices,
           count : Nat]
Nets   == [links : SUBSET Channels, unnotified : Nat, changes : Nat, latency : Nat,
           period : Periods]
Clocks == [progress : Int, disconnected : Int, silent : Int]

(* The types of the variables, by the part of the program that owns them. *)
OwnType   == own \in Calls
CycType   == cyc \in Cycles
NetType   == net \in Nets
ClockType == clock \in Clocks

StateType ==
    /\ requested_state \in States /\ actual_state \in States
    /\ failed \in Reasons
    /\ fault \in BOOLEAN /\ active \in BOOLEAN

GraphType ==
    /\ graph_version \in Nat /\ graph_seen \in 0 .. graph_version
    /\ connected \in SUBSET Channels
    /\ own.version <= graph_version

QueueType ==
    /\ read_index \in Indices /\ write_index \in Indices /\ tail_frames \in Nat
    /\ accepted \in Int /\ delivered \in Int

Types == OwnType /\ CycType /\ NetType /\ ClockType /\ StateType /\ GraphType /\ QueueType

(* What JackAssumption says of the constants, in the form the proofs use. *)
LEMMA Constants ==
    /\ NumChannels \in Nat \ {0} /\ Capacity \in Nat \ {0} /\ IndexRange \in Nat \ {0}
    /\ 2 * Capacity < IndexRange
    /\ Periods \subseteq 1 .. Capacity /\ Latencies \subseteq Nat /\ Timeout \in Nat \ {0}
    /\ Periods \subseteq Nat
    /\ MaxWrite \in Nat /\ MaxFrames \in Nat
BY JackAssumption

(* An index moved on by any number of frames is an index. *)
LEMMA IndexAddType ==
    ASSUME NEW i \in Int, NEW n \in Int PROVE IndexAdd(i, n) \in Indices
BY Constants DEF IndexAdd, Indices

(* The difference of the two indices is a number of frames below IndexRange. *)
LEMMA QueuedType ==
    ASSUME QueueType PROVE Queued \in Indices /\ Queued \in Nat /\ FreeSpace \in Int
BY Constants DEF QueueType, Queued, FreeSpace, Indices

(* An owner between two calls holds a record of the type of calls. *)
LEMMA NoCallType == NoCall \in Calls
BY DEF NoCall, Calls, OwnerPcs

(* The variables of a new output have their types. *)
LEMMA InitTypes == Init => Types
<1> SUFFICES ASSUME Init PROVE Types
  OBVIOUS
<1>1. OwnType
  BY NoCallType DEF Init, OwnType, Calls
<1>2. CycType
  BY Constants DEF Init, CycType, Cycles, CyclePcs, States, Indices
<1>3. NetType
  <2>1. PICK l \in Latencies, p \in {q \in Periods : 2 * q <= Capacity} :
          net = [links |-> {}, unnotified |-> 0, changes |-> 0, latency |-> l, period |-> p]
    BY DEF Init
  <2>2. {} \in SUBSET Channels /\ l \in Nat /\ p \in Periods
    BY Constants
  <2> QED
    BY <2>1, <2>2 DEF NetType, Nets
<1>4. ClockType
  BY Constants DEF Init, ClockType, Clocks, Never
<1>5. StateType
  BY DEF Init, StateType, States, Reasons
<1>6. GraphType
  BY DEF Init, GraphType, NoCall
<1>7. QueueType
  BY Constants DEF Init, QueueType, Indices
<1> QED
  BY <1>1, <1>2, <1>3, <1>4, <1>5, <1>6, <1>7 DEF Types

(* A step of the process callback keeps the types: indices wrap, the tail and
   the count a cycle holds are natural numbers. *)
LEMMA ProcessTypes == Types /\ ProcessStep => Types'
<1> SUFFICES ASSUME Types, ProcessStep PROVE Types'
  OBVIOUS
<1> USE DEF Types
<1>1. CASE CycleBegin
  <2>1. CycType'
    BY <1>1, Constants DEF CycleBegin, CycType, Cycles, CyclePcs, NetType, Nets, StateType
  <2>2. ClockType'
    <3>1. [clock EXCEPT !.progress = Never, !.silent = 0]
            \in Clocks
      <4>1. \A a, b \in Int : [clock EXCEPT !.progress = a, !.silent = b]
 \in Clocks
        BY DEF ClockType, Clocks
      <4>2. Never \in Int /\ 0 \in Int
        BY DEF Never
      <4> QED
        BY <4>1, <4>2, Zenon
    <3> QED
      BY <1>1, <3>1 DEF CycleBegin, ClockType, Clocks
  <2> QED
    BY <1>1, <2>1, <2>2 DEF CycleBegin, fifo, atomics, refresh, request,
       OwnType, Calls, NetType, Nets, StateType, GraphType, QueueType
<1>2. CASE CycleProbe
  <2>1. CycType'
    <3>1. CASE GateVersion
      BY <3>1 DEF GateVersion, CycType, Cycles, CyclePcs, GraphType
    <3>2. CASE GateSeen \/ GateMask \/ GateRecheck
      BY <3>2 DEF GateSeen, GateMask, GateRecheck, CycleGoTo, CycType, Cycles, CyclePcs
    <3>3. CASE CycleLoad
      <4>1. Least(Queued, cyc.frames) \in Nat
        BY QueuedType DEF Least, CycType, Cycles
      <4> QED
        BY <3>3, <4>1 DEF CycleLoad, CycType, Cycles, CyclePcs, QueueType
    <3> QED
      BY <1>2, <3>1, <3>2, <3>3 DEF CycleProbe
  <2> QED
    BY <1>2, <2>1 DEF CycleProbe, fifo, atomics, refresh, request, history,
       OwnType, Calls, NetType, Nets, ClockType, Clocks, StateType, GraphType, QueueType
<1>3. CASE CycleEffect
  <2>1. CycType'
    <3>1. CASE CycleCopy \/ CycleTail \/ CycleRetire
      BY <3>1 DEF CycleCopy, CycleTail, CycleRetire, CycleGoTo, CycType, Cycles, CyclePcs
    <3>2. CASE CycleAck
      <4>1. \A p \in CyclePcs, s \in States, v \in Nat, r \in Indices, c \in Nat :
               [cyc EXCEPT !.pc = p, !.state = s, !.version = v, !.read = r, !.count = c]
                 \in Cycles
        BY DEF CycType, Cycles
      <4>2. "idle" \in CyclePcs /\ "STOPPED" \in States /\ 0 \in Nat /\ 0 \in Indices
        BY Constants DEF CyclePcs, States, Indices
      <4>3. cyc' = [cyc EXCEPT !.pc = "idle", !.state = "STOPPED", !.version = 0,
                               !.read = 0, !.count = 0]
        BY <3>2 DEF CycleAck
      <4> QED
        BY <4>1, <4>2, <4>3, Zenon DEF CycType, Cycles
    <3> QED
      BY <1>3, <3>1, <3>2 DEF CycleEffect
  <2>2. /\ read_index' \in Indices /\ tail_frames' \in Nat /\ delivered' \in Int
        /\ actual_state' \in States
    <3>1. CASE CycleCopy
      BY <1>3, <3>1 DEF CycleCopy, QueueType, CycType, Cycles, StateType
    <3>2. CASE CycleTail
      <4>1. NewTail \in Nat
        BY DEF NewTail, Monus, CycType, Cycles, NetType, Nets, QueueType
      <4> QED
        BY <3>2, <4>1 DEF CycleTail, QueueType, StateType
    <3>3. CASE CycleRetire
      <4>1. IndexAdd(cyc.read, cyc.count) \in Indices
        BY IndexAddType DEF CycType, Cycles, Indices
      <4> QED
        BY <3>3, <4>1 DEF CycleRetire, QueueType, StateType
    <3>4. CASE CycleAck
      BY <3>4 DEF CycleAck, QueueType, StateType, CycType, Cycles
    <3> QED
      BY <1>3, <3>1, <3>2, <3>3, <3>4 DEF CycleEffect
  <2> QED
    BY <1>3, <2>1, <2>2 DEF CycleEffect, refresh, request,
       OwnType, Calls, NetType, Nets, ClockType, Clocks, StateType, GraphType, QueueType
<1> QED
  BY <1>1, <1>2, <1>3 DEF ProcessStep

(* What the JACK server does, and the passing of time, keeps the types. *)
LEMMA ServerTypes == Types /\ (ServerStep \/ Tick) => Types'
<1> SUFFICES ASSUME Types, ServerStep \/ Tick PROVE Types'
  OBVIOUS
<1> USE DEF Types
<1>1. ASSUME NEW ch \in Channels, Relink(ch) PROVE Types'
  <2>1. NetType'
    <3> DEFINE links == IF ch \in net.links THEN net.links \ {ch} ELSE net.links \union {ch}
    <3>1. links \in SUBSET Channels
      BY <1>1 DEF NetType, Nets
    <3>2. net' = [net EXCEPT !.changes = net.changes + 1, !.unnotified = net.unnotified + 1,
                             !.links = links]
      BY <1>1 DEF Relink
    <3>3. \A c \in Nat, u \in Nat, l \in SUBSET Channels :
            [net EXCEPT !.changes = c, !.unnotified = u, !.links = l]
              \in Nets
      BY DEF NetType, Nets
    <3>4. net.changes + 1 \in Nat /\ net.unnotified + 1 \in Nat
      BY DEF NetType, Nets
    <3> HIDE DEF links
    <3> QED
      BY <3>1, <3>2, <3>3, <3>4, Zenon DEF NetType, Nets
  <2> QED
    BY <1>1, <2>1 DEF Relink, fifo, atomics, refresh, request, history,
       OwnType, Calls, CycType, Cycles, ClockType, Clocks, StateType, GraphType, QueueType
<1>2. CASE PortConnect
  <2>1. NetType'
    BY <1>2 DEF PortConnect, NetType, Nets
  <2>2. GraphType'
    BY <1>2 DEF PortConnect, GraphType, refresh, OwnType, Calls
  <2> QED
    BY <1>2, <2>1, <2>2 DEF PortConnect, fifo, refresh, request, history,
       OwnType, Calls, CycType, Cycles, ClockType, Clocks, StateType, QueueType
<1>3. ASSUME NEW frames \in Periods, NEW max \in Latencies, Retune(frames, max) PROVE Types'
  <2>1. NetType'
    BY <1>3, Constants DEF Retune, NetType, Nets
  <2> QED
    BY <1>3, <2>1 DEF Retune, fifo, atomics, refresh, request, history,
       OwnType, Calls, CycType, Cycles, ClockType, Clocks, StateType, GraphType, QueueType
<1>4. CASE RecordFault
  <2>1. NetType'
    BY <1>4 DEF RecordFault, NetType, Nets
  <2> QED
    BY <1>4, <2>1 DEF RecordFault, fifo, refresh, request, history,
       OwnType, Calls, CycType, Cycles, ClockType, Clocks, StateType, GraphType, QueueType
<1>5. CASE Tick
  <2>1. ClockType'
    BY <1>5, Constants DEF Tick, ClockType, Clocks, Older, Never
  <2>2. OwnType' /\ own'.version = own.version
    BY <1>5, Constants DEF Tick, OwnType, Calls, Older, Never
  <2> QED
    BY <1>5, <2>1, <2>2 DEF Tick, fifo, atomics, refresh, request, history,
       CycType, Cycles, NetType, Nets, StateType, GraphType, QueueType
<1> QED
  BY <1>1, <1>2, <1>3, <1>4, <1>5 DEF ServerStep

(* What a step of the owner leaves: its call, and the request. *)
Moved ==
    /\ own' \in Calls /\ own'.version <= graph_version
    /\ requested_state' \in States /\ failed' \in Reasons

(* A step to another label leaves a call and a request of their types. *)
LEMMA GoToMoves == ASSUME Types, NEW label \in OwnerPcs, GoTo(label) PROVE Moved
<1>1. own' \in Calls /\ own'.version = own.version
  BY DEF GoTo, Types, OwnType, Calls
<1> QED
  BY <1>1 DEF GoTo, request, Types, GraphType, StateType, Moved

(* A return leaves a call and a request of their types. *)
LEMMA ReturnMoves == ASSUME Types, Return PROVE Moved
BY NoCallType DEF Return, request, Types, GraphType, StateType, Moved, NoCall

(* A failure leaves a call and a request of their types. *)
LEMMA FailMoves == ASSUME Types, NEW reason \in Reasons, Fail(reason) PROVE Moved
BY NoCallType DEF Fail, Types, GraphType, States, Moved, NoCall

(* A step of the owner that only moves its own call on leaves a call and a
   request of their types. *)
LEMMA ControlMoves ==
    ASSUME Types,
           \/ HealthBroken \/ HealthGraph \/ ScanPort \/ AwaitState
           \/ Start \/ Stop \/ PauseOrResume
           \/ \E n \in 0 .. MaxWrite : Write(n)
           \/ DrainQueue \/ DrainTail \/ Query \/ CloseClient
    PROVE  Moved
<1>1. CASE HealthBroken
  BY <1>1, ReturnMoves, FailMoves DEF HealthBroken, Reasons
<1>2. CASE HealthGraph
  <2>1. CASE GoTo("watch")
    BY <2>1, GoToMoves DEF OwnerPcs
  <2>2. CASE own' = [own EXCEPT !.pc = "scan", !.version = graph_version, !.mask = {}]
             /\ UNCHANGED request
    <3>1. own' \in Calls /\ own'.version = graph_version
      BY <2>2 DEF Types, OwnType, Calls, GraphType, OwnerPcs
    <3> QED
      BY <2>2, <3>1 DEF Types, GraphType, StateType, Moved, request
  <2> QED
    BY <1>2, <2>1, <2>2 DEF HealthGraph
<1>3. CASE ScanPort
  <2> DEFINE found == own.mask \union (net.links \intersect {own.count})
             at    == IF own.count + 1 < NumChannels THEN "scan" ELSE "mask"
             next  == IF own.count + 1 < NumChannels THEN own.count + 1 ELSE 0
  <2>1. found \in SUBSET Channels /\ at \in OwnerPcs /\ next \in Int
    BY DEF Types, OwnType, Calls, NetType, Nets, OwnerPcs
  <2>2. own' = [own EXCEPT !.mask = found, !.pc = at, !.count = next] /\ UNCHANGED request
    BY <1>3 DEF ScanPort
  <2> HIDE DEF found, at, next
  <2>3. own' \in Calls /\ own'.version = own.version
    BY <2>1, <2>2 DEF Types, OwnType, Calls
  <2> QED
    BY <2>2, <2>3 DEF Types, GraphType, StateType, Moved, request
<1>4. CASE AwaitState
  BY <1>4, GoToMoves, ReturnMoves, FailMoves DEF AwaitState, OwnerPcs, Reasons
<1>5. CASE Start \/ Stop \/ PauseOrResume
  BY <1>5, GoToMoves, ReturnMoves DEF Start, Stop, PauseOrResume, OwnerPcs
<1>6. ASSUME NEW n \in 0 .. MaxWrite, Write(n) PROVE Moved
  <2> DEFINE fits == Least(n, FreeSpace)
  <2>1. CASE Return
    BY <2>1, ReturnMoves
  <2>2. CASE fits # 0 /\ own' = [own EXCEPT !.pc = "copy", !.count = fits]
             /\ UNCHANGED request
    <3>1. fits \in Int
      BY QueuedType DEF Least, Types
    <3> QED
      BY <2>2, <3>1 DEF Types, OwnType, Calls, GraphType, StateType, Moved, request, OwnerPcs
  <2> QED
    BY <1>6, <2>1, <2>2 DEF Write
<1>7. CASE DrainQueue
  <2>1. Queued \in Int
    BY QueuedType DEF Types
  <2>2. own' \in Calls /\ own'.version = own.version
    BY <1>7, <2>1 DEF DrainQueue, Types, OwnType, Calls, OwnerPcs
  <2> QED
    BY <1>7, <2>2 DEF DrainQueue, Types, GraphType, StateType, Moved, request
<1>8. CASE DrainTail \/ Query
  BY <1>8, ReturnMoves DEF DrainTail, Query
<1>9. CASE CloseClient
  BY <1>9, GoToMoves DEF CloseClient, OwnerPcs
<1> QED
  BY <1>1, <1>2, <1>3, <1>4, <1>5, <1>6, <1>7, <1>8, <1>9

(* The watchdog and a new request leave a call and a request of their types,
   and the clocks they restart are times. *)
LEMMA WatchMoves ==
    ASSUME Types, Watchdog \/ RequestState
    PROVE  Moved /\ ClockType'
<1>1. CASE Watchdog
  <2>1. Moved
    BY <1>1, GoToMoves, FailMoves DEF Watchdog, OwnerPcs, Reasons
  <2>2. PICK p \in Int, d \in Int : clock' = [clock EXCEPT !.progress = p, !.disconnected = d]
    <3> DEFINE progress == IF clock.progress = Never THEN 0 ELSE clock.progress
               playing  == active /\ requested_state = "PLAYING"
               stalled  == playing /\ progress > Timeout
               unrouted == AutoConnect /\ ~AllConnected
               since    == IF clock.disconnected = Never THEN 0 ELSE clock.disconnected
               out      == IF ~playing \/ stalled THEN clock.disconnected
                           ELSE IF unrouted THEN since ELSE Never
    <3>1. progress \in Int /\ since \in Int /\ clock.disconnected \in Int /\ Never \in Int
      BY DEF Types, ClockType, Clocks, Never
    <3>2. out \in Int
      BY <3>1
    <3>3. clock' = [clock EXCEPT !.progress = progress, !.disconnected = out]
      BY <1>1 DEF Watchdog
    <3> QED
      BY <3>1, <3>2, <3>3
  <2> QED
    BY <2>1, <2>2 DEF Types, ClockType, Clocks
<1>2. CASE RequestState
  <2>1. \A l \in OwnerPcs, w \in Nat :
          [own EXCEPT !.pc = l, !.waiting = TRUE, !.waited = w] \in Calls
    BY DEF Types, OwnType, Calls
  <2>2. own' = [own EXCEPT !.pc = "health", !.waiting = TRUE, !.waited = 0]
    BY <1>2 DEF RequestState
  <2>3. own' \in Calls
    BY <2>1, <2>2, Zenon DEF OwnerPcs
  <2>4. own'.version = own.version
    BY <2>2 DEF Types, OwnType, Calls
  <2>5. \A p, z \in Int : [clock EXCEPT !.progress = p, !.silent = z] \in Clocks
    BY DEF Types, ClockType, Clocks
  <2>6. clock' \in Clocks
    <3>1. clock' = [clock EXCEPT !.progress = 0, !.silent = 0]
      BY <1>2 DEF RequestState, FreshProgress
    <3>2. 0 \in Int
      OBVIOUS
    <3> QED
      BY <2>5, <3>1, <3>2, Zenon
  <2>7. requested_state' \in States /\ failed' = failed
    BY <1>2 DEF RequestState, Target, States
  <2> QED
    BY <2>3, <2>4, <2>6, <2>7 DEF Types, GraphType, StateType, Moved, ClockType
<1> QED
  BY <1>1, <1>2

(* A step of the owner, a new call included, keeps the types. *)
LEMMA OwnerTypes == Types /\ (OwnerStep \/ OwnerCall) => Types'
<1> SUFFICES ASSUME Types, OwnerStep \/ OwnerCall PROVE Types'
  OBVIOUS
<1>1. CASE OwnerControl
  BY <1>1, ControlMoves DEF OwnerControl, Moved, Types, fifo, atomics, refresh, history,
     OwnType, CycType, NetType, ClockType, StateType, GraphType, QueueType
<1>2. CASE OwnerRefresh
  <2>1. CASE StoreMask
    <3>1. Moved
      BY <2>1, GoToMoves DEF StoreMask, OwnerPcs
    <3>2. connected' \in SUBSET Channels
      BY <2>1 DEF StoreMask, Types, OwnType, Calls
    <3> QED
      BY <1>2, <2>1, <3>1, <3>2 DEF OwnerRefresh, StoreMask, Moved, Types, fifo, atomics,
         history, OwnType, CycType, NetType, ClockType, StateType, GraphType, QueueType
  <2>2. CASE StoreSeen
    <3>1. Moved
      BY <2>2, GoToMoves DEF StoreSeen, OwnerPcs
    <3>2. graph_seen' \in 0 .. graph_version
      BY <2>2 DEF StoreSeen, Types, OwnType, Calls, GraphType
    <3> QED
      BY <1>2, <2>2, <3>1, <3>2 DEF OwnerRefresh, StoreSeen, Moved, Types, fifo, atomics,
         history, OwnType, CycType, NetType, ClockType, StateType, GraphType, QueueType
  <2> QED
    BY <1>2, <2>1, <2>2 DEF OwnerRefresh
<1>3. CASE OwnerWatch
  BY <1>3, WatchMoves DEF OwnerWatch, Moved, Types, fifo, atomics, refresh, history,
     OwnType, CycType, NetType, StateType, GraphType, QueueType
<1>4. CASE OwnerSetup
  <2>1. ASSUME NEW works \in BOOLEAN, Activate(works) PROVE Types'
    <3>1. Moved
      BY <2>1, GoToMoves, FailMoves DEF Activate, OwnerPcs, Reasons
    <3> QED
      BY <1>4, <2>1, <3>1 DEF OwnerSetup, Activate, Moved, Types, fifo, refresh,
         history, OwnType, CycType, NetType, ClockType, StateType, GraphType, QueueType
  <2>2. ASSUME NEW made \in SUBSET Channels, ConnectPorts(made) PROVE Types'
    <3>1. Moved
      BY <2>2, GoToMoves, FailMoves DEF ConnectPorts, OwnerPcs, Reasons
    <3>2. NetType'
      <4>1. \A l \in SUBSET Channels, u \in Nat :
              [net EXCEPT !.links = l, !.unnotified = u] \in Nets
        BY DEF Types, NetType, Nets
      <4>2. net.unnotified + 1 \in Nat
        BY DEF Types, NetType, Nets
      <4>3. [net EXCEPT !.links = made, !.unnotified = net.unnotified + 1] \in Nets
        BY <4>1, <4>2, Zenon
      <4>4. \/ net' = [net EXCEPT !.links = made, !.unnotified = net.unnotified + 1]
            \/ net' = net
        BY <2>2 DEF ConnectPorts
      <4> QED
        BY <4>3, <4>4, Zenon DEF Types, NetType
    <3>3. GraphType'
      <4>1. graph_version' = graph_version \/ graph_version' = graph_version + 1
        BY <2>2 DEF ConnectPorts
      <4>2. own'.version \in Nat
        BY <3>1 DEF Moved, Calls
      <4>3. UNCHANGED refresh
        BY <1>4 DEF OwnerSetup
      <4> QED
        BY <3>1, <4>1, <4>2, <4>3 DEF Moved, Types, GraphType, refresh
    <3> QED
      BY <1>4, <2>2, <3>1, <3>2, <3>3 DEF OwnerSetup, ConnectPorts, Moved, Types, fifo,
         history, OwnType, CycType, ClockType, StateType, QueueType
  <2> QED
    BY <1>4, <2>1, <2>2 DEF OwnerSetup
<1>5. CASE OwnerQueue
  <2>1. CASE ClearQueue
    <3>1. ClockType'
      BY <2>1 DEF ClearQueue, Types, ClockType, Clocks, Never
    <3>2. QueueType'
      BY <2>1, Constants DEF ClearQueue, Types, QueueType, Indices
    <3> QED
      BY <1>5, <2>1, <3>1, <3>2, ReturnMoves DEF OwnerQueue, ClearQueue, Moved, Types,
         refresh, OwnType, CycType, NetType, StateType, GraphType
  <2>2. CASE WriteCopy
    BY <1>5, <2>2, GoToMoves DEF OwnerQueue, WriteCopy, Moved, Types, refresh, OwnerPcs,
       OwnType, CycType, NetType, ClockType, StateType, GraphType, QueueType
  <2>3. CASE WritePublish
    <3>1. IndexAdd(write_index, own.count) \in Indices /\ accepted + own.count \in Int
      <4>1. write_index \in Int /\ accepted \in Int /\ own.count \in Int
        <5>1. QueueType /\ own \in Calls
          BY DEF Types, OwnType
        <5>2. write_index \in Int /\ accepted \in Int
          BY <5>1, Constants DEF QueueType, Indices
        <5>3. own.count \in Int
          BY <5>1 DEF Calls
        <5> QED
          BY <5>2, <5>3
      <4> QED
        BY <4>1, IndexAddType
    <3> QED
      BY <1>5, <2>3, <3>1, ReturnMoves DEF OwnerQueue, WritePublish, Moved, Types, refresh,
         OwnType, CycType, NetType, ClockType, StateType, GraphType, QueueType
  <2> QED
    BY <1>5, <2>1, <2>2, <2>3 DEF OwnerQueue
<1>6. CASE OwnerCall
  <2>1. CASE Close
    <3>1. own' \in Calls /\ own'.version = own.version
      BY <2>1 DEF Close, Types, OwnType, Calls, OwnerPcs
    <3>2. Moved
      BY <2>1, <3>1 DEF Close, Types, StateType, GraphType, States, Moved
    <3> QED
      BY <1>6, <3>2 DEF OwnerCall, Moved, Types, fifo, atomics, refresh, history,
         OwnType, CycType, NetType, ClockType, StateType, GraphType, QueueType
  <2>2. ASSUME NEW f \in Functions, Call(f) PROVE Types'
    <3>1. own' \in Calls /\ own'.version = own.version
      BY <2>2 DEF Call, Types, OwnType, Calls, OwnerPcs
    <3>2. Moved
      BY <2>2, <3>1 DEF Call, request, Types, StateType, GraphType, Moved
    <3> QED
      BY <1>6, <3>2 DEF OwnerCall, Moved, Types, fifo, atomics, refresh, history,
         OwnType, CycType, NetType, ClockType, StateType, GraphType, QueueType
  <2> QED
    BY <1>6, <2>1, <2>2 DEF OwnerCall
<1> QED
  BY <1>1, <1>2, <1>3, <1>4, <1>5, <1>6 DEF OwnerStep

(* Every step keeps the types. *)
LEMMA StepTypes == Types /\ [Next]_vars => Types'
<1> SUFFICES ASSUME Types, [Next]_vars PROVE Types'
  OBVIOUS
<1>1. CASE UNCHANGED vars
  BY <1>1 DEF vars, fifo, atomics, refresh, request, history, Types,
     OwnType, CycType, NetType, ClockType, StateType, GraphType, QueueType
<1> QED
  BY <1>1, ProcessTypes, ServerTypes, OwnerTypes DEF Next

-----------------------------------------------------------------------------
(* Control: the labels a call passes while it waits for an acknowledgement,
   the last of them with the acknowledgement received. *)
Polling == {"health", "scan", "mask", "seen", "watch", "await", "clear"}

(* What the owner's label says of the output: it has not failed where a call
   works on it, it is not active before it is activated, and stop clears the
   queue of an active client only after it asked for STOPPED. *)
Phases ==
    /\ own.waiting => own.pc \in Polling
    /\ own.pc = "await" => own.waiting
    /\ own.pc \notin {"idle", "health", "joining", "closed"} => failed = "no"
    /\ own.pc = "activate" => ~active
    /\ ~active => cyc.pc = "idle"
    /\ own.pc = "clear" /\ active => requested_state = "STOPPED"

(* While the owner waits, the request is what its call asked for, and the
   state acknowledged is either still the old one or this one; a cycle that
   began after an acknowledgement saw the request too. While it does not wait,
   the request, the acknowledgement and the cycle under way agree. *)
Handshake ==
    failed = "no" /\ own.pc \notin {"joining", "closed"} =>
        IF own.waiting /\ own.pc # "clear"
        THEN /\ requested_state = Target
             /\ actual_state = Target /\ cyc.pc # "idle" => cyc.state = Target
        ELSE /\ actual_state = requested_state
             /\ cyc.pc # "idle" => cyc.state = requested_state

Control == Phases /\ Handshake

(* A new output has asked for nothing and acknowledged it. *)
LEMMA InitControl == Init => Control
BY DEF Init, Control, Phases, Handshake, NoCall

(* Steps that leave the acknowledgement and the cycle alone. *)
Steady == UNCHANGED <<actual_state, active, cyc>>

(* An owner that moves on, without a request or an end of the waiting, keeps
   the handshake. *)
LEMMA GoToControl ==
    ASSUME Types, Control, Steady, failed = "no",
           NEW label \in OwnerPcs \ {"clear", "activate", "joining", "closed"}, GoTo(label),
           own.pc \notin {"clear", "joining", "closed"},
           own.waiting => label \in Polling,
           label = "await" => own.waiting
    PROVE  Control'
<1>1. own' = [own EXCEPT !.pc = label] /\ UNCHANGED <<requested_state, failed>>
  BY DEF GoTo, request
<1>2. own'.pc = label /\ own'.waiting = own.waiting /\ own'.op = own.op
  BY <1>1 DEF Types, OwnType, Calls
<1>3. Target' = Target
  BY <1>2 DEF Target
<1> QED
  BY <1>1, <1>2, <1>3 DEF Control, Phases, Handshake, Steady

(* A return keeps the handshake when the call was not waiting, when what it
   waited for came, or when the output failed. *)
LEMMA ReturnControl ==
    ASSUME Types, Control, Steady, Return, own.pc \notin {"joining", "closed"},
           failed # "no" \/ ~own.waiting \/ own.pc = "clear"
    PROVE  Control'
<1>1. own'.pc = "idle" /\ own'.waiting = FALSE /\ UNCHANGED <<requested_state, failed>>
  BY DEF Return, NoCall, request
<1> QED
  BY <1>1 DEF Control, Phases, Handshake, Steady

(* A failure keeps the handshake, which promises nothing of a failed output. *)
LEMMA FailControl ==
    ASSUME Types, Control, Steady, NEW reason \in Reasons \ {"no"}, Fail(reason)
    PROVE  Control'
<1>1. own'.pc = "idle" /\ own'.waiting = FALSE /\ failed' # "no"
  BY DEF Fail, NoCall
<1> QED
  BY <1>1 DEF Control, Phases, Handshake, Steady

(* A cycle reads the request once, at its beginning, and acknowledges what it
   read: the handshake survives every interleaving with the owner. *)
LEMMA ProcessControl == Types /\ Control /\ ProcessStep => Control'
<1> SUFFICES ASSUME Types, Control, ProcessStep PROVE Control'
  OBVIOUS
<1>1. UNCHANGED <<own, requested_state, failed, active>>
  BY DEF ProcessStep, CycleBegin, CycleProbe, CycleEffect, request, atomics
<1>2. Target' = Target
  BY <1>1 DEF Target
<1>3. CASE CycleBegin
  <2>1. active /\ cyc'.state = requested_state /\ actual_state' = actual_state
    BY <1>3 DEF CycleBegin, Types, CycType, Cycles, atomics
  <2> QED
    BY <1>1, <1>2, <2>1 DEF Control, Phases, Handshake
<1>4. CASE CycleProbe \/ (CycleEffect /\ ~CycleAck)
  <2>1. cyc.pc # "idle" /\ cyc'.state = cyc.state /\ actual_state' = actual_state
    <3>1. CASE CycleProbe
      BY <3>1 DEF CycleProbe, GateVersion, GateSeen, GateMask, GateRecheck, CycleLoad,
         CycleGoTo, Types, CycType, Cycles, atomics
    <3>2. CASE CycleEffect /\ ~CycleAck
      BY <3>2 DEF CycleEffect, CycleCopy, CycleTail, CycleRetire, CycleGoTo,
         Types, CycType, Cycles
    <3> QED
      BY <1>4, <3>1, <3>2
  <2> QED
    BY <1>1, <1>2, <2>1 DEF Control, Phases, Handshake
<1>5. CASE CycleAck
  <2>1. cyc.pc # "idle" /\ cyc'.pc = "idle" /\ actual_state' = cyc.state
    BY <1>5 DEF CycleAck, Types, CycType, Cycles
  <2> QED
    BY <1>1, <1>2, <2>1 DEF Control, Phases, Handshake
<1> QED
  BY <1>3, <1>4, <1>5 DEF ProcessStep

(* The server and the clocks have no part in the handshake. *)
LEMMA ServerControl == Types /\ Control /\ (ServerStep \/ Tick) => Control'
<1> SUFFICES ASSUME Types, Control, ServerStep \/ Tick PROVE Control'
  OBVIOUS
<1>1. UNCHANGED <<requested_state, failed, active, actual_state, cyc>>
  BY DEF ServerStep, Tick, Relink, PortConnect, Retune, RecordFault, request, atomics
<1>2. own'.pc = own.pc /\ own'.waiting = own.waiting /\ own'.op = own.op
  <2>1. CASE Tick
    BY <2>1 DEF Tick, Types, OwnType, Calls
  <2>2. CASE ServerStep
    BY <2>2 DEF ServerStep, Relink, PortConnect, Retune, RecordFault
  <2> QED
    BY <2>1, <2>2
<1> QED
  BY <1>1, <1>2 DEF Target, Control, Phases, Handshake

(* The owner's polling, its early returns and its calls keep the handshake: it
   stops waiting only with the acknowledgement, or with a failure. *)
LEMMA OwnerControlControl == Types /\ Control /\ OwnerControl => Control'
<1> SUFFICES ASSUME Types, Control, OwnerControl PROVE Control'
  OBVIOUS
<1>s. Steady
  BY DEF OwnerControl, Steady, atomics
<1>1. CASE HealthBroken
  BY <1>1, <1>s, ReturnControl, FailControl DEF HealthBroken, Reasons
<1>2. CASE HealthGraph
  <2>1. CASE GoTo("watch")
    BY <1>2, <2>1, <1>s, GoToControl DEF HealthGraph, OwnerPcs, Polling
  <2>2. CASE own' = [own EXCEPT !.pc = "scan", !.version = graph_version, !.mask = {}]
             /\ UNCHANGED request
    <3>1. own'.pc = "scan" /\ own'.waiting = own.waiting /\ own'.op = own.op
      BY <2>2 DEF Types, OwnType, Calls
    <3> QED
      BY <1>2, <2>2, <1>s, <3>1 DEF HealthGraph, request, Steady, Target, Control, Phases,
         Handshake, Polling
  <2> QED
    BY <1>2, <2>1, <2>2 DEF HealthGraph
<1>3. CASE ScanPort
  <2>1. own'.pc \in {"scan", "mask"} /\ own'.waiting = own.waiting /\ own'.op = own.op
    BY <1>3 DEF ScanPort, Types, OwnType, Calls
  <2> QED
    BY <1>3, <1>s, <2>1 DEF ScanPort, request, Steady, Target, Control, Phases,
       Handshake, Polling
<1>4. CASE AwaitState
  <2>1. own.pc = "await" /\ own.waiting /\ failed = "no" /\ requested_state = Target
    BY <1>4 DEF AwaitState, Control, Phases, Handshake
  <2>2. CASE Acknowledged
    <3>1. actual_state = requested_state /\ (cyc.pc # "idle" => cyc.state = requested_state)
      BY <2>1, <2>2 DEF Acknowledged, Control, Handshake
    <3>2. CASE own.op = "stop"
      <4>1. GoTo("clear") /\ requested_state = "STOPPED"
        BY <1>4, <2>1, <2>2, <3>2 DEF AwaitState, Target
      <4>2. own'.pc = "clear" /\ UNCHANGED <<requested_state, failed>>
        BY <4>1 DEF GoTo, request, Types, OwnType, Calls
      <4> QED
        BY <1>s, <2>1, <3>1, <4>1, <4>2 DEF Steady, Control, Phases, Handshake, Polling
    <3>3. CASE own.op # "stop"
      <4>1. own'.pc = "idle" /\ own'.waiting = FALSE /\ UNCHANGED <<requested_state, failed>>
        BY <1>4, <2>2, <3>3 DEF AwaitState, Return, NoCall, request
      <4> QED
        BY <1>s, <2>1, <3>1, <4>1 DEF Steady, Control, Phases, Handshake
    <3> QED
      BY <3>2, <3>3
  <2>3. CASE ~Acknowledged
    BY <1>4, <1>s, <2>1, <2>3, GoToControl, FailControl
       DEF AwaitState, OwnerPcs, Polling, Reasons
  <2> QED
    BY <2>2, <2>3
<1>5. CASE Start \/ Stop \/ PauseOrResume
  <2>1. own.pc = "body" /\ ~own.waiting /\ failed = "no"
    BY <1>5 DEF Start, Stop, PauseOrResume, Control, Phases, Polling
  <2>2. CASE Return
    BY <1>s, <2>1, <2>2, ReturnControl
  <2>3. CASE GoTo("request")
    BY <1>s, <2>1, <2>3, GoToControl DEF OwnerPcs
  <2>4. CASE ~active /\ (GoTo("activate") \/ GoTo("clear"))
    <3>1. own'.pc \in {"activate", "clear"} /\ own'.waiting = FALSE
          /\ UNCHANGED <<requested_state, failed>>
      BY <2>1, <2>4 DEF GoTo, request, Types, OwnType, Calls
    <3> QED
      BY <1>s, <2>1, <2>4, <3>1 DEF Steady, Control, Phases, Handshake
  <2> QED
    BY <1>5, <2>2, <2>3, <2>4 DEF Start, Stop, PauseOrResume, Types, StateType
<1>6. ASSUME NEW n \in 0 .. MaxWrite, Write(n) PROVE Control'
  <2>1. own.pc = "body" /\ ~own.waiting /\ failed = "no"
    BY <1>6 DEF Write, Control, Phases, Polling
  <2>2. CASE Return
    BY <1>s, <2>1, <2>2, ReturnControl
  <2>3. CASE own' = [own EXCEPT !.pc = "copy", !.count = Least(n, FreeSpace)]
             /\ UNCHANGED request
    <3>1. own'.pc = "copy" /\ own'.waiting = own.waiting
      BY <2>3 DEF Types, OwnType, Calls
    <3> QED
      BY <1>s, <2>1, <2>3, <3>1 DEF request, Steady, Control, Phases, Handshake
  <2> QED
    BY <1>6, <2>2, <2>3 DEF Write
<1>7. CASE DrainQueue
  <2>1. own'.pc = "drain" /\ own'.waiting = own.waiting /\ ~own.waiting /\ own.pc = "body"
    BY <1>7 DEF DrainQueue, Types, OwnType, Calls, Control, Phases, Polling
  <2> QED
    BY <1>7, <1>s, <2>1 DEF DrainQueue, request, Steady, Control, Phases, Handshake
<1>8. CASE DrainTail \/ Query
  BY <1>8, <1>s, ReturnControl DEF DrainTail, Query, Control, Phases, Polling
<1>9. CASE CloseClient
  <2>1. own'.pc = "closed" /\ own'.waiting = own.waiting /\ own.pc = "joining"
    BY <1>9 DEF CloseClient, GoTo, Types, OwnType, Calls
  <2> QED
    BY <1>9, <1>s, <2>1 DEF CloseClient, GoTo, request, Steady, Control, Phases, Handshake, Polling
<1> QED
  BY <1>1, <1>2, <1>3, <1>4, <1>5, <1>6, <1>7, <1>8, <1>9 DEF OwnerControl

(* The owner's refresh of the ports, its watchdog and request, its setup, its
   work on the queue and its new calls keep the handshake. *)
LEMMA OwnerOtherControl ==
    Types /\ Control /\ (OwnerRefresh \/ OwnerWatch \/ OwnerSetup \/ OwnerQueue \/ OwnerCall)
        => Control'
<1> SUFFICES ASSUME Types, Control,
                    OwnerRefresh \/ OwnerWatch \/ OwnerSetup \/ OwnerQueue \/ OwnerCall
             PROVE  Control'
  OBVIOUS
<1>1. CASE OwnerRefresh
  <2>1. Steady
    BY <1>1 DEF OwnerRefresh, Steady, atomics
  <2>2. failed = "no"
    BY <1>1 DEF OwnerRefresh, StoreMask, StoreSeen, Control, Phases
  <2> QED
    BY <1>1, <2>1, <2>2, GoToControl
       DEF OwnerRefresh, StoreMask, StoreSeen, OwnerPcs, Polling
<1>2. CASE OwnerWatch
  <2>1. Steady
    BY <1>2 DEF OwnerWatch, Steady, atomics
  <2>2. CASE Watchdog
    <3>1. failed = "no" /\ own.pc = "watch"
      BY <2>2 DEF Watchdog, Control, Phases
    <3>2. \/ Fail("stalled") \/ Fail("disconnected")
          \/ GoTo(IF own.waiting THEN "await" ELSE "body")
      BY <2>2 DEF Watchdog
    <3>3. CASE GoTo(IF own.waiting THEN "await" ELSE "body")
      <4>1. CASE own.waiting
        BY <2>1, <3>1, <3>3, <4>1, GoToControl DEF OwnerPcs, Polling
      <4>2. CASE ~own.waiting
        BY <2>1, <3>1, <3>3, <4>2, GoToControl DEF OwnerPcs, Polling
      <4> QED
        BY <4>1, <4>2
    <3> QED
      BY <2>1, <3>2, <3>3, FailControl DEF Reasons
  <2>3. CASE RequestState
    <3>1. own.pc = "request" /\ ~own.waiting /\ failed = "no"
      BY <2>3 DEF RequestState, Control, Phases, Polling
    <3>2. own'.pc = "health" /\ own'.waiting = TRUE /\ own'.op = own.op
      BY <2>3 DEF RequestState, Types, OwnType, Calls
    <3>3. requested_state' = Target' /\ failed' = failed
      BY <2>3, <3>2 DEF RequestState, Target
    <3>4. actual_state = requested_state /\ (cyc.pc # "idle" => cyc.state = requested_state)
      BY <3>1 DEF Control, Handshake
    <3> QED
      BY <2>1, <3>1, <3>2, <3>3, <3>4 DEF Steady, Control, Phases, Handshake, Polling
  <2> QED
    BY <1>2, <2>2, <2>3 DEF OwnerWatch
<1>3. CASE OwnerSetup
  <2>1. UNCHANGED <<actual_state, cyc>>
    BY <1>3 DEF OwnerSetup
  <2>2. ASSUME NEW works \in BOOLEAN, Activate(works) PROVE Control'
    <3>1. ~active /\ cyc.pc = "idle" /\ failed = "no" /\ ~own.waiting
      BY <2>2 DEF Activate, Control, Phases, Polling
    <3>2. CASE works
      <4>1. own'.pc = "connect" /\ own'.waiting = own.waiting
            /\ UNCHANGED <<requested_state, failed>>
        BY <2>2, <3>2 DEF Activate, GoTo, request, Types, OwnType, Calls
      <4> QED
        BY <2>1, <2>2, <3>1, <4>1 DEF Activate, Control, Phases, Handshake
    <3>3. CASE ~works
      <4>1. Fail("setup") /\ active' = active
        BY <2>2, <3>1, <3>3 DEF Activate, Types, StateType
      <4> QED
        BY <2>1, <4>1, FailControl DEF Steady, Reasons
    <3> QED
      BY <3>2, <3>3
  <2>3. ASSUME NEW made \in SUBSET Channels, ConnectPorts(made) PROVE Control'
    <3>1. failed = "no" /\ ~own.waiting /\ own.pc = "connect" /\ active' = active
      BY <2>3 DEF ConnectPorts, Control, Phases, Polling
    <3> QED
      BY <2>1, <2>3, <3>1, FailControl, GoToControl
         DEF ConnectPorts, Steady, Reasons, OwnerPcs
  <2> QED
    BY <1>3, <2>2, <2>3 DEF OwnerSetup
<1>4. CASE OwnerQueue
  <2>1. Steady
    BY <1>4 DEF OwnerQueue, Steady
  <2>2. CASE ClearQueue
    BY <2>1, <2>2, ReturnControl DEF ClearQueue
  <2>3. CASE WriteCopy
    BY <2>1, <2>3, GoToControl DEF WriteCopy, OwnerPcs, Control, Phases, Polling
  <2>4. CASE WritePublish
    BY <2>1, <2>4, ReturnControl DEF WritePublish, Control, Phases, Polling
  <2> QED
    BY <1>4, <2>2, <2>3, <2>4 DEF OwnerQueue
<1>5. CASE OwnerCall
  <2>1. Steady
    BY <1>5 DEF OwnerCall, Steady, atomics
  <2>2. CASE Close
    <3>1. own'.pc = "joining" /\ own'.waiting = own.waiting /\ ~own.waiting
      BY <2>2 DEF Close, Types, OwnType, Calls, Control, Phases, Polling
    <3> QED
      BY <2>1, <2>2, <3>1 DEF Close, Steady, Control, Phases, Handshake
  <2>3. ASSUME NEW f \in Functions, Call(f) PROVE Control'
    <3>1. own'.pc = "health" /\ own'.waiting = own.waiting /\ ~own.waiting /\ own.pc = "idle"
      BY <2>3 DEF Call, Types, OwnType, Calls, Control, Phases, Polling
    <3> QED
      BY <2>1, <2>3, <3>1 DEF Call, request, Steady, Control, Phases, Handshake
  <2> QED
    BY <1>5, <2>2, <2>3 DEF OwnerCall
<1> QED
  BY <1>1, <1>2, <1>3, <1>4, <1>5

(* Every step keeps the handshake. *)
LEMMA StepControl == Types /\ Control /\ [Next]_vars => Control'
<1> SUFFICES ASSUME Types, Control, [Next]_vars PROVE Control'
  OBVIOUS
<1>1. CASE UNCHANGED vars
  BY <1>1 DEF vars, fifo, atomics, refresh, request, history, Control, Phases, Handshake, Target
<1> QED
  BY <1>1, ProcessControl, ServerControl, OwnerControlControl, OwnerOtherControl
     DEF Next, OwnerStep

-----------------------------------------------------------------------------
(* Arithmetic of the indices: quotient and remainder. *)
LEMMA Remainder ==
    ASSUME NEW C \in Nat \ {0}, NEW x \in Int
    PROVE  x = C * (x \div C) + (x % C) /\ x % C \in 0 .. C - 1 /\ x \div C \in Int
OBVIOUS

(* A number in 0 .. C - 1 is the remainder of itself plus a multiple of C. *)
LEMMA RemainderOf ==
    ASSUME NEW C \in Nat \ {0}, NEW q \in Int, NEW r \in 0 .. C - 1
    PROVE  (C * q + r) % C = r
OBVIOUS

(* A multiple of C does not change the remainder: this is why IndexRange has
   to be a multiple of Capacity. *)
LEMMA ShiftByMultiple ==
    ASSUME NEW C \in Nat \ {0}, NEW m \in Int, NEW x \in Int
    PROVE  (x + C * m) % C = x % C
<1> DEFINE q == x \div C
           r == x % C
<1>1. x = C * q + r /\ r \in 0 .. C - 1 /\ q \in Int
  BY Remainder
<1> HIDE DEF q, r
<1>2. x + C * m = C * (q + m) + r
  BY <1>1
<1>3. (C * (q + m) + r) % C = r
  BY <1>1, RemainderOf
<1>4. r = x % C
  BY DEF r
<1> QED
  BY <1>1, <1>2, <1>3, <1>4 DEF Indices

(* The only multiple of C strictly between -C and C is 0. *)
LEMMA NoMultipleBetween ==
    ASSUME NEW C \in Nat \ {0}, NEW d \in Int, C * d < C, -C < C * d
    PROVE  d = 0
OBVIOUS

(* Numbers less than C apart have different remainders. *)
LEMMA RemaindersDiffer ==
    ASSUME NEW C \in Nat \ {0}, NEW x \in Int, NEW y \in Int, x % C = y % C,
           x - y < C, y - x < C
    PROVE  x = y
<1> DEFINE p == x \div C
           q == y \div C
           r == x % C
<1>1. x = C * p + r /\ y = C * q + r /\ p \in Int /\ q \in Int /\ r \in Int
  BY Remainder
<1> HIDE DEF p, q, r
<1>2. x - y = C * (p - q)
  BY <1>1
<1>3. p - q = 0
  BY <1>1, <1>2, NoMultipleBetween
<1> QED
  BY <1>1, <1>3

(* IndexRange is a number of whole turns of the queue, more than two. *)
LEMMA Turns ==
    /\ Capacity \in Nat \ {0} /\ IndexRange \in Nat \ {0} /\ 2 * Capacity < IndexRange
    /\ \E m \in Int : IndexRange = Capacity * m
<1>1. Capacity \in Nat \ {0} /\ IndexRange \in Int /\ IndexRange % Capacity = 0
  BY JackAssumption
<1>2. IndexRange = Capacity * (IndexRange \div Capacity) + (IndexRange % Capacity)
      /\ IndexRange \div Capacity \in Int
  BY <1>1, Remainder
<1> QED
  BY <1>1, <1>2, Constants

(* The remainder of a number below two turns is one conditional subtraction. *)
LEMMA OneTurn ==
    ASSUME NEW C \in Nat \ {0}, NEW a \in 0 .. (2 * C - 1)
    PROVE  a % C = IF a < C THEN a ELSE a - C
OBVIOUS

(* The remainder of a number from the turn below zero is one conditional
   addition. *)
LEMMA BelowZero ==
    ASSUME NEW C \in Nat \ {0}, NEW x \in (-C) .. (C - 1)
    PROVE  x % C = IF x >= 0 THEN x ELSE x + C
OBVIOUS

(* An index moved on by less than IndexRange wraps at most once. *)
LEMMA IndexAddValue ==
    ASSUME NEW i \in Indices, NEW n \in 0 .. IndexRange - 1
    PROVE  IndexAdd(i, n) = IF i + n < IndexRange THEN i + n ELSE i + n - IndexRange
<1> DEFINE a == i + n
<1>1. IndexRange \in Nat \ {0} /\ a \in 0 .. (2 * IndexRange - 1)
  BY Constants DEF Indices
<1> HIDE DEF a
<1>2. a % IndexRange = IF a < IndexRange THEN a ELSE a - IndexRange
  BY <1>1, OneTurn
<1>3. IndexAdd(i, n) = a % IndexRange
  BY DEF IndexAdd, a
<1>4. a = i + n
  BY DEF a
<1> QED
  BY <1>1, <1>2, <1>3, <1>4 DEF Indices

(* The wrap of an index does not change which slot it names. *)
LEMMA SlotValue ==
    ASSUME NEW i \in Indices, NEW n \in 0 .. IndexRange - 1
    PROVE  SlotOf(IndexAdd(i, n)) = (i + n) % Capacity /\ (i + n) % Capacity \in Slots
<1>1. PICK m \in Int : IndexRange = Capacity * m
  BY Turns
<1>2. i + n \in Int /\ Capacity \in Nat \ {0} /\ i \in Int /\ n \in Int
  BY Constants DEF Indices
<1>3. (i + n + Capacity * (0 - m)) % Capacity = (i + n) % Capacity
  <2>1. i + n \in Int /\ 0 - m \in Int
    BY <1>1, <1>2
  <2> QED
    BY <1>2, <2>1, ShiftByMultiple
<1>4. i + n + Capacity * (0 - m) = i + n - IndexRange
  BY <1>1, <1>2
<1>5. (i + n) % Capacity \in Slots
  BY <1>2, Remainder DEF Slots
<1> QED
  BY <1>3, <1>4, <1>5, IndexAddValue DEF SlotOf

(* The unsigned difference of two indices wraps at most once. *)
LEMMA Difference ==
    ASSUME NEW a \in Indices, NEW b \in Indices
    PROVE  (a - b) % IndexRange = IF a >= b THEN a - b ELSE a - b + IndexRange
<1>1. IndexRange \in Nat \ {0} /\ a - b \in (-IndexRange) .. (IndexRange - 1)
  BY Constants DEF Indices
<1>2. (a - b) % IndexRange = IF a - b >= 0 THEN a - b ELSE a - b + IndexRange
  BY <1>1, BelowZero
<1> QED
  BY <1>2 DEF Indices

(* Moving an index on twice is moving it on by the sum. *)
LEMMA AddTwice ==
    ASSUME NEW i \in Indices, NEW m \in Nat, NEW n \in Nat, m + n < IndexRange
    PROVE  IndexAdd(IndexAdd(i, m), n) = IndexAdd(i, m + n)
<1> DEFINE j == IndexAdd(i, m)
<1>1. m \in 0 .. IndexRange - 1 /\ n \in 0 .. IndexRange - 1 /\ m + n \in 0 .. IndexRange - 1
  BY Constants
<1>2. j \in Indices
  BY <1>1, IndexAddType DEF Indices
<1>3. j = IF i + m < IndexRange THEN i + m ELSE i + m - IndexRange
  BY <1>1, IndexAddValue
<1> HIDE DEF j
<1>4. IndexAdd(j, n) = IF j + n < IndexRange THEN j + n ELSE j + n - IndexRange
  BY <1>1, <1>2, IndexAddValue
<1>5. IndexAdd(i, m + n) = IF i + (m + n) < IndexRange THEN i + (m + n)
                           ELSE i + (m + n) - IndexRange
  BY <1>1, IndexAddValue
<1>6. IndexAdd(j, n) = IndexAdd(i, m + n)
  BY <1>1, <1>2, <1>3, <1>4, <1>5, Constants DEF Indices
<1> QED
  BY <1>6 DEF j

(* The number of frames between two indices, when the one was got by adding
   to the other, is what was added. *)
LEMMA DistanceOfSum ==
    ASSUME NEW i \in Indices, NEW n \in 0 .. IndexRange - 1
    PROVE  (IndexAdd(i, n) - i) % IndexRange = n
<1> DEFINE j == IndexAdd(i, n)
<1>1. j \in Indices
  BY IndexAddType, Constants DEF Indices
<1>2. j = IF i + n < IndexRange THEN i + n ELSE i + n - IndexRange
  BY IndexAddValue
<1> HIDE DEF j
<1>3. (j - i) % IndexRange = IF j >= i THEN j - i ELSE j - i + IndexRange
  BY <1>1, Difference
<1>4. (j - i) % IndexRange = n
  BY <1>1, <1>2, <1>3, Constants DEF Indices
<1> QED
  BY <1>4 DEF j

(* The number of frames between two indices is what one adds to get from the
   one to the other. *)
LEMMA SumOfDistance ==
    ASSUME NEW i \in Indices, NEW j \in Indices
    PROVE  /\ (j - i) % IndexRange \in 0 .. IndexRange - 1
           /\ IndexAdd(i, (j - i) % IndexRange) = j
<1> DEFINE n == (j - i) % IndexRange
<1>1. n = IF j >= i THEN j - i ELSE j - i + IndexRange
  BY Difference
<1>2. n \in 0 .. IndexRange - 1
  BY <1>1, Constants DEF Indices
<1> HIDE DEF n
<1>3. IndexAdd(i, n) = IF i + n < IndexRange THEN i + n ELSE i + n - IndexRange
  BY <1>2, IndexAddValue
<1>4. IndexAdd(i, n) = j
  BY <1>1, <1>2, <1>3, Constants DEF Indices
<1> QED
  BY <1>2, <1>4 DEF n

(* Two places less than a queue apart are different slots. *)
LEMMA SlotsDiffer ==
    ASSUME NEW i \in Indices, NEW j \in 0 .. IndexRange - 1, NEW k \in 0 .. IndexRange - 1,
           j - k < Capacity, k - j < Capacity,
           SlotOf(IndexAdd(i, j)) = SlotOf(IndexAdd(i, k))
    PROVE  j = k
<1> DEFINE x == i + j
           y == i + k
<1>1. x % Capacity = y % Capacity
  BY SlotValue
<1>2. x \in Int /\ y \in Int /\ x - y < Capacity /\ y - x < Capacity /\ Capacity \in Nat \ {0}
  BY Constants DEF Indices
<1>3. x = y
  <2> HIDE DEF x, y
  <2> QED
    BY <1>1, <1>2, RemaindersDiffer
<1> QED
  BY <1>3 DEF Indices

(* write_index is Queued after read_index, and what follows it is known as a
   place after read_index too. *)
LEMMA Places ==
    ASSUME QueueType, Queued <= Capacity
    PROVE  /\ Queued \in 0 .. Capacity
           /\ write_index = IndexAdd(read_index, Queued)
           /\ \A k \in 0 .. Capacity :
                 /\ Queued + k \in 0 .. IndexRange - 1
                 /\ SlotOf(IndexAdd(write_index, k)) = SlotOf(IndexAdd(read_index, Queued + k))
                 /\ SlotOf(IndexAdd(write_index, k)) \in Slots
<1>1. Queued \in 0 .. Capacity /\ write_index = IndexAdd(read_index, Queued)
  BY QueuedType, SumOfDistance, Constants DEF QueueType, Queued
<1>2. ASSUME NEW k \in 0 .. Capacity
      PROVE  /\ Queued + k \in 0 .. IndexRange - 1
             /\ SlotOf(IndexAdd(write_index, k)) = SlotOf(IndexAdd(read_index, Queued + k))
             /\ SlotOf(IndexAdd(write_index, k)) \in Slots
  <2>1. k \in Nat /\ Queued \in Nat /\ Queued + k < IndexRange /\ k \in 0 .. IndexRange - 1
    BY <1>1, Constants
  <2>2. IndexAdd(write_index, k) = IndexAdd(read_index, Queued + k)
    BY <1>1, <2>1, AddTwice DEF QueueType
  <2>3. SlotOf(IndexAdd(write_index, k)) \in Slots
    BY <2>1, SlotValue DEF QueueType
  <2> QED
    BY <2>1, <2>2, <2>3, Constants
<1> QED
  BY <1>1, <1>2

-----------------------------------------------------------------------------
(* Queueing: the frames in the queue that no cycle has copied out, which a
   cycle between its copy and its store of read_index has already delivered. *)
Undelivered == IF cyc.pc \in {"tail", "retire"} THEN Queued - cyc.count ELSE Queued

(* The queue holds what was accepted and not yet delivered, in the order of
   acceptance, from read_index on. *)
QueueInv ==
    /\ Queued <= Capacity
    /\ accepted = delivered + Undelivered
    /\ accepted \in 0 .. MaxFrames
    /\ queue \in [Slots -> 0 .. MaxFrames]
    /\ \A k \in 0 .. Queued - 1 :
          queue[SlotOf(IndexAdd(read_index, k))] = accepted - Queued + 1 + k

(* The labels of a cycle that plays and has not yet loaded read_index. *)
Before == {"version", "seen", "mask", "recheck", "load"}

(* A cycle holds frames only while it plays, and they are the oldest ones of
   the queue: nobody else has moved read_index. *)
CycleInv ==
    /\ cyc.pc \in Before \union {"idle"} => cyc.count = 0
    /\ cyc.pc \in Before => cyc.state = "PLAYING"
    /\ cyc.pc = "copy" => cyc.count > 0
    /\ cyc.pc \in {"copy", "tail", "retire"} /\ cyc.count > 0
          => cyc.state = "PLAYING" /\ cyc.read = read_index /\ cyc.count <= Queued

(* A write under way holds slots that are free, and once it has copied, they
   hold the frames that follow the last accepted one. *)
WriteInv ==
    /\ own.pc \in {"copy", "publish"}
          => own.count \in 1 .. FreeSpace /\ accepted + own.count <= MaxFrames
    /\ own.pc = "publish"
          => \A k \in 0 .. own.count - 1 :
                queue[SlotOf(IndexAdd(write_index, k))] = accepted + 1 + k

Queueing == QueueInv /\ CycleInv /\ WriteInv

(* The queue of a new output is empty. *)
LEMMA InitQueueing == Init => Queueing
<1> SUFFICES ASSUME Init PROVE Queueing
  OBVIOUS
<1>1. Queued = 0
  BY Constants, OneTurn DEF Init, Queued
<1>2. QueueInv
  BY <1>1, Constants DEF Init, QueueInv, Undelivered
<1>3. CycleInv
  BY DEF Init, CycleInv, Before
<1>4. WriteInv
  BY DEF Init, WriteInv, NoCall
<1> QED
  BY <1>2, <1>3, <1>4 DEF Queueing

(* Nobody touches the queue, and no write begins or goes on. *)
LEMMA QueueUntouched ==
    ASSUME Queueing, UNCHANGED <<fifo, cyc, accepted, delivered>>,
           own'.pc \in {"copy", "publish"} => own'.pc = own.pc /\ own'.count = own.count
    PROVE  Queueing'
<1>1. QueueInv' /\ CycleInv'
  BY DEF Queueing, QueueInv, CycleInv, Undelivered, Queued, fifo
<1>2. WriteInv'
  BY DEF Queueing, WriteInv, Queued, FreeSpace, fifo
<1> QED
  BY <1>1, <1>2 DEF Queueing

(* A cycle that begins, looks at the graph or loads the indices takes at most
   what is queued. *)
LEMMA ProbeQueueing ==
    ASSUME Types, Queueing, CycleBegin \/ CycleProbe
    PROVE  Queueing'
<1>1. UNCHANGED <<fifo, own, accepted, delivered>>
  BY DEF CycleBegin, CycleProbe, history
<1>2. CycleInv' /\ Undelivered' = Undelivered
  <2>1. Queued' = Queued /\ Queued \in Nat /\ read_index' = read_index
    BY <1>1, QueuedType DEF Types, Queued, fifo
  <2>2. CASE CycleBegin
    <3>1. /\ cyc.pc = "idle" /\ cyc'.count = cyc.count /\ cyc'.state = requested_state
          /\ cyc'.pc = "tail" \/ (cyc'.pc = "version" /\ requested_state = "PLAYING")
      BY <2>2 DEF CycleBegin, Types, CycType, Cycles
    <3> QED
      BY <2>1, <3>1 DEF Queueing, CycleInv, Before, Undelivered
  <2>3. CASE GateVersion \/ GateSeen \/ GateMask \/ GateRecheck
    <3>1. /\ cyc.pc \in Before /\ cyc'.count = cyc.count /\ cyc'.state = cyc.state
          /\ cyc'.pc \in Before \union {"tail"}
      BY <2>3 DEF GateVersion, GateSeen, GateMask, GateRecheck, CycleGoTo, Before,
         Types, CycType, Cycles
    <3> QED
      BY <2>1, <3>1 DEF Queueing, CycleInv, Before, Undelivered
  <2>4. CASE CycleLoad
    <3> DEFINE count == Least(Queued, cyc.frames)
    <3>1. count \in Nat /\ count <= Queued
      BY <2>1 DEF Least, Types, CycType, Cycles
    <3>2. cyc' = [cyc EXCEPT !.read = read_index, !.count = count,
                             !.pc = IF count > 0 THEN "copy" ELSE "tail"]
      BY <2>4 DEF CycleLoad
    <3> HIDE DEF count
    <3>3. /\ cyc'.read = read_index /\ cyc'.count = count /\ cyc'.state = cyc.state
          /\ cyc'.pc = IF count > 0 THEN "copy" ELSE "tail"
      BY <3>2 DEF Types, CycType, Cycles
    <3>4. cyc.pc = "load"
      BY <2>4 DEF CycleLoad
    <3> QED
      BY <2>1, <3>1, <3>3, <3>4 DEF Queueing, CycleInv, Before, Undelivered
  <2> QED
    BY <2>2, <2>3, <2>4 DEF CycleProbe
<1>3. QueueInv'
  BY <1>1, <1>2 DEF Queueing, QueueInv, Queued, fifo
<1>4. WriteInv'
  BY <1>1 DEF Queueing, WriteInv, Queued, FreeSpace, fifo
<1> QED
  BY <1>2, <1>3, <1>4 DEF Queueing

(* A cycle that stores read_index frees the slots it has copied out, and the
   frames after them keep their places and their order. *)
LEMMA RetireQueueing ==
    ASSUME Types, Queueing, CycleEffect, CycleRetire, cyc.count > 0
    PROVE  Queueing'
<1> DEFINE n == cyc.count
<1>1. /\ cyc.pc = "retire" /\ cyc'.pc = "ack" /\ cyc'.count = n
      /\ read_index' = IndexAdd(read_index, n) /\ n \in 1 .. Queued
      /\ UNCHANGED <<queue, write_index, own, accepted, delivered>>
  BY DEF CycleEffect, CycleRetire, CycleGoTo, Queueing, CycleInv, Types, CycType, Cycles
<1>2. /\ Queued \in 0 .. Capacity /\ write_index = IndexAdd(read_index, Queued)
      /\ read_index \in Indices /\ write_index \in Indices /\ accepted \in Int
  <2>1. QueueType /\ Queued <= Capacity
    BY DEF Queueing, QueueInv, Types
  <2> QED
    BY <2>1, Places DEF QueueType
<1>3. read_index' \in Indices /\ n \in Nat
  <2>1. n \in Nat /\ read_index \in Int
    BY <1>1, <1>2, Constants DEF Indices
  <2> QED
    BY <1>1, <2>1, IndexAddType
<1> HIDE DEF n
<1>4. ASSUME NEW k \in 0 .. Queued - n
      PROVE  IndexAdd(read_index', k) = IndexAdd(read_index, n + k)
  <2>1. k \in Nat /\ n \in Nat /\ n + k < IndexRange
    BY <1>1, <1>2, <1>3, Constants
  <2> QED
    BY <1>1, <1>2, <2>1, AddTwice
<1>5. Queued' = Queued - n
  <2>1. Queued - n \in 0 .. Queued - n /\ Queued - n \in 0 .. IndexRange - 1
        /\ n + (Queued - n) = Queued
    BY <1>1, <1>2, Constants
  <2>2. write_index = IndexAdd(read_index', Queued - n)
    BY <1>2, <1>4, <2>1
  <2>3. (write_index - read_index') % IndexRange = Queued - n
    BY <1>3, <2>1, <2>2, DistanceOfSum
  <2> QED
    BY <1>1, <2>3 DEF Queued
<1>6. QueueInv'
  <2>1. ASSUME NEW k \in 0 .. Queued - n - 1
        PROVE  queue[SlotOf(IndexAdd(read_index', k))] = accepted - (Queued - n) + 1 + k
    <3>1. n + k \in 0 .. Queued - 1 /\ k \in 0 .. Queued - n
      BY <1>1, <1>2
    <3>2. queue[SlotOf(IndexAdd(read_index, n + k))] = accepted - Queued + 1 + (n + k)
      BY <3>1 DEF Queueing, QueueInv
    <3>3. queue[SlotOf(IndexAdd(read_index', k))] = accepted - Queued + 1 + (n + k)
      BY <1>4, <3>1, <3>2
    <3>4. accepted - Queued + 1 + (n + k) = accepted - (Queued - n) + 1 + k
      BY <1>1, <1>2
    <3> QED
      BY <3>3, <3>4
  <2>2. Undelivered' = Undelivered
    BY <1>1, <1>5 DEF Undelivered, n
  <2>3. \A k \in 0 .. Queued' - 1 :
          queue'[SlotOf(IndexAdd(read_index', k))] = accepted' - Queued' + 1 + k
    BY <1>1, <1>5, <2>1
  <2>4. Queued' <= Capacity
    BY <1>1, <1>2, <1>5, Constants
  <2> QED
    BY <1>1, <2>2, <2>3, <2>4 DEF Queueing, QueueInv
<1>7. CycleInv'
  BY <1>1 DEF CycleInv, Before
<1>8. WriteInv'
  <2>1. FreeSpace \in Int /\ FreeSpace' = FreeSpace + n
    BY <1>1, <1>2, <1>5, Constants DEF FreeSpace
  <2> QED
    BY <1>1, <2>1 DEF Queueing, WriteInv, Types, OwnType, Calls
<1> QED
  BY <1>6, <1>7, <1>8 DEF Queueing

(* A cycle that copies, reckons the tail, retires or acknowledges keeps the
   queue. *)
LEMMA EffectQueueing ==
    ASSUME Types, Queueing, CycleEffect
    PROVE  Queueing'
<1>1. UNCHANGED <<queue, write_index, own, accepted>>
  BY DEF CycleEffect
<1>2. Queued \in Nat /\ accepted \in Int /\ delivered \in Int /\ cyc.count \in Nat
  BY QueuedType DEF Types, QueueType, CycType, Cycles
<1>3. CASE CycleRetire /\ cyc.count > 0
  BY <1>3, RetireQueueing
<1>4. CASE ~(CycleRetire /\ cyc.count > 0)
  <2>1. read_index' = read_index
    BY <1>2, <1>4 DEF CycleEffect, CycleCopy, CycleTail, CycleRetire, CycleAck
  <2>2. Queued' = Queued
    BY <1>1, <2>1 DEF Queued
  <2>3. CycleInv' /\ accepted' = delivered' + Undelivered'
    <3>1. CASE CycleCopy
      <4>1. /\ cyc.pc = "copy" /\ cyc'.pc = "tail" /\ cyc'.count = cyc.count
            /\ cyc'.state = cyc.state /\ cyc'.read = cyc.read
            /\ delivered' = delivered + cyc.count
        BY <3>1 DEF CycleCopy, CycleGoTo, Types, CycType, Cycles
      <4>2. accepted = delivered + Queued
        BY <4>1 DEF Queueing, QueueInv, Undelivered
      <4>3. Undelivered' = Queued - cyc.count
        BY <2>2, <4>1 DEF Undelivered
      <4> QED
        BY <1>1, <1>2, <2>1, <2>2, <4>1, <4>2, <4>3 DEF Queueing, CycleInv, Before
    <3>2. CASE CycleTail \/ CycleRetire
      <4>1. /\ \/ cyc.pc = "tail" /\ cyc'.pc = "retire"
               \/ cyc.pc = "retire" /\ cyc'.pc = "ack"
            /\ cyc'.count = cyc.count
            /\ cyc'.state = cyc.state /\ cyc'.read = cyc.read
            /\ delivered' = delivered
        <5>1. CASE CycleTail
          BY <5>1 DEF CycleTail, CycleGoTo, Types, CycType, Cycles
        <5>2. CASE CycleRetire
          BY <5>2 DEF CycleRetire, CycleGoTo, Types, CycType, Cycles
        <5> QED
          BY <3>2, <5>1, <5>2
      <4>2. cyc'.pc = "ack" => cyc.count = 0
        BY <1>2, <1>4, <3>2, <4>1 DEF CycleTail, CycleRetire
      <4>3. Undelivered' = Undelivered
        BY <1>2, <2>2, <4>1, <4>2 DEF Undelivered
      <4> QED
        BY <1>1, <2>1, <2>2, <4>1, <4>3 DEF Queueing, QueueInv, CycleInv, Before
    <3>3. CASE CycleAck
      <4>1. cyc.pc = "ack" /\ cyc'.pc = "idle" /\ cyc'.count = 0 /\ delivered' = delivered
        BY <3>3 DEF CycleAck, Types, CycType, Cycles
      <4> QED
        BY <1>1, <2>2, <4>1 DEF Queueing, QueueInv, CycleInv, Before, Undelivered
    <3> QED
      BY <3>1, <3>2, <3>3 DEF CycleEffect
  <2>4. QueueInv'
    BY <1>1, <2>1, <2>2, <2>3 DEF Queueing, QueueInv
  <2>5. WriteInv'
    BY <1>1, <2>2 DEF Queueing, WriteInv, FreeSpace
  <2> QED
    BY <2>3, <2>4, <2>5 DEF Queueing
<1> QED
  BY <1>3, <1>4

(* A write begins with no more frames than there is room for: the cycle can
   only make more room afterwards. *)
LEMMA BeginWriteQueueing ==
    ASSUME Types, Queueing, OwnerControl, NEW n \in 0 .. MaxWrite, Write(n)
    PROVE  Queueing'
<1> DEFINE fits == Least(n, FreeSpace)
<1>1. UNCHANGED <<fifo, cyc, accepted, delivered>>
  BY DEF OwnerControl, history
<1>2. CASE Return
  BY <1>1, <1>2, QueueUntouched DEF Return, NoCall
<1>3. CASE fits # 0 /\ own' = [own EXCEPT !.pc = "copy", !.count = fits]
  <2>1. Queued \in Nat /\ Queued <= Capacity
    BY QueuedType DEF Types, Queueing, QueueInv
  <2>2. FreeSpace \in Nat
    BY <2>1, Constants DEF FreeSpace
  <2>3. fits \in 1 .. FreeSpace /\ fits <= n
    BY <1>3, <2>2, Constants DEF Least
  <2>4. accepted + fits <= MaxFrames
    BY <2>3, Constants DEF Write, Types, QueueType
  <2> HIDE DEF fits
  <2>5. own'.pc = "copy" /\ own'.count = fits
    BY <1>3 DEF Types, OwnType, Calls
  <2>6. WriteInv'
    BY <1>1, <2>3, <2>4, <2>5 DEF WriteInv, FreeSpace, Queued, fifo
  <2>7. QueueInv' /\ CycleInv'
    BY <1>1 DEF Queueing, QueueInv, CycleInv, Undelivered, Queued, fifo
  <2> QED
    BY <2>6, <2>7 DEF Queueing
<1> QED
  BY <1>2, <1>3 DEF Write

(* What is written goes to the slots after write_index, and no live slot is
   one of them. *)
LEMMA WriteCopyQueueing ==
    ASSUME Types, Queueing, OwnerQueue, WriteCopy
    PROVE  Queueing'
<1> DEFINE n == own.count
           at(k) == SlotOf(IndexAdd(write_index, k))
           live(k) == SlotOf(IndexAdd(read_index, k))
<1>1. /\ own.pc = "copy" /\ own'.pc = "publish" /\ own'.count = n
      /\ UNCHANGED <<read_index, write_index, accepted, delivered, cyc>>
  BY DEF OwnerQueue, WriteCopy, GoTo, Types, OwnType, Calls
<1>2. Queued \in 0 .. Capacity /\ write_index \in Indices /\ read_index \in Indices
      /\ accepted \in 0 .. MaxFrames
  <2>1. QueueType /\ Queued <= Capacity
    BY DEF Queueing, QueueInv, Types
  <2> QED
    BY <2>1, Places DEF QueueType, Queueing, QueueInv
<1>3. n \in 1 .. FreeSpace /\ accepted + n <= MaxFrames /\ n \in 1 .. Capacity - Queued
  BY <1>1 DEF Queueing, WriteInv, FreeSpace
<1>4. n \in 1 .. Capacity /\ Capacity \in Nat \ {0} /\ MaxFrames \in Nat
  BY <1>2, <1>3, Constants
<1>5. ASSUME NEW k \in 0 .. n - 1
      PROVE  at(k) \in Slots /\ at(k) = live(Queued + k) /\ Queued + k \in 0 .. IndexRange - 1
  <2>1. k \in 0 .. Capacity /\ QueueType /\ Queued <= Capacity
    BY <1>2, <1>4 DEF Types
  <2> QED
    BY <2>1, Places
<1>6. ASSUME NEW k \in 0 .. n - 1
      PROVE  (at(k) - write_index) % Capacity = k
  <2>1. at(k) = (write_index + k) % Capacity
    <3>1. k \in 0 .. IndexRange - 1
      BY <1>4, Constants
    <3> QED
      BY <1>2, <3>1, SlotValue
  <2> DEFINE x == write_index + k
             q == x \div Capacity
             r == x % Capacity
  <2>5. x \in Int
    BY <1>2, <1>4, Constants DEF Indices
  <2> HIDE DEF x
  <2>6. x = Capacity * q + r /\ q \in Int /\ r \in Int
    BY <1>4, <2>5, Remainder
  <2> HIDE DEF q, r
  <2>2. write_index + k = Capacity * q + r /\ q \in Int /\ r \in Int
    BY <2>6 DEF x
  <2>3. r - write_index = Capacity * (0 - q) + k
    BY <1>2, <1>4, <2>2, Constants DEF Indices
  <2>4. (Capacity * (0 - q) + k) % Capacity = k
    <3>1. 0 - q \in Int /\ k \in 0 .. Capacity - 1
      BY <1>4, <2>2
    <3> QED
      BY <1>4, <3>1, RemainderOf
  <2> QED
    BY <2>1, <2>3, <2>4 DEF r, x
<1>7. queue' = [s \in Slots |-> IF s \in Region(write_index, n)
                                THEN accepted + 1 + ((s - write_index) % Capacity)
                                ELSE queue[s]]
  BY DEF WriteCopy
<1>8. Region(write_index, n) = {at(k) : k \in 0 .. n - 1}
  BY DEF Region
<1>9. \A k \in 0 .. n - 1 : queue'[at(k)] = accepted + 1 + k
  <2>1. TAKE k \in 0 .. n - 1
  <2>2. at(k) \in Slots /\ at(k) \in Region(write_index, n)
    BY <1>5, <1>8
  <2> HIDE DEF at
  <2>3. queue'[at(k)] = accepted + 1 + ((at(k) - write_index) % Capacity)
    BY <1>7, <2>2
  <2> QED
    BY <1>6, <2>3
<1>10. \A k \in 0 .. Queued - 1 : queue'[live(k)] = queue[live(k)]
  <2>1. TAKE k \in 0 .. Queued - 1
  <2>2. k \in 0 .. IndexRange - 1
    BY <1>2, <1>4, Constants
  <2>3. live(k) \in Slots
    BY <1>2, <2>2, SlotValue
  <2>4. live(k) \notin Region(write_index, n)
    <3>1. SUFFICES ASSUME NEW j \in 0 .. n - 1, live(k) = at(j) PROVE FALSE
      BY <1>8
    <3>2. live(k) = live(Queued + j) /\ Queued + j \in 0 .. IndexRange - 1
      BY <1>5, <3>1
    <3>3. k - (Queued + j) < Capacity /\ (Queued + j) - k < Capacity /\ k # Queued + j
      BY <1>2, <1>3, <1>4, <3>1
    <3> QED
      BY <1>2, <2>2, <3>2, <3>3, SlotsDiffer
  <2> HIDE DEF live
  <2> QED
    BY <1>7, <2>3, <2>4
<1>11. queue' \in [Slots -> 0 .. MaxFrames]
  <2>1. ASSUME NEW s \in Slots PROVE queue'[s] \in 0 .. MaxFrames
    <3>1. CASE s \in Region(write_index, n)
      <4>1. PICK k \in 0 .. n - 1 : s = at(k)
        BY <1>8, <3>1
      <4>2. queue'[s] = accepted + 1 + k
        BY <1>9, <4>1
      <4> QED
        BY <1>2, <1>3, <1>4, <4>2
    <3>2. CASE s \notin Region(write_index, n)
      BY <1>7, <3>2 DEF Queueing, QueueInv
    <3> QED
      BY <3>1, <3>2
  <2> QED
    BY <1>7, <2>1
<1>12. Queued' = Queued /\ Undelivered' = Undelivered
  BY <1>1 DEF Queued, Undelivered
<1>13. QueueInv'
  BY <1>1, <1>10, <1>11, <1>12 DEF Queueing, QueueInv
<1>14. CycleInv'
  BY <1>1, <1>12 DEF Queueing, CycleInv
<1>15. WriteInv'
  <2>1. FreeSpace' = FreeSpace
    BY <1>12 DEF FreeSpace
  <2> QED
    BY <1>1, <1>3, <1>9, <2>1 DEF WriteInv
<1> QED
  BY <1>13, <1>14, <1>15 DEF Queueing

(* A write that stores write_index adds its frames behind the queued ones. *)
LEMMA PublishQueueing ==
    ASSUME Types, Queueing, OwnerQueue, WritePublish
    PROVE  Queueing'
<1> DEFINE n == own.count
<1>1. /\ own.pc = "publish" /\ own'.pc = "idle"
      /\ write_index' = IndexAdd(write_index, n) /\ accepted' = accepted + n
      /\ UNCHANGED <<queue, read_index, delivered, cyc>>
  BY DEF OwnerQueue, WritePublish, Return, NoCall
<1>2. /\ Queued \in 0 .. Capacity /\ write_index = IndexAdd(read_index, Queued)
      /\ write_index \in Indices /\ read_index \in Indices
      /\ accepted \in 0 .. MaxFrames /\ delivered \in Int /\ cyc.count \in Int
      /\ \A k \in 0 .. Capacity :
            SlotOf(IndexAdd(write_index, k)) = SlotOf(IndexAdd(read_index, Queued + k))
  <2>1. QueueType /\ Queued <= Capacity
    BY DEF Queueing, QueueInv, Types
  <2> QED
    BY <2>1, Places DEF QueueType, Queueing, QueueInv, Types, CycType, Cycles
<1>3. n \in 1 .. Capacity - Queued /\ accepted + n <= MaxFrames
  BY <1>1 DEF Queueing, WriteInv, FreeSpace
<1>4. n \in 1 .. Capacity /\ Capacity \in Nat \ {0} /\ MaxFrames \in Nat
  BY <1>2, <1>3, Constants
<1>5. \A k \in 0 .. n - 1 : queue[SlotOf(IndexAdd(write_index, k))] = accepted + 1 + k
  BY <1>1 DEF Queueing, WriteInv
<1> HIDE DEF n
<1>6. Queued' = Queued + n
  <2>1. /\ Queued \in Nat /\ n \in Nat /\ Queued + n < IndexRange
        /\ Queued + n \in 0 .. IndexRange - 1
    BY <1>2, <1>3, <1>4, Constants
  <2>2. write_index' = IndexAdd(read_index, Queued + n)
    BY <1>1, <1>2, <2>1, AddTwice
  <2>3. (write_index' - read_index) % IndexRange = Queued + n
    BY <1>2, <2>1, <2>2, DistanceOfSum
  <2> QED
    BY <1>1, <2>3 DEF Queued
<1>7. ASSUME NEW k \in 0 .. Queued + n - 1
      PROVE  queue[SlotOf(IndexAdd(read_index, k))] = accepted - Queued + 1 + k
  <2>1. CASE k < Queued
    <3>1. k \in 0 .. Queued - 1
      BY <1>2, <1>4, <2>1
    <3> QED
      BY <3>1 DEF Queueing, QueueInv
  <2>2. CASE k >= Queued
    <3>1. k - Queued \in 0 .. n - 1 /\ k - Queued \in 0 .. Capacity /\ Queued + (k - Queued) = k
      BY <1>2, <1>4, <2>2
    <3>2. SlotOf(IndexAdd(write_index, k - Queued)) = SlotOf(IndexAdd(read_index, k))
      BY <1>2, <3>1
    <3>3. queue[SlotOf(IndexAdd(read_index, k))] = accepted + 1 + (k - Queued)
      BY <1>5, <3>1, <3>2
    <3>4. accepted + 1 + (k - Queued) = accepted - Queued + 1 + k
      BY <1>2, <1>4
    <3> QED
      BY <3>3, <3>4
  <2> QED
    BY <1>2, <1>4, <2>1, <2>2
<1>8. QueueInv'
  <2>1. \A k \in 0 .. Queued' - 1 :
          queue'[SlotOf(IndexAdd(read_index', k))] = accepted' - Queued' + 1 + k
    <3>1. accepted' - Queued' = accepted - Queued
      BY <1>1, <1>2, <1>4, <1>6
    <3>2. TAKE k \in 0 .. Queued' - 1
    <3>3. k \in 0 .. Queued + n - 1
      BY <1>2, <1>4, <1>6
    <3>4. queue'[SlotOf(IndexAdd(read_index', k))] = accepted - Queued + 1 + k
      BY <1>1, <1>7, <3>3
    <3> QED
      BY <3>1, <3>4
  <2>2. Queued' <= Capacity
    BY <1>2, <1>3, <1>4, <1>6
  <2>3. Undelivered \in Int /\ Undelivered' = Undelivered + n
    BY <1>1, <1>2, <1>4, <1>6 DEF Undelivered
  <2>4. accepted' = delivered' + Undelivered'
    BY <1>1, <1>2, <1>4, <2>3 DEF Queueing, QueueInv
  <2>5. accepted' \in 0 .. MaxFrames
    BY <1>1, <1>2, <1>3, <1>4
  <2> QED
    BY <1>1, <2>1, <2>2, <2>4, <2>5 DEF Queueing, QueueInv
<1>9. CycleInv'
  BY <1>1, <1>2, <1>4, <1>6 DEF Queueing, CycleInv
<1>10. WriteInv'
  BY <1>1 DEF WriteInv
<1> QED
  BY <1>8, <1>9, <1>10 DEF Queueing

(* The owner resets the indices only when no cycle uses the queue: this is
   where the queue needs the handshake. *)
LEMMA ClearQueueing ==
    ASSUME Types, Control, Queueing, OwnerQueue, ClearQueue
    PROVE  Queueing'
<1>1. /\ own.pc = "clear" /\ own'.pc = "idle"
      /\ read_index' = 0 /\ write_index' = 0 /\ delivered' = accepted
      /\ UNCHANGED <<queue, accepted, cyc>>
  BY DEF OwnerQueue, ClearQueue, Return, NoCall
<1>2. cyc.pc = "idle" \/ cyc.state = "STOPPED"
  BY <1>1 DEF Control, Phases, Handshake
<1>3. cyc.count \in Nat
  BY DEF Types, CycType, Cycles
<1>4. Queued' = 0
  BY <1>1, Constants, OneTurn DEF Queued
<1>5. cyc.pc \in {"tail", "retire"} => cyc.count = 0
  BY <1>2, <1>3 DEF Queueing, CycleInv
<1>6. Undelivered' = 0
  BY <1>1, <1>4, <1>5 DEF Undelivered
<1>7. QueueInv'
  BY <1>1, <1>4, <1>6, Constants DEF Queueing, QueueInv
<1>8. CycleInv'
  BY <1>1, <1>2, <1>3 DEF Queueing, CycleInv
<1>9. WriteInv'
  BY <1>1 DEF WriteInv
<1> QED
  BY <1>7, <1>8, <1>9 DEF Queueing

(* Where the owner stands after it moves on. *)
LEMMA GoToPc == ASSUME Types, NEW label, GoTo(label) PROVE own'.pc = label
BY DEF GoTo, Types, OwnType, Calls

(* Where the owner stands after a return or a failure. *)
LEMMA IdlePc == ASSUME NEW reason, Return \/ Fail(reason) PROVE own'.pc = "idle"
BY DEF Return, Fail, NoCall

(* Only a write begins a copy. *)
LEMMA ControlPc ==
    ASSUME Types, OwnerControl, ~(\E n \in 0 .. MaxWrite : Write(n))
    PROVE  own'.pc \notin {"copy", "publish"}
<1>1. CASE HealthBroken
  BY <1>1, IdlePc DEF HealthBroken
<1>2. CASE HealthGraph
  <2>1. CASE own' = [own EXCEPT !.pc = "scan", !.version = graph_version, !.mask = {}]
    BY <2>1 DEF Types, OwnType, Calls
  <2> QED
    BY <1>2, <2>1, GoToPc DEF HealthGraph
<1>3. CASE ScanPort
  BY <1>3 DEF ScanPort, Types, OwnType, Calls
<1>4. CASE AwaitState
  BY <1>4, GoToPc, IdlePc DEF AwaitState
<1>5. CASE Start \/ Stop \/ PauseOrResume
  BY <1>5, GoToPc, IdlePc DEF Start, Stop, PauseOrResume
<1>6. CASE DrainQueue
  BY <1>6 DEF DrainQueue, Types, OwnType, Calls
<1>7. CASE DrainTail \/ Query
  BY <1>7, IdlePc DEF DrainTail, Query
<1>8. CASE CloseClient
  BY <1>8, GoToPc DEF CloseClient
<1> QED
  BY <1>1, <1>2, <1>3, <1>4, <1>5, <1>6, <1>7, <1>8 DEF OwnerControl

(* The owner's other work does not begin a copy either. *)
LEMMA OtherPc ==
    ASSUME Types, OwnerRefresh \/ OwnerWatch \/ OwnerSetup \/ OwnerCall
    PROVE  own'.pc \notin {"copy", "publish"}
<1>1. CASE OwnerRefresh
  BY <1>1, GoToPc DEF OwnerRefresh, StoreMask, StoreSeen
<1>2. CASE OwnerWatch
  <2>1. CASE Watchdog
    BY <2>1, GoToPc, IdlePc DEF Watchdog
  <2>2. CASE RequestState
    BY <2>2 DEF RequestState, Types, OwnType, Calls
  <2> QED
    BY <1>2, <2>1, <2>2 DEF OwnerWatch
<1>3. CASE OwnerSetup
  BY <1>3, GoToPc, IdlePc DEF OwnerSetup, Activate, ConnectPorts
<1>4. CASE OwnerCall
  BY <1>4 DEF OwnerCall, Close, Call, Types, OwnType, Calls
<1> QED
  BY <1>1, <1>2, <1>3, <1>4

(* Every step keeps the queue. *)
LEMMA StepQueueing == Types /\ Control /\ Queueing /\ [Next]_vars => Queueing'
<1> SUFFICES ASSUME Types, Control, Queueing, [Next]_vars PROVE Queueing'
  OBVIOUS
<1>1. CASE UNCHANGED vars
  BY <1>1, QueueUntouched DEF vars, history
<1>2. CASE ProcessStep
  BY <1>2, ProbeQueueing, EffectQueueing DEF ProcessStep
<1>3. CASE ServerStep
  BY <1>3, QueueUntouched DEF ServerStep, Relink, PortConnect, Retune, RecordFault, history
<1>4. CASE Tick
  <2>1. own'.pc = own.pc /\ own'.count = own.count
    BY <1>4 DEF Tick, Types, OwnType, Calls
  <2> QED
    BY <1>4, <2>1, QueueUntouched DEF Tick, history
<1>5. CASE OwnerControl
  <2>1. CASE \E n \in 0 .. MaxWrite : Write(n)
    BY <1>5, <2>1, BeginWriteQueueing
  <2>2. CASE ~(\E n \in 0 .. MaxWrite : Write(n))
    <3>1. own'.pc \notin {"copy", "publish"}
      BY <1>5, <2>2, ControlPc
    <3> QED
      BY <1>5, <3>1, QueueUntouched DEF OwnerControl, history
  <2> QED
    BY <2>1, <2>2
<1>6. CASE OwnerRefresh \/ OwnerWatch \/ OwnerSetup \/ OwnerCall
  <2>1. own'.pc \notin {"copy", "publish"}
    BY <1>6, OtherPc
  <2> QED
    BY <1>6, <2>1, QueueUntouched
       DEF OwnerRefresh, OwnerWatch, OwnerSetup, OwnerCall, history
<1>7. CASE OwnerQueue
  BY <1>7, ClearQueueing, WriteCopyQueueing, PublishQueueing DEF OwnerQueue
<1> QED
  BY <1>1, <1>2, <1>3, <1>4, <1>5, <1>6, <1>7 DEF Next, OwnerStep

-----------------------------------------------------------------------------
(* The inductive invariant. *)
JackInv == Types /\ Control /\ Queueing

(* The slots a write copies into and the slots a cycle copies out of have
   nothing in common, whatever the two do at the same time. *)
LEMMA RegionsApart ==
    ASSUME JackInv, own.pc = "copy", cyc.pc = "copy"
    PROVE  Region(write_index, own.count) \intersect Region(cyc.read, cyc.count) = {}
<1>1. /\ own.count \in 1 .. Capacity - Queued /\ cyc.count \in 1 .. Queued
      /\ cyc.read = read_index
  BY DEF JackInv, Queueing, WriteInv, CycleInv, FreeSpace, Types, CycType, Cycles
<1>2. /\ Queued \in 0 .. Capacity /\ read_index \in Indices
      /\ \A k \in 0 .. Capacity :
            /\ Queued + k \in 0 .. IndexRange - 1
            /\ SlotOf(IndexAdd(write_index, k)) = SlotOf(IndexAdd(read_index, Queued + k))
  <2>1. QueueType /\ Queued <= Capacity
    BY DEF JackInv, Queueing, QueueInv, Types
  <2> QED
    BY <2>1, Places DEF QueueType
<1>3. ASSUME NEW k \in 0 .. own.count - 1, NEW j \in 0 .. cyc.count - 1,
             SlotOf(IndexAdd(write_index, k)) = SlotOf(IndexAdd(read_index, j))
      PROVE  FALSE
  <2>1. k \in 0 .. Capacity /\ j \in 0 .. IndexRange - 1
    BY <1>1, <1>2, Constants
  <2>2. (Queued + k) - j < Capacity /\ j - (Queued + k) < Capacity /\ Queued + k # j
    BY <1>1, <1>2, Constants
  <2>3. /\ Queued + k \in 0 .. IndexRange - 1
        /\ SlotOf(IndexAdd(read_index, Queued + k)) = SlotOf(IndexAdd(read_index, j))
    BY <1>2, <1>3, <2>1
  <2> QED
    BY <1>2, <2>1, <2>2, <2>3, SlotsDiffer
<1> QED
  BY <1>1, <1>3 DEF Region

(* JackInv holds in every reachable state, whatever the interleaving of the
   owner, the process callback, the graph callbacks and the server. *)
THEOREM JackInvariant == Spec => []JackInv
<1>1. Init => JackInv
  BY InitTypes, InitControl, InitQueueing DEF JackInv
<1>2. JackInv /\ [Next]_vars => JackInv'
  BY StepTypes, StepControl, StepQueueing DEF JackInv
<1> QED
  BY <1>1, <1>2, PTL DEF Spec

(* Every variable keeps its type, at every size of the queue and the indices:
   the frames queued never exceed the capacity, though both indices wrap. *)
THEOREM TypesAlways == Spec => []TypeOK
<1>1. JackInv => TypeOK
  BY DEF JackInv, Types, Queueing, QueueInv, StateType, GraphType, QueueType, TypeOK,
     States, Reasons, Indices
<1> QED
  BY <1>1, JackInvariant, PTL

(* A call of start, stop, pause or resume that has returned with the output
   healthy has left the requested and the acknowledged state equal, and no
   cycle still runs under another one. *)
THEOREM RequestsSettle == Spec => []Settled
<1>1. JackInv => Settled
  BY DEF JackInv, Control, Phases, Handshake, Settled, Polling
<1> QED
  BY <1>1, JackInvariant, PTL

(* jack_write and the process callback, which take no lock, never copy to and
   from the same slot at the same time. *)
THEOREM QueueIsRaceFree == Spec => []NoDataRace
<1>1. JackInv => NoDataRace
  BY RegionsApart DEF NoDataRace
<1> QED
  BY <1>1, JackInvariant, PTL

(* A cycle's copy hands the server the oldest frames not yet delivered, in
   order. *)
LEMMA CopyRefines ==
    ASSUME JackInv, CycleEffect, CycleCopy
    PROVE  Abstract!Take(cyc.count)
<1> DEFINE n == cyc.count
<1>1. /\ cyc.pc = "copy" /\ n \in Nat /\ n <= Queued /\ cyc.read = read_index
      /\ read_index \in Indices
      /\ Queued \in Nat /\ delivered \in Int /\ accepted = delivered + Queued
  <2>1. Queued \in Nat
    BY QueuedType DEF JackInv, Types
  <2> QED
    BY <2>1 DEF CycleCopy, JackInv, Types, CycType, Cycles, QueueType, Queueing, CycleInv, QueueInv,
       Undelivered
<1>2. /\ output' = [i \in 1 .. n |-> queue[SlotOf(IndexAdd(cyc.read, i - 1))]]
      /\ delivered' = delivered + n /\ accepted' = accepted
  BY DEF CycleEffect, CycleCopy
<1> HIDE DEF n
<1>3. ASSUME NEW i \in 1 .. n
      PROVE  queue[SlotOf(IndexAdd(cyc.read, i - 1))] = delivered + i
  <2>1. i - 1 \in 0 .. Queued - 1
    BY <1>1
  <2>2. queue[SlotOf(IndexAdd(read_index, i - 1))] = accepted - Queued + 1 + (i - 1)
    BY <2>1 DEF JackInv, Queueing, QueueInv
  <2>3. accepted - Queued + 1 + (i - 1) = delivered + i
    BY <1>1
  <2> QED
    BY <1>1, <2>2, <2>3
<1>4. output' = [i \in 1 .. n |-> delivered + i]
  BY <1>2, <1>3
<1>5. delivered + n <= accepted
  BY <1>1
<1> QED
  BY <1>2, <1>4, <1>5 DEF Abstract!Take, n

(* A write's store of write_index accepts as many frames as the queue has
   room for. *)
LEMMA PublishRefines ==
    ASSUME JackInv, OwnerQueue, WritePublish
    PROVE  own.count \in 1 .. Capacity /\ Abstract!Put(own.count)
<1> DEFINE n == own.count
<1>1. /\ n \in 1 .. Capacity - Queued /\ Queued \in Nat /\ accepted \in Int /\ delivered \in Int
      /\ accepted - delivered <= Queued
  <2>1. Queued \in Nat
    BY QueuedType DEF JackInv, Types
  <2>2. accepted \in Int /\ delivered \in Int /\ cyc.count \in Nat
    BY DEF JackInv, Types, QueueType, CycType, Cycles
  <2>3. accepted - delivered <= Queued
    BY <2>1, <2>2 DEF JackInv, Queueing, QueueInv, Undelivered
  <2>4. n \in 1 .. Capacity - Queued
    BY DEF WritePublish, JackInv, Queueing, WriteInv, FreeSpace
  <2> QED
    BY <2>1, <2>2, <2>3, <2>4
<1>2. accepted' = accepted + n /\ UNCHANGED <<delivered, output>>
  BY DEF OwnerQueue, WritePublish
<1> HIDE DEF n
<1>3. n \in 1 .. Capacity /\ accepted + n - delivered <= Capacity
  BY <1>1, Constants
<1> QED
  BY <1>2, <1>3 DEF Abstract!Put, n

(* Every step of the back end is a step of Fifo or leaves Fifo's variables
   unchanged. *)
LEMMA StepRefines ==
    JackInv /\ [Next]_vars => [Abstract!Next]_(Abstract!fifoVars)
<1> SUFFICES ASSUME JackInv, [Next]_vars
             PROVE  [Abstract!Next]_(Abstract!fifoVars)
  OBVIOUS
<1>1. CASE UNCHANGED <<accepted, delivered, output>>
  BY <1>1 DEF Abstract!fifoVars
<1>2. CASE CycleEffect /\ CycleCopy
  <2>1. cyc.count \in 0 .. Capacity
    <3>1. Queued \in Nat /\ cyc.count \in Nat
      BY QueuedType DEF JackInv, Types, CycType, Cycles
    <3> QED
      BY <1>2, <3>1, Constants DEF CycleCopy, JackInv, Queueing, CycleInv, QueueInv
  <2> QED
    BY <1>2, <2>1, CopyRefines DEF Abstract!Next
<1>3. CASE OwnerQueue /\ WritePublish
  BY <1>3, PublishRefines DEF Abstract!Next
<1>4. CASE OwnerQueue /\ ClearQueue
  BY <1>4 DEF OwnerQueue, ClearQueue, Abstract!Next, Abstract!Discard
<1>5. CASE ProcessStep /\ ~CycleCopy
  BY <1>1, <1>5 DEF ProcessStep, CycleBegin, CycleProbe, CycleEffect, CycleTail, CycleRetire,
     CycleAck, history
<1>6. CASE ServerStep \/ Tick
  BY <1>1, <1>6 DEF ServerStep, Relink, PortConnect, Retune, RecordFault, Tick, history
<1>7. CASE OwnerControl \/ OwnerRefresh \/ OwnerWatch \/ OwnerSetup \/ OwnerCall
  BY <1>1, <1>7 DEF OwnerControl, OwnerRefresh, OwnerWatch, OwnerSetup, OwnerCall, history
<1>8. CASE OwnerQueue /\ WriteCopy
  BY <1>1, <1>8 DEF OwnerQueue, WriteCopy
<1>9. CASE UNCHANGED vars
  BY <1>1, <1>9 DEF vars, history
<1>10. CycleCopy /\ ProcessStep => CycleEffect \/ UNCHANGED <<accepted, delivered, output>>
  BY DEF ProcessStep, CycleBegin, CycleProbe, history
<1> QED
  BY <1>1, <1>2, <1>3, <1>4, <1>5, <1>6, <1>7, <1>8, <1>9, <1>10
     DEF Next, OwnerStep, OwnerQueue

(* The back end's queue is a first-in first-out queue of frames: the callback
   plays what was written, in order, once, until stop discards the rest. *)
THEOREM JackImplementsFifo == Spec => ImplementsFifo
<1>1. Init => Abstract!Init
  BY DEF Init, Abstract!Init
<1>2. JackInv /\ [Next]_vars => [Abstract!Next]_(Abstract!fifoVars)
  BY StepRefines
<1> QED
  BY <1>1, <1>2, JackInvariant, PTL DEF Spec, ImplementsFifo, Abstract!Spec

-----------------------------------------------------------------------------
(* Routing: what the owner's scan of the ports and the gate of a cycle know of
   the graph.  Both rest on two facts: the version never falls, and while it
   stays and every change has been notified, the links stay. *)
Scanning == {"scan", "mask", "seen"}

(* A scan begins with a version newer than the last one vouched for, has looked
   at the ports below `count`, and is right about them unless its version has
   become an old one meanwhile. *)
ScanInv ==
    /\ own.pc \in Scanning => graph_seen < own.version
    /\ own.pc = "scan" => own.count \in Channels
    /\ own.pc \notin {"scan", "copy", "publish", "drain"} => own.count = 0
    /\ own.version = graph_version /\ net.unnotified = 0 =>
          /\ own.pc = "scan" => own.mask = net.links \intersect (0 .. own.count - 1)
          /\ own.pc = "mask" => own.mask = net.links
          /\ own.pc = "seen" => connected = net.links

(* The cycle past the gate: its version has been vouched for, and if it is the
   version of now, every channel has its link. *)
GateInv ==
    /\ cyc.pc \in {"seen", "mask", "recheck", "load", "copy"} => cyc.version <= graph_version
    /\ cyc.pc \in {"mask", "recheck", "load", "copy"} => cyc.version <= graph_seen
    /\ /\ cyc.pc \in {"recheck", "load", "copy"}
       /\ graph_version = cyc.version /\ net.unnotified = 0
       => net.links = Channels

Routing == ScanInv /\ SnapshotAccurate /\ GateInv

(* A new output vouches for no graph. *)
LEMMA InitRouting == Init => Routing
BY DEF Init, Routing, ScanInv, SnapshotAccurate, GateInv, NoCall, Scanning

(* What any step does to the graph: the version grows, or a change waits to be
   notified, or the links are the ones they were. *)
LEMMA GraphDrift ==
    ASSUME Types, [Next]_vars
    PROVE  /\ graph_version \in Nat /\ graph_version' \in Nat
           /\ graph_version <= graph_version'
           /\ graph_version' = graph_version /\ net'.unnotified = 0
                => net'.links = net.links /\ net.unnotified = 0
<1>0. graph_version \in Nat /\ net \in Nets
  BY DEF Types, GraphType, NetType
<1>1. CASE UNCHANGED <<graph_version, net>>
  BY <1>0, <1>1
<1>2. ASSUME NEW ch \in Channels, Relink(ch)
      PROVE  UNCHANGED graph_version /\ net'.unnotified > 0
  <2>1. net'.unnotified = net.unnotified + 1
    BY <1>0, <1>2 DEF Relink, Nets
  <2> QED
    BY <1>0, <1>2, <2>1 DEF Relink, atomics, Nets
<1>3. CASE PortConnect
  BY <1>0, <1>3 DEF PortConnect
<1>4. ASSUME NEW frames \in Periods, NEW max \in Latencies, Retune(frames, max)
      PROVE  /\ UNCHANGED graph_version
             /\ net'.links = net.links /\ net'.unnotified = net.unnotified
  BY <1>0, <1>4 DEF Retune, atomics, Nets
<1>5. CASE RecordFault
  BY <1>0, <1>5 DEF RecordFault, Nets
<1>6. ASSUME NEW made \in SUBSET Channels, ConnectPorts(made)
      PROVE  \/ UNCHANGED <<graph_version, net>>
             \/ graph_version' = graph_version + 1
             \/ UNCHANGED graph_version /\ net'.unnotified > 0
  <2>1. CASE net' = net
    BY <1>6, <2>1 DEF ConnectPorts
  <2>2. CASE net' = [net EXCEPT !.links = made, !.unnotified = net.unnotified + 1]
    <3>1. net'.unnotified = net.unnotified + 1 /\ net.unnotified \in Nat
      BY <1>0, <2>2 DEF Nets
    <3> QED
      BY <1>6, <3>1 DEF ConnectPorts
  <2> QED
    BY <1>6, <2>1, <2>2 DEF ConnectPorts
<1>7. CASE ServerStep
  BY <1>0, <1>2, <1>3, <1>4, <1>5, <1>7 DEF ServerStep
<1>8. CASE OwnerSetup
  BY <1>0, <1>6, <1>8 DEF OwnerSetup, Activate
<1>9. CASE UNCHANGED vars \/ ProcessStep \/ Tick \/ OwnerControl \/ OwnerRefresh
           \/ OwnerWatch \/ OwnerQueue \/ OwnerCall
  BY <1>1, <1>9 DEF vars, ProcessStep, CycleBegin, CycleProbe, CycleEffect, Tick,
     OwnerControl, OwnerRefresh, OwnerWatch, OwnerQueue, OwnerCall, atomics
<1> QED
  BY <1>7, <1>8, <1>9 DEF Next, OwnerStep

(* The owner is outside the scan after the step. *)
Outside ==
    /\ own'.pc \notin Scanning
    /\ own'.pc \notin {"copy", "publish", "drain"} => own'.count = 0

(* A step that leaves the snapshot alone and neither begins nor advances a scan
   keeps what is known of the graph. *)
LEMMA ScanKept ==
    ASSUME Types, ScanInv, SnapshotAccurate, [Next]_vars, UNCHANGED refresh,
           \/ /\ own'.pc = own.pc /\ own'.version = own.version
              /\ own'.mask = own.mask /\ own'.count = own.count
           \/ Outside
    PROVE  ScanInv' /\ SnapshotAccurate'
<1>1. /\ graph_seen \in Nat /\ graph_seen <= graph_version
      /\ own.version \in Nat /\ own.version <= graph_version
      /\ UNCHANGED <<graph_seen, connected>>
  BY DEF Types, GraphType, OwnType, Calls, refresh
<1>2. SnapshotAccurate'
  BY <1>1, GraphDrift DEF SnapshotAccurate
<1>3. CASE Outside
  BY <1>2, <1>3 DEF Outside, ScanInv, Scanning
<1>4. CASE /\ own'.pc = own.pc /\ own'.version = own.version
           /\ own'.mask = own.mask /\ own'.count = own.count
  <2>1. own'.version = graph_version' => graph_version' = graph_version
    BY <1>1, <1>4, GraphDrift
  <2> QED
    BY <1>1, <1>2, <1>4, <2>1, GraphDrift DEF ScanInv, Scanning
<1> QED
  BY <1>3, <1>4

(* A step of an owner to another label changes nothing else of its call. *)
LEMMA GoToOwn ==
    ASSUME Types, NEW label, GoTo(label)
    PROVE  /\ own'.pc = label /\ own'.op = own.op /\ own'.waiting = own.waiting
           /\ own'.version = own.version /\ own'.mask = own.mask /\ own'.count = own.count
BY DEF GoTo, Types, OwnType, Calls

(* After a return or a failure nothing of the call is left. *)
LEMMA IdleOwn ==
    ASSUME NEW reason, Return \/ Fail(reason)
    PROVE  own'.pc = "idle" /\ own'.count = 0 /\ ~own'.waiting
BY DEF Return, Fail, NoCall

(* The owner's other steps end up outside the scan. *)
LEMMA OutsideScan ==
    ASSUME Types, ScanInv,
           OwnerControl \/ OwnerWatch \/ OwnerSetup \/ OwnerQueue \/ OwnerCall,
           ~HealthGraph, ~ScanPort
    PROVE  Outside
<1>1. ASSUME NEW reason, Return \/ Fail(reason) PROVE Outside
  BY <1>1, IdleOwn DEF Outside, Scanning
<1>2. ASSUME NEW label, label \notin Scanning, GoTo(label),
             own.pc \notin {"scan", "copy", "publish", "drain"}
      PROVE  Outside
  BY <1>2, GoToOwn DEF Outside, ScanInv
<1>3. CASE HealthBroken \/ AwaitState
  BY <1>1, <1>2, <1>3 DEF HealthBroken, AwaitState, Scanning
<1>4. CASE Start \/ Stop \/ PauseOrResume \/ CloseClient
  BY <1>1, <1>2, <1>4 DEF Start, Stop, PauseOrResume, CloseClient, Scanning
<1>5. ASSUME NEW n \in 0 .. MaxWrite, Write(n) PROVE Outside
  <2>1. CASE Return
    BY <1>1, <2>1
  <2>2. CASE own' = [own EXCEPT !.pc = "copy", !.count = Least(n, FreeSpace)]
    <3>1. own'.pc = "copy"
      BY <2>2 DEF Types, OwnType, Calls
    <3> QED
      BY <3>1 DEF Outside, Scanning
  <2> QED
    BY <1>5, <2>1, <2>2 DEF Write
<1>6. CASE DrainQueue
  <2>1. own'.pc = "drain"
    BY <1>6 DEF DrainQueue, Types, OwnType, Calls
  <2> QED
    BY <2>1 DEF Outside, Scanning
<1>7. CASE DrainTail \/ Query
  BY <1>1, <1>7 DEF DrainTail, Query
<1>8. CASE OwnerWatch
  <2>1. CASE Watchdog
    BY <1>1, <1>2, <2>1 DEF Watchdog, Scanning
  <2>2. CASE RequestState
    <3>1. own'.pc = "health" /\ own'.count = own.count /\ own.pc = "request"
      BY <2>2 DEF RequestState, Types, OwnType, Calls
    <3> QED
      BY <3>1 DEF Outside, Scanning, ScanInv
  <2> QED
    BY <1>8, <2>1, <2>2 DEF OwnerWatch
<1>9. CASE OwnerSetup
  BY <1>1, <1>2, <1>9 DEF OwnerSetup, Activate, ConnectPorts, Scanning
<1>10. CASE OwnerQueue
  <2>1. CASE WriteCopy
    <3>1. own'.pc = "publish"
      BY <2>1, GoToOwn DEF WriteCopy
    <3> QED
      BY <3>1 DEF Outside, Scanning
  <2> QED
    BY <1>1, <1>10, <2>1 DEF OwnerQueue, ClearQueue, WritePublish
<1>11. CASE OwnerCall
  <2>1. own.pc = "idle" /\ own'.pc \in {"joining", "health"} /\ own'.count = own.count
    BY <1>11 DEF OwnerCall, Close, Call, Types, OwnType, Calls
  <2> QED
    BY <2>1 DEF Outside, Scanning, ScanInv
<1> QED
  BY <1>3, <1>4, <1>5, <1>6, <1>7, <1>8, <1>9, <1>10, <1>11 DEF OwnerControl

(* Every step keeps the scan and the snapshot. *)
LEMMA StepScan ==
    ASSUME Types, Types', ScanInv, SnapshotAccurate, [Next]_vars
    PROVE  ScanInv' /\ SnapshotAccurate' /\ graph_seen <= graph_seen'
<1>1. /\ graph_seen \in Nat /\ graph_seen <= graph_version /\ graph_version \in Nat
      /\ own \in Calls /\ own.version <= graph_version /\ net \in Nets
      /\ connected \subseteq Channels /\ net.links \subseteq Channels
  BY DEF Types, GraphType, OwnType, NetType, Nets
<1>2. CASE ~(HealthGraph /\ OwnerControl) /\ ~(ScanPort /\ OwnerControl) /\ ~OwnerRefresh
  <2>1. UNCHANGED refresh
    BY <1>2 DEF Next, vars, ProcessStep, CycleBegin, CycleProbe, CycleEffect, ServerStep,
       Relink, PortConnect, Retune, RecordFault, Tick, OwnerStep, OwnerControl, OwnerWatch,
       OwnerSetup, OwnerQueue, OwnerCall
  <2>2. CASE own' = own \/ Tick
    <3>1. /\ own'.pc = own.pc /\ own'.version = own.version
          /\ own'.mask = own.mask /\ own'.count = own.count
      BY <1>1, <2>2 DEF Tick, Calls
    <3> QED
      BY <1>1, <2>1, <3>1, ScanKept DEF refresh
  <2>3. CASE OwnerStep \/ OwnerCall
    <3>1. OwnerControl \/ OwnerWatch \/ OwnerSetup \/ OwnerQueue \/ OwnerCall
      BY <1>2, <2>3 DEF OwnerStep
    <3>2. ASSUME ~HealthGraph, ~ScanPort PROVE Outside
      BY <3>1, <3>2, OutsideScan
    <3>3. own.pc \in {"health", "scan"} /\ ~OwnerControl => Outside
      BY <3>1, GoToOwn, IdleOwn DEF OwnerWatch, Watchdog, RequestState, OwnerSetup,
         Activate, ConnectPorts, OwnerQueue, ClearQueue, WriteCopy, WritePublish,
         OwnerCall, Close, Call
    <3>4. Outside
      BY <1>2, <3>2, <3>3 DEF HealthGraph, ScanPort
    <3> QED
      BY <1>1, <2>1, <3>4, ScanKept DEF refresh
  <2> QED
    BY <2>2, <2>3 DEF Next, vars, ProcessStep, CycleBegin, CycleProbe, CycleEffect,
       ServerStep, Relink, PortConnect, Retune, RecordFault
<1>3. CASE HealthGraph /\ OwnerControl
  <2>1. own.pc = "health" /\ own.count = 0 /\ UNCHANGED <<refresh, net, graph_version>>
    BY <1>3 DEF HealthGraph, OwnerControl, atomics, ScanInv
  <2>2. CASE GoTo("watch")
    <3>1. Outside
      BY <2>1, <2>2, GoToOwn DEF Outside, Scanning
    <3> QED
      BY <1>1, <2>1, <3>1, ScanKept DEF refresh
  <2>3. CASE own' = [own EXCEPT !.pc = "scan", !.version = graph_version, !.mask = {}]
             /\ graph_version # graph_seen
    <3>1. /\ own'.pc = "scan" /\ own'.version = graph_version /\ own'.mask = {}
          /\ own'.count = 0
      BY <1>1, <2>1, <2>3 DEF Calls
    <3>2. 0 \in Channels /\ 0 .. 0 - 1 = {}
      BY Constants DEF Channels
    <3>3. graph_seen' = graph_seen /\ graph_seen < own'.version
      BY <1>1, <2>1, <2>3, <3>1 DEF refresh
    <3>4. ScanInv'
      BY <2>1, <3>1, <3>2, <3>3 DEF ScanInv, Scanning
    <3> QED
      BY <1>1, <2>1, <3>3, <3>4 DEF SnapshotAccurate, refresh
  <2> QED
    BY <1>3, <2>2, <2>3 DEF HealthGraph
<1>4. CASE ScanPort /\ OwnerControl
  <2> DEFINE k == own.count
             mask == own.mask \union (net.links \intersect {k})
  <2>1. own.pc = "scan" /\ k \in Channels /\ UNCHANGED <<refresh, net, graph_version>>
    BY <1>4 DEF ScanPort, OwnerControl, atomics, ScanInv
  <2>2. k \in Nat /\ k < NumChannels /\ NumChannels \in Nat
    BY <2>1, Constants DEF Channels
  <2>3. own' = [own EXCEPT !.mask = mask,
                           !.pc = IF k + 1 < NumChannels THEN "scan" ELSE "mask",
                           !.count = IF k + 1 < NumChannels THEN k + 1 ELSE 0]
    BY <1>4 DEF ScanPort
  <2>4. /\ own'.mask = mask /\ own'.version = own.version
        /\ own'.pc = IF k + 1 < NumChannels THEN "scan" ELSE "mask"
        /\ own'.count = IF k + 1 < NumChannels THEN k + 1 ELSE 0
    BY <1>1, <2>3 DEF Calls
  <2>5. graph_seen < own.version
    BY <2>1 DEF ScanInv, Scanning
  <2>6. own.version = graph_version /\ net.unnotified = 0
          => mask = net.links \intersect (0 .. k)
    <3>1. SUFFICES ASSUME own.version = graph_version, net.unnotified = 0
                   PROVE  mask = net.links \intersect (0 .. k)
      OBVIOUS
    <3>2. own.mask = net.links \intersect (0 .. k - 1)
      BY <2>1, <3>1 DEF ScanInv
    <3>3. 0 .. k = (0 .. k - 1) \union {k}
      BY <2>2
    <3> QED
      BY <3>2, <3>3
  <2> HIDE DEF mask, k
  <2>7. CASE k + 1 < NumChannels
    <3>1. own'.pc = "scan" /\ own'.count = k + 1 /\ k + 1 \in Channels /\ (k + 1) - 1 = k
      BY <2>2, <2>4, <2>7 DEF Channels
    <3>2. ScanInv'
      BY <2>1, <2>4, <2>5, <2>6, <3>1 DEF ScanInv, Scanning, refresh
    <3> QED
      BY <1>1, <2>1, <3>2 DEF SnapshotAccurate, refresh
  <2>8. CASE ~(k + 1 < NumChannels)
    <3>1. own'.pc = "mask" /\ own'.count = 0
      BY <2>4, <2>8
    <3>2. 0 .. k = Channels
      BY <2>2, <2>8 DEF Channels
    <3>3. own.version = graph_version /\ net.unnotified = 0 => mask = net.links
      BY <1>1, <2>6, <3>2
    <3>4. ScanInv'
      BY <2>1, <2>4, <2>5, <3>1, <3>3 DEF ScanInv, Scanning, refresh
    <3> QED
      BY <1>1, <2>1, <3>4 DEF SnapshotAccurate, refresh
  <2> QED
    BY <2>7, <2>8
<1>5. CASE OwnerRefresh
  <2>1. UNCHANGED <<net, graph_version>>
    BY <1>5 DEF OwnerRefresh, atomics
  <2>2. CASE StoreMask
    <3>1. /\ own.pc = "mask" /\ own'.pc = "seen" /\ connected' = own.mask
          /\ own'.version = own.version /\ own'.count = own.count /\ graph_seen' = graph_seen
      BY <2>2, GoToOwn DEF StoreMask
    <3>2. graph_seen < own.version /\ own.count = 0
      BY <3>1 DEF ScanInv, Scanning
    <3>3. ScanInv'
      BY <2>1, <3>1, <3>2 DEF ScanInv, Scanning
    <3>4. graph_seen # graph_version
      BY <1>1, <3>2 DEF Calls
    <3> QED
      BY <1>1, <2>1, <3>1, <3>3, <3>4 DEF SnapshotAccurate
  <2>3. CASE StoreSeen
    <3>1. /\ own.pc = "seen" /\ own'.pc = "watch" /\ own'.count = own.count
          /\ graph_seen' = own.version /\ connected' = connected
      BY <2>3, GoToOwn DEF StoreSeen
    <3>2. graph_seen < own.version /\ own.count = 0
      BY <3>1 DEF ScanInv, Scanning
    <3>3. ScanInv'
      BY <3>1, <3>2 DEF ScanInv, Scanning
    <3>4. SnapshotAccurate'
      BY <2>1, <3>1 DEF ScanInv, SnapshotAccurate
    <3> QED
      BY <1>1, <3>1, <3>2, <3>3, <3>4 DEF Calls
  <2> QED
    BY <1>5, <2>2, <2>3 DEF OwnerRefresh
<1> QED
  BY <1>2, <1>3, <1>4, <1>5

(* A step that is not the cycle's leaves it behind the gate it passed: a change
   of the graph makes its version an old one. *)
LEMMA GateKept ==
    ASSUME Types, Types', Routing, [Next]_vars, UNCHANGED cyc, graph_seen <= graph_seen'
    PROVE  GateInv'
<1>1. graph_seen \in Nat /\ graph_version \in Nat /\ cyc.version \in Nat
  BY DEF Types, GraphType, CycType, Cycles
<1>2. graph_seen' \in Nat
  BY DEF Types, GraphType
<1> QED
  BY <1>1, <1>2, GraphDrift DEF Routing, GateInv

(* The gate of a cycle lets it pass only with a snapshot of this graph. *)
LEMMA GatePassed ==
    ASSUME Types, Routing, ProcessStep
    PROVE  GateInv'
<1>1. /\ graph_seen \in Nat /\ graph_version \in Nat /\ graph_seen <= graph_version
      /\ cyc \in Cycles
      /\ UNCHANGED <<graph_seen, graph_version, connected, net>>
  BY DEF ProcessStep, CycleBegin, CycleProbe, CycleEffect, atomics, refresh, Types,
     GraphType, CycType
<1>2. CASE CycleBegin
  BY <1>1, <1>2 DEF CycleBegin, Cycles, GateInv
<1>3. CASE GateVersion
  BY <1>1, <1>3 DEF GateVersion, Cycles, GateInv
<1>4. CASE GateSeen
  BY <1>1, <1>4 DEF GateSeen, CycleGoTo, Cycles, GateInv
<1>5. CASE GateMask
  <2>1. /\ cyc'.pc \in {"recheck", "tail"}
        /\ cyc'.version = cyc.version /\ cyc.version <= graph_seen
    BY <1>1, <1>5 DEF GateMask, CycleGoTo, Cycles, Routing, GateInv
  <2>2. cyc'.pc = "recheck" => connected = Channels
    BY <1>1, <1>5 DEF GateMask, CycleGoTo, Cycles
  <2>3. graph_version = cyc.version => graph_seen = graph_version
    BY <1>1, <2>1
  <2> QED
    BY <1>1, <1>5, <2>1, <2>2, <2>3 DEF GateMask, Cycles, Routing, GateInv, SnapshotAccurate
<1>6. CASE GateRecheck \/ CycleLoad
  BY <1>1, <1>6 DEF GateRecheck, CycleLoad, CycleGoTo, Cycles, Routing, GateInv
<1>7. CASE CycleEffect
  BY <1>1, <1>7 DEF CycleEffect, CycleCopy, CycleTail, CycleRetire, CycleAck, CycleGoTo,
     Cycles, GateInv
<1> QED
  BY <1>2, <1>3, <1>4, <1>5, <1>6, <1>7 DEF ProcessStep, CycleProbe

(* Every step keeps what is known of the graph. *)
LEMMA StepRouting == Types /\ Types' /\ Routing /\ [Next]_vars => Routing'
<1> SUFFICES ASSUME Types, Types', Routing, [Next]_vars PROVE Routing'
  OBVIOUS
<1>1. ScanInv' /\ SnapshotAccurate' /\ graph_seen <= graph_seen'
  BY StepScan DEF Routing
<1>2. CASE ProcessStep
  BY <1>1, <1>2, GatePassed DEF Routing
<1>3. CASE ~ProcessStep
  <2>1. UNCHANGED cyc
    BY <1>3 DEF Next, vars, ServerStep, Relink, PortConnect, Retune, RecordFault, Tick,
       OwnerStep, OwnerControl, OwnerRefresh, OwnerWatch, OwnerSetup, OwnerQueue, OwnerCall
  <2> QED
    BY <1>1, <2>1, GateKept DEF Routing
<1> QED
  BY <1>2, <1>3

-----------------------------------------------------------------------------
(* Watching: while playing is asked for, the watchdog never believes process()
   to be silent for longer than it has been. *)
Watching ==
    /\ clock.silent \in Nat /\ clock.progress >= Never
    /\ requested_state = "PLAYING" => clock.progress <= clock.silent
    /\ StallIsReal

(* A new output plays nothing. *)
LEMMA InitWatching == Init => Watching
BY Constants DEF Init, Watching, StallIsReal, Never

(* A step that leaves the two ages and asks for nothing new. *)
LEMMA WatchKept ==
    ASSUME Watching,
           clock'.progress = clock.progress /\ clock'.silent = clock.silent,
           requested_state' = requested_state \/ requested_state' # "PLAYING",
           failed' = failed \/ failed' # "stalled"
    PROVE  Watching'
BY DEF Watching, StallIsReal

(* Every step keeps the ages in this order: the watchdog restarts its own when
   it sees a cycle, which has restarted the other one already. *)
LEMMA StepWatching == Types /\ Control /\ Watching /\ [Next]_vars => Watching'
<1> SUFFICES ASSUME Types, Control, Watching, [Next]_vars PROVE Watching'
  OBVIOUS
<1>1. clock \in Clocks /\ Timeout \in Nat \ {0}
  BY Constants DEF Types, ClockType
<1>2. CASE UNCHANGED <<clock, requested_state, failed>>
  BY <1>2, WatchKept
<1>3. CASE CycleBegin
  <2>1. CASE Timed /\ failed = "no"
    <3>1. clock'.progress = Never /\ clock'.silent = 0
      BY <1>1, <1>3, <2>1 DEF CycleBegin, Clocks
    <3> QED
      BY <1>3, <2>1, <3>1 DEF CycleBegin, request, Watching, StallIsReal, Never
  <2>2. CASE ~(Timed /\ failed = "no")
    BY <1>2, <1>3, <2>2 DEF CycleBegin, request
  <2> QED
    BY <2>1, <2>2
<1>4. CASE Tick
  <2>1. /\ clock'.progress = Older(clock.progress)
        /\ clock'.silent = IF clock.progress = Never THEN clock.silent
                           ELSE Older(clock.silent)
        /\ failed = "no" /\ UNCHANGED <<requested_state, failed>>
    BY <1>4 DEF Tick, request
  <2>2. clock.progress \in Int /\ clock.silent \in Nat /\ clock.progress >= Never
    BY <1>1 DEF Clocks, Watching
  <2> QED
    BY <1>1, <2>1, <2>2 DEF Watching, StallIsReal, Older, Never
<1>5. CASE OwnerControl
  <2>1. UNCHANGED clock
    BY <1>5 DEF OwnerControl
  <2>2. \/ UNCHANGED <<requested_state, failed>>
        \/ requested_state' # "PLAYING" /\ failed' # "stalled"
    BY <1>5 DEF OwnerControl, HealthBroken, HealthGraph, ScanPort, AwaitState, Start, Stop,
       PauseOrResume, Write, DrainQueue, DrainTail, Query, CloseClient, GoTo, Return, Fail,
       request
  <2> QED
    BY <2>1, <2>2, WatchKept
<1>6. CASE OwnerWatch /\ Watchdog
  <2> DEFINE progress == IF clock.progress = Never THEN 0 ELSE clock.progress
  <2>1. /\ clock'.progress = progress /\ clock'.silent = clock.silent
        /\ own.pc = "watch"
    <3>1. PICK d : clock' = [clock EXCEPT !.progress = progress, !.disconnected = d]
      BY <1>6 DEF Watchdog
    <3> QED
      BY <1>1, <1>6, <3>1 DEF Watchdog, Clocks
  <2>2. failed = "no"
    BY <2>1 DEF Control, Phases
  <2>3. progress \in Int /\ clock.silent \in Nat
        /\ (requested_state = "PLAYING" => progress <= clock.silent)
    BY <1>1 DEF Clocks, Watching, Never
  <2>4. CASE UNCHANGED request
    BY <2>1, <2>2, <2>3, <2>4 DEF request, Watching, StallIsReal, Never
  <2>5. CASE Fail("stalled") /\ requested_state = "PLAYING" /\ progress > Timeout
    <3>1. failed' = "stalled" /\ requested_state' = "STOPPED"
      BY <2>5 DEF Fail
    <3> QED
      BY <1>1, <2>1, <2>3, <2>5, <3>1 DEF Watching, StallIsReal, Never
  <2>6. CASE Fail("disconnected")
    <3>1. failed' = "disconnected" /\ requested_state' = "STOPPED"
      BY <2>6 DEF Fail
    <3> QED
      BY <2>1, <2>3, <3>1 DEF Watching, StallIsReal, Never
  <2> HIDE DEF progress
  <2>7. \/ UNCHANGED request
        \/ Fail("stalled") /\ requested_state = "PLAYING" /\ progress > Timeout
        \/ Fail("disconnected")
    BY <1>6 DEF Watchdog, GoTo, progress
  <2> QED
    BY <2>4, <2>5, <2>6, <2>7
<1>7. CASE OwnerWatch /\ RequestState
  <2>1. own.pc = "request" /\ failed = "no" /\ failed' = failed
    BY <1>7 DEF RequestState, Control, Phases
  <2>2. clock'.progress = 0 /\ clock'.silent = 0
    BY <1>1, <1>7 DEF RequestState, FreshProgress, Clocks
  <2> QED
    BY <2>1, <2>2 DEF Watching, StallIsReal, Never
<1>8. CASE OwnerSetup \/ OwnerCall
  BY <1>8, WatchKept DEF OwnerSetup, Activate, ConnectPorts, OwnerCall, Close, Call, GoTo,
     Fail, request
<1>9. CASE OwnerQueue
  <2>1. clock'.progress = clock.progress /\ clock'.silent = clock.silent
    BY <1>1, <1>9 DEF OwnerQueue, ClearQueue, WriteCopy, WritePublish, Clocks
  <2> QED
    BY <1>9, <2>1, WatchKept DEF OwnerQueue, ClearQueue, WriteCopy, WritePublish, GoTo,
       Return, request
<1>10. CASE UNCHANGED vars \/ CycleProbe \/ CycleEffect \/ ServerStep \/ OwnerRefresh
  BY <1>2, <1>10 DEF vars, CycleProbe, CycleEffect, ServerStep, Relink, PortConnect, Retune,
     RecordFault, OwnerRefresh, StoreMask, StoreSeen, GoTo, request
<1> QED
  BY <1>3, <1>4, <1>5, <1>6, <1>7, <1>8, <1>9, <1>10 DEF Next, ProcessStep, OwnerStep,
     OwnerWatch

-----------------------------------------------------------------------------
(* Asked: only the four functions that change the state reach a request and
   wait for its acknowledgement. *)
Asked ==
    /\ own.pc \in {"activate", "connect"} => own.op = "start"
    /\ own.pc = "request" \/ own.waiting => own.op \in {"start", "stop", "pause", "resume"}

(* A new output waits for nothing. *)
LEMMA InitAsked == Init => Asked
BY DEF Init, Asked, NoCall

(* A step to a label that is no request, or that belongs to the function. *)
LEMMA GoToAsked ==
    ASSUME Types, Asked, NEW label, GoTo(label),
           label \in {"activate", "connect"} => own.op = "start",
           label = "request" => own.op \in {"start", "stop", "pause", "resume"}
    PROVE  Asked'
BY GoToOwn DEF Asked

(* A call that is over asks for nothing. *)
LEMMA IdleAsked == ASSUME NEW reason, Return \/ Fail(reason) PROVE Asked'
BY IdleOwn DEF Asked

(* Every step keeps what a request belongs to. *)
LEMMA StepAsked == Types /\ Control /\ Asked /\ [Next]_vars => Asked'
<1> SUFFICES ASSUME Types, Control, Asked, [Next]_vars PROVE Asked'
  OBVIOUS
<1>1. CASE UNCHANGED own
  BY <1>1 DEF Asked
<1>2. CASE Tick
  <2>1. own'.pc = own.pc /\ own'.op = own.op /\ own'.waiting = own.waiting
    BY <1>2 DEF Tick, Types, OwnType, Calls
  <2> QED
    BY <2>1 DEF Asked
<1>3. CASE OwnerControl
  <2>1. CASE HealthBroken \/ AwaitState \/ DrainTail \/ Query \/ CloseClient
    BY <2>1, GoToAsked, IdleAsked DEF HealthBroken, AwaitState, DrainTail, Query, CloseClient
  <2>2. CASE Start \/ Stop \/ PauseOrResume
    BY <2>2, GoToAsked, IdleAsked DEF Start, Stop, PauseOrResume
  <2>3. CASE HealthGraph \/ ScanPort \/ DrainQueue \/ \E n \in 0 .. MaxWrite : Write(n)
    <3>1. \/ own'.pc \in {"scan", "mask", "copy", "drain"}
             /\ own'.op = own.op /\ own'.waiting = own.waiting
          \/ GoTo("watch") \/ Return
      BY <2>3 DEF HealthGraph, ScanPort, DrainQueue, Write, Types, OwnType, Calls
    <3>2. CASE own'.pc \in {"scan", "mask", "copy", "drain"}
               /\ own'.op = own.op /\ own'.waiting = own.waiting
      BY <3>2 DEF Asked
    <3> QED
      BY <3>1, <3>2, GoToAsked, IdleAsked
  <2> QED
    BY <1>3, <2>1, <2>2, <2>3 DEF OwnerControl
<1>4. CASE OwnerRefresh \/ OwnerSetup \/ OwnerQueue
  BY <1>4, GoToAsked, IdleAsked DEF OwnerRefresh, StoreMask, StoreSeen, OwnerSetup, Activate,
     ConnectPorts, OwnerQueue, ClearQueue, WriteCopy, WritePublish, Asked
<1>5. CASE OwnerWatch
  <2>1. CASE Watchdog
    BY <2>1, GoToAsked, IdleAsked DEF Watchdog
  <2>2. CASE RequestState
    <3>1. own.pc = "request" /\ own'.pc = "health" /\ own'.op = own.op
      BY <2>2 DEF RequestState, Types, OwnType, Calls
    <3> QED
      BY <3>1 DEF Asked
  <2> QED
    BY <1>5, <2>1, <2>2 DEF OwnerWatch
<1>6. CASE OwnerCall
  <2>1. own.pc = "idle" /\ own'.pc \in {"joining", "health"} /\ own'.waiting = own.waiting
    BY <1>6 DEF OwnerCall, Close, Call, Types, OwnType, Calls
  <2> QED
    BY <2>1 DEF Asked, Control, Phases, Polling
<1>7. CASE UNCHANGED vars \/ ProcessStep \/ ServerStep
  BY <1>1, <1>7 DEF vars, ProcessStep, CycleBegin, CycleProbe, CycleEffect, ServerStep,
     Relink, PortConnect, Retune, RecordFault
<1> QED
  BY <1>2, <1>3, <1>4, <1>5, <1>6, <1>7 DEF Next, OwnerStep

-----------------------------------------------------------------------------
(* Tailing: what tail_frames covers of the frames that were copied into the
   ports and have not been heard.  The callback counts the tail down by the
   period that begins, the server is through with the one that ended: between
   the two, the tail has lost the last period instead of the first one, q, in
   which the frames were copied.  A drain can therefore be early by as much as
   the period has grown, D, and by no more.  Run jack_tail shows that it is. *)
PeriodKept == downstream > 0 => net'.period <= net.period

(* The period does not grow under frames not yet heard, or by at most D. *)
GrowsBy(D) == PeriodKept \/ \A p, q \in Periods : p <= q + D

(* The output works and has not been closed. *)
Live == failed = "no" /\ own.pc \notin {"joining", "closed"}

(* In a cycle before its copy, or without one. *)
Counting == cyc.pc \in Before \union {"copy"} \/ (cyc.pc = "tail" /\ cyc.count = 0)

(* The tail, before and after it is counted down, and before it is begun. *)
Covered(q) ==
    /\ downstream > 0 /\ cyc.pc \in {"idle", "retire", "ack"}
          => downstream + q <= tail_frames + cyc.frames
    /\ downstream > 0 /\ Counting => downstream + q <= tail_frames
    /\ downstream > 0 /\ cyc.pc = "tail" /\ cyc.count > 0
          => downstream <= q + net.latency /\ cyc.frames = q
    /\ cyc.pc # "idle" /\ cyc.state = "STOPPED" => downstream = 0

(* Cycles have the period of the server, and neither the last one nor the one
   to come is longer by more than D than the one that was copied. *)
PeriodInv(q, D) ==
    /\ downstream \in Nat
    /\ cyc.count <= cyc.frames
    /\ cyc.pc # "idle" => cyc.frames = net.period
    /\ downstream > 0 => cyc.frames <= q + D /\ net.period <= q + D

(* The tail covers what is downstream unless stop was asked for; when stop has
   returned, nothing is.  A drain that has looked at the queue has seen all
   that is in it now. *)
TailInv(q) ==
    /\ Live /\ requested_state # "STOPPED" => Covered(q)
    /\ Live /\ requested_state = "STOPPED" /\ ~own.waiting /\ own.pc # "clear"
         => downstream = 0
    /\ own.pc = "drain" => Queued <= own.count

Tailing(q, D) == PeriodInv(q, D) /\ TailInv(q)

(* What is downstream was copied in some period of the server. *)
Owed(D) == \E q \in Periods : Tailing(q, D)

(* A new output has nothing downstream. *)
LEMMA InitTailing == ASSUME NEW q \in Periods, NEW D \in Nat, Init PROVE Tailing(q, D)
BY DEF Init, Tailing, PeriodInv, TailInv, NoCall

(* A new server has some period. *)
LEMMA InitOwed == ASSUME NEW D \in Nat, Init PROVE Owed(D)
<1>1. net.period \in Periods
  BY DEF Init
<1> QED
  BY <1>1, InitTailing DEF Owed

(* With nothing downstream there is nothing to cover. *)
LEMMA NothingDownstream ==
    ASSUME NEW q \in Periods, Types', downstream' = 0 PROVE Covered(q)'
BY DEF Covered, Monus, Types, CycType, Cycles, NetType, Nets, QueueType

(* A step that changes neither tail nor cycle, nor the period, keeps the tail
   if the state asked for stays, or nothing is downstream, or stop begins. *)
LEMMA TailKept ==
    ASSUME NEW q \in Periods, NEW D \in Nat,
           Types, Types', Tailing(q, D), UNCHANGED <<downstream, tail_frames, cyc>>,
           net'.period = net.period, net'.latency = net.latency,
           own'.pc = "drain" => own.pc = "drain" /\ own'.count = own.count /\ UNCHANGED fifo,
           Live' =>
              \/ downstream = 0
              \/ Live /\ requested_state # "STOPPED" /\ requested_state' # "STOPPED"
              \/ Live /\ requested_state = "STOPPED" /\ ~own.waiting /\ own.pc # "clear"
              \/ requested_state' = "STOPPED" /\ (own'.waiting \/ own'.pc = "clear")
    PROVE  Tailing(q, D)'
<1>1. PeriodInv(q, D)'
  BY DEF Tailing, PeriodInv
<1>2. own'.pc = "drain" => Queued' <= own'.count
  BY DEF Tailing, TailInv, Queued, fifo
<1>3. downstream' = 0 => Covered(q)'
  BY NothingDownstream
<1>4. Covered(q) => Covered(q)'
  BY DEF Covered, Counting
<1>5. Live' /\ requested_state' # "STOPPED" => Covered(q)'
  BY <1>3, <1>4 DEF Tailing, TailInv
<1>6. Live' /\ requested_state' = "STOPPED" /\ ~own'.waiting /\ own'.pc # "clear"
         => downstream' = 0
  BY DEF Tailing, TailInv
<1> QED
  BY <1>1, <1>2, <1>5, <1>6 DEF Tailing, TailInv

(* A cycle that begins subtracts from what is downstream the period that ended,
   and will subtract its own from the tail. *)
LEMMA BeginTailing ==
    ASSUME NEW q \in Periods, NEW D \in Nat, 
           Types, Control, Queueing, Tailing(q, D), CycleBegin
    PROVE  Tailing(q, D)'
<1>1. /\ cyc \in Cycles /\ net \in Nets /\ tail_frames \in Nat /\ downstream \in Nat
      /\ UNCHANGED <<tail_frames, net, own, failed, requested_state, fifo>>
      /\ net.period \in Nat
  BY Constants DEF CycleBegin, atomics, request, Types, CycType, NetType, Nets, QueueType,
     Tailing, PeriodInv
<1>2. /\ cyc.pc = "idle" /\ cyc.count = 0
      /\ cyc'.pc \in {"version", "tail"} /\ cyc'.count = 0 /\ cyc'.frames = net.period
      /\ cyc'.state = requested_state
      /\ downstream' = Monus(downstream, cyc.frames)
  BY <1>1 DEF CycleBegin, Cycles, Queueing, CycleInv
<1>3. downstream' \in Nat /\ (downstream = 0 => downstream' = 0)
  BY <1>1, <1>2 DEF Monus, Cycles
<1>4. PeriodInv(q, D)'
  BY <1>1, <1>2, <1>3 DEF Tailing, PeriodInv
<1>5. ASSUME downstream + q <= tail_frames + cyc.frames, downstream' > 0
      PROVE  downstream' + q <= tail_frames
  BY <1>1, <1>2, <1>5, Constants DEF Monus, Cycles
<1>6. Live' = Live
  BY <1>1 DEF Live
<1>7. Live /\ requested_state # "STOPPED" => Covered(q)'
  BY <1>1, <1>2, <1>3, <1>5 DEF Tailing, TailInv, Covered, Counting
<1>8. own'.pc = "drain" => Queued' <= own'.count
  BY <1>1 DEF Tailing, TailInv, Queued, fifo
<1> QED
  BY <1>1, <1>3, <1>4, <1>6, <1>7, <1>8 DEF Tailing, TailInv

(* Before the copy a cycle only finds out how many frames it takes. *)
LEMMA ProbeTailing ==
    ASSUME NEW q \in Periods, NEW D \in Nat, 
           Types, Queueing, Tailing(q, D), CycleProbe
    PROVE  Tailing(q, D)'
<1>1. /\ cyc \in Cycles
      /\ UNCHANGED <<tail_frames, net, own, failed, requested_state, fifo, downstream>>
  BY DEF CycleProbe, atomics, request, history, Types, CycType
<1>2. /\ cyc.pc \in Before /\ cyc'.frames = cyc.frames /\ cyc'.state = cyc.state
      /\ cyc'.pc \in Before \union {"copy"} \/ (cyc'.pc = "tail" /\ cyc'.count = 0)
      /\ cyc'.count <= cyc.frames
  <2>1. CASE GateVersion \/ GateSeen \/ GateMask \/ GateRecheck
    <3>1. /\ cyc.pc \in Before /\ cyc'.frames = cyc.frames /\ cyc'.state = cyc.state
          /\ cyc'.pc \in Before \union {"tail"} /\ cyc'.count = cyc.count
      BY <1>1, <2>1 DEF GateVersion, GateSeen, GateMask, GateRecheck, CycleGoTo, Cycles,
         Before
    <3>2. cyc.count = 0 /\ cyc.frames \in Nat
      BY <1>1, <3>1 DEF Queueing, CycleInv, Cycles
    <3> QED
      BY <3>1, <3>2
  <2>2. CASE CycleLoad
    <3> DEFINE count == Least(Queued, cyc.frames)
    <3>1. count \in Nat /\ count <= cyc.frames
      BY <1>1, QueuedType DEF Least, Types, Cycles
    <3>2. /\ cyc.pc = "load" /\ cyc'.frames = cyc.frames /\ cyc'.state = cyc.state
          /\ cyc'.count = count /\ cyc'.pc = IF count > 0 THEN "copy" ELSE "tail"
      BY <1>1, <2>2 DEF CycleLoad, Cycles
    <3> HIDE DEF count
    <3> QED
      BY <3>1, <3>2 DEF Before
  <2> QED
    BY <2>1, <2>2 DEF CycleProbe
<1>3. cyc'.pc # "idle" /\ cyc'.pc \notin {"retire", "ack"} /\ Counting /\ Counting'
  BY <1>2 DEF Counting, Before
<1>4. PeriodInv(q, D)'
  BY <1>1, <1>2, <1>3 DEF Tailing, PeriodInv, Before
<1>5. Covered(q) => Covered(q)'
  BY <1>1, <1>2, <1>3 DEF Covered, Counting, Before
<1>6. Live' = Live /\ Queued' = Queued
  BY <1>1 DEF Live, Queued, fifo
<1> QED
  BY <1>1, <1>4, <1>5, <1>6 DEF Tailing, TailInv

(* The copy starts a tail, in the period that is now. *)
LEMMA CopyTailing ==
    ASSUME NEW q \in Periods, NEW D \in Nat,
           Types, Control, Queueing, Tailing(q, D), CycleEffect, CycleCopy
    PROVE  \E p \in Periods : Tailing(p, D)'
<1>1. /\ cyc \in Cycles /\ net \in Nets /\ tail_frames \in Nat
      /\ UNCHANGED <<net, own, failed, requested_state, write_index, accepted>>
  BY DEF CycleEffect, request, Types, CycType, NetType, QueueType
<1>2. /\ cyc.pc = "copy" /\ cyc'.pc = "tail" /\ cyc'.count = cyc.count
      /\ cyc'.frames = cyc.frames /\ cyc'.state = cyc.state
      /\ downstream' = cyc.count + net.latency /\ UNCHANGED <<tail_frames, read_index>>
  BY <1>1 DEF CycleCopy, CycleGoTo, Cycles
<1>3. cyc.count > 0 /\ cyc.state = "PLAYING" /\ cyc.count <= cyc.frames
      /\ cyc.frames = net.period
  BY <1>1, <1>2 DEF Queueing, CycleInv, Tailing, PeriodInv, Cycles
<1> DEFINE p == cyc.frames
<1>4. p \in Periods /\ p \in Nat
  BY <1>1, <1>3 DEF Nets, Cycles
<1>5. PICK r \in Periods : r = p
  BY <1>4
<1> HIDE DEF p
<1>6. PeriodInv(r, D)'
  BY <1>1, <1>2, <1>3, <1>4, <1>5 DEF p, PeriodInv, Cycles, Nets
<1>7. Covered(r)'
  BY <1>1, <1>2, <1>3, <1>4, <1>5 DEF p, Covered, Counting, Before, Cycles, Nets
<1>8. Live /\ ~own.waiting => requested_state = "PLAYING"
  BY <1>2, <1>3 DEF Live, Control, Handshake
<1>9. Queued' = Queued /\ Live' = Live
  BY <1>1, <1>2 DEF Queued, Live
<1>10. TailInv(r)'
  BY <1>1, <1>7, <1>8, <1>9 DEF Tailing, TailInv
<1> QED
  BY <1>6, <1>10 DEF Tailing

(* The tail is stored before the frames leave the queue. *)
LEMMA EffectTailing ==
    ASSUME NEW q \in Periods, NEW D \in Nat, 
           Types, Queueing, Queueing', Tailing(q, D), CycleEffect, ~CycleCopy
    PROVE  Tailing(q, D)'
<1>1. /\ cyc \in Cycles /\ net \in Nets /\ tail_frames \in Nat /\ downstream \in Nat
      /\ UNCHANGED <<net, own, failed, requested_state, write_index, accepted>>
      /\ Queued \in Nat
  BY QueuedType DEF CycleEffect, request, Types, CycType, NetType, QueueType, Tailing,
     PeriodInv
<1>2. Live' = Live
  BY <1>1 DEF Live
<1>3. CASE CycleTail
  <2>1. /\ cyc.pc = "tail" /\ cyc'.pc = "retire" /\ cyc'.count = cyc.count
        /\ cyc'.frames = cyc.frames /\ cyc'.state = cyc.state
        /\ tail_frames' = NewTail /\ UNCHANGED <<downstream, read_index>>
    BY <1>1, <1>3 DEF CycleTail, CycleGoTo, Cycles
  <2>2. PeriodInv(q, D)'
    BY <1>1, <2>1 DEF Tailing, PeriodInv
  <2>3. Covered(q) => Covered(q)'
    <3> SUFFICES ASSUME Covered(q) PROVE Covered(q)'
      OBVIOUS
    <3>1. /\ cyc.frames \in Nat /\ cyc.count \in Nat /\ net.latency \in Nat /\ q \in Nat
          /\ tail_frames \in Nat /\ downstream \in Nat
      BY <1>1, Constants DEF Cycles, Nets
    <3>2. CASE cyc.state = "STOPPED"
      BY <2>1, <3>2 DEF Covered, Counting, Before
    <3>3. CASE cyc.state # "STOPPED" /\ cyc.count > 0
      <4>1. tail_frames' = cyc.frames + net.latency
        BY <2>1, <3>3 DEF NewTail
      <4>2. downstream > 0 => downstream + q <= tail_frames' + cyc.frames
        BY <2>1, <3>1, <3>3, <4>1 DEF Covered
      <4> QED
        BY <2>1, <3>3, <4>2 DEF Covered, Counting, Before
    <3>4. CASE cyc.state # "STOPPED" /\ cyc.count = 0
      <4>1. tail_frames' = Monus(tail_frames, cyc.frames)
        BY <2>1, <3>4 DEF NewTail
      <4>2. downstream > 0 => downstream + q <= tail_frames' + cyc.frames
        BY <2>1, <3>1, <3>4, <4>1 DEF Covered, Counting, Monus
      <4> QED
        BY <2>1, <3>4, <4>2 DEF Covered, Counting, Before
    <3> QED
      BY <3>1, <3>2, <3>3, <3>4
  <2>4. Queued' = Queued
    BY <1>1, <2>1 DEF Queued
  <2> QED
    BY <1>1, <1>2, <2>1, <2>2, <2>3, <2>4 DEF Tailing, TailInv
<1>4. CASE CycleRetire
  <2>1. /\ cyc.pc = "retire" /\ cyc'.pc = "ack" /\ cyc'.count = cyc.count
        /\ cyc'.frames = cyc.frames /\ cyc'.state = cyc.state
        /\ UNCHANGED <<downstream, tail_frames, delivered>>
    BY <1>1, <1>4 DEF CycleRetire, CycleGoTo, Cycles
  <2>2. PeriodInv(q, D)'
    BY <1>1, <2>1 DEF Tailing, PeriodInv
  <2>3. Covered(q) => Covered(q)'
    BY <1>1, <2>1 DEF Covered, Counting, Before
  <2>4. Queued' <= Queued
    <3>1. accepted = delivered + (Queued - cyc.count) /\ accepted' = delivered' + Queued'
      BY <2>1 DEF Queueing, QueueInv, Undelivered
    <3>2. accepted \in Int /\ delivered \in Int /\ cyc.count \in Nat
      BY <1>1 DEF Types, QueueType, Cycles
    <3>3. Queued' \in Int
      <4>1. read_index' \in Int /\ write_index' \in Int
        BY <1>1, <1>4, Constants DEF CycleRetire, Types, QueueType, Indices, IndexAdd, Cycles
      <4> QED
        BY <4>1, Constants DEF Queued
    <3> QED
      BY <1>1, <2>1, <3>1, <3>2, <3>3
  <2>5. own.pc = "drain" => Queued' <= own.count
    <3>1. Queued' \in Int /\ own.count \in Int
      <4>1. read_index' \in Int /\ write_index' \in Int
        BY <1>1, <1>4, Constants DEF CycleRetire, Types, QueueType, Indices, IndexAdd, Cycles
      <4> QED
        BY <4>1, Constants DEF Queued, Types, OwnType, Calls
    <3> QED
      BY <1>1, <2>4, <3>1 DEF Tailing, TailInv
  <2> QED
    BY <1>1, <1>2, <2>1, <2>2, <2>3, <2>5 DEF Tailing, TailInv
<1>5. CASE CycleAck
  <2>1. /\ cyc.pc = "ack" /\ cyc'.pc = "idle" /\ cyc'.count = 0 /\ cyc'.frames = cyc.frames
        /\ UNCHANGED <<downstream, tail_frames, read_index>>
    BY <1>1, <1>5 DEF CycleAck, Cycles
  <2>2. PeriodInv(q, D)'
    BY <1>1, <2>1 DEF Tailing, PeriodInv, Cycles
  <2>3. Covered(q) => Covered(q)'
    BY <1>1, <2>1 DEF Covered, Counting, Before
  <2>4. Queued' = Queued
    BY <1>1, <2>1 DEF Queued
  <2> QED
    BY <1>1, <1>2, <2>1, <2>2, <2>3, <2>4 DEF Tailing, TailInv
<1> QED
  BY <1>3, <1>4, <1>5 DEF CycleEffect

(* The server changes period and latency between two cycles only. *)
LEMMA ServerTailing ==
    ASSUME NEW q \in Periods, NEW D \in Nat, 
           Types, Types', Tailing(q, D), GrowsBy(D), ServerStep \/ Tick
    PROVE  Tailing(q, D)'
<1>1. UNCHANGED <<downstream, tail_frames, cyc, fifo, requested_state, failed>>
  BY DEF ServerStep, Tick, Relink, PortConnect, Retune, RecordFault, history, atomics,
     request
<1>2. own'.pc = own.pc /\ own'.waiting = own.waiting /\ own'.count = own.count
  <2>1. CASE Tick
    BY <2>1 DEF Tick, Types, OwnType, Calls
  <2> QED
    BY <2>1 DEF ServerStep, Relink, PortConnect, Retune, RecordFault
<1>3. CASE \E frames \in Periods, max \in Latencies : Retune(frames, max)
  <2>1. /\ cyc.pc = "idle" /\ cyc \in Cycles
        /\ net'.period \in Periods /\ net'.period \in Nat /\ net.period \in Nat
    BY <1>3, Constants DEF Retune, Types, CycType, NetType, Nets
  <2>2. PeriodInv(q, D)'
    BY <1>1, <2>1, Constants DEF Tailing, PeriodInv, GrowsBy, PeriodKept, Cycles
  <2>3. Covered(q) => Covered(q)'
    BY <1>1, <2>1 DEF Covered, Counting, Before
  <2> QED
    BY <1>1, <1>2, <2>2, <2>3 DEF Tailing, TailInv, Live, Queued, fifo
<1>4. CASE ~(\E frames \in Periods, max \in Latencies : Retune(frames, max))
  <2>1. net'.period = net.period /\ net'.latency = net.latency
    BY <1>4 DEF ServerStep, Tick, Relink, PortConnect, RecordFault, Types, NetType, Nets
  <2>2. Live' = Live
    BY <1>1, <1>2 DEF Live
  <2> QED
    BY <1>1, <1>2, <2>1, <2>2, TailKept
<1> QED
  BY <1>3, <1>4

(* The owner's functions keep the tail until stop asks for silence. *)
LEMMA OwnerTailing ==
    ASSUME NEW q \in Periods, NEW D \in Nat, 
           Types, Types', Control, Asked, Tailing(q, D), OwnerStep \/ OwnerCall
    PROVE  Tailing(q, D)'
<1>1. own \in Calls /\ net \in Nets
  BY DEF Types, OwnType, NetType
<1> DEFINE Free == UNCHANGED <<downstream, tail_frames, cyc, fifo>>
                   /\ net'.period = net.period /\ net'.latency = net.latency
<1>2. ASSUME Free, NEW reason, Fail(reason), reason # "no" PROVE Tailing(q, D)'
  <2>1. own'.pc = "idle" /\ ~Live'
    BY <1>2 DEF Fail, NoCall, Live
  <2> QED
    BY <1>2, <2>1, TailKept
<1>3. ASSUME Free, Return, own.waiting => requested_state # "STOPPED",
             own.pc \notin {"clear", "joining", "closed"}
      PROVE  Tailing(q, D)'
  <2>1. own'.pc = "idle" /\ UNCHANGED <<requested_state, failed>>
    BY <1>3 DEF Return, NoCall, request
  <2>2. Live' => Live
    BY <1>3, <2>1 DEF Live
  <2> QED
    BY <1>3, <2>1, <2>2, TailKept
<1>4. ASSUME Free, UNCHANGED request, own'.waiting = own.waiting, own'.pc # "drain",
             own.pc \notin {"clear", "joining", "closed"}
      PROVE  Tailing(q, D)'
  <2>1. UNCHANGED <<requested_state, failed>> /\ (Live' => Live)
    BY <1>4 DEF Live, request
  <2> QED
    BY <1>4, <2>1, TailKept
<1>5. ASSUME Free, NEW label, GoTo(label), label # "drain",
             own.pc \notin {"clear", "joining", "closed"}
      PROVE  Tailing(q, D)'
  BY <1>4, <1>5, GoToOwn DEF GoTo
<1>6. ASSUME Free, own'.pc \in {"joining", "closed"} PROVE Tailing(q, D)'
  <2>1. ~Live'
    BY <1>6 DEF Live
  <2> QED
    BY <1>6, <2>1, TailKept
<1>7. CASE OwnerControl
  <2>1. Free
    BY <1>7 DEF OwnerControl, atomics, history
  <2> HIDE DEF Free
  <2>2. CASE HealthBroken
    <3>1. CASE Fail("fault")
      BY <1>2, <2>1, <3>1
    <3>2. CASE failed # "no" /\ Return
      <4>1. ~Live' /\ own'.pc = "idle"
        BY <3>2 DEF Return, request, Live, NoCall
      <4> QED
        BY <2>1, <4>1, TailKept DEF Free
    <3> QED
      BY <2>2, <3>1, <3>2 DEF HealthBroken
  <2>3. CASE HealthGraph \/ ScanPort
    <3>1. own.pc \in {"health", "scan"} /\ UNCHANGED request
      BY <2>3 DEF HealthGraph, ScanPort, GoTo
    <3>2. own'.waiting = own.waiting /\ own'.pc \in {"watch", "scan", "mask"}
      <4>1. CASE GoTo("watch")
        BY <4>1, GoToOwn
      <4> QED
        BY <1>1, <2>3, <4>1 DEF HealthGraph, ScanPort, Calls
    <3> QED
      BY <1>4, <2>1, <3>1, <3>2
  <2>4. CASE AwaitState
    <3>1. own.pc = "await" /\ own.waiting /\ failed = "no"
      BY <2>4 DEF AwaitState, Control, Phases
    <3>2. CASE Return /\ Acknowledged /\ own.op # "stop"
      <4>1. requested_state = Target /\ Target # "STOPPED"
        BY <3>1, <3>2 DEF Control, Handshake, Asked, Target
      <4> QED
        BY <1>3, <2>1, <3>1, <3>2, <4>1
    <3>3. CASE GoTo("clear") \/ GoTo("health")
      BY <1>5, <2>1, <3>1, <3>3
    <3>4. CASE Fail("unacknowledged")
      BY <1>2, <2>1, <3>4
    <3> QED
      BY <2>4, <3>2, <3>3, <3>4 DEF AwaitState
  <2>5. CASE Start \/ Stop \/ PauseOrResume \/ Query \/ \E n \in 0 .. MaxWrite : Write(n)
    <3>1. own.pc = "body" /\ ~own.waiting
      BY <2>5 DEF Start, Stop, PauseOrResume, Query, Write, Control, Phases, Polling
    <3>2. \/ Return \/ GoTo("request") \/ GoTo("activate") \/ GoTo("clear")
          \/ UNCHANGED request /\ own'.waiting = own.waiting /\ own'.pc = "copy"
      BY <1>1, <2>5 DEF Start, Stop, PauseOrResume, Query, Write, Calls
    <3> QED
      BY <1>3, <1>4, <1>5, <2>1, <3>1, <3>2
  <2>6. CASE DrainQueue
    <3>1. /\ own.pc = "body" /\ own'.pc = "drain" /\ own'.waiting = own.waiting
          /\ own'.count = Queued /\ UNCHANGED request
      BY <1>1, <2>6 DEF DrainQueue, Calls
    <3>2. Queued' = Queued /\ Live' = Live
      BY <2>1, <3>1 DEF Free, Queued, fifo, Live, request
    <3>3. Queued \in Nat
      BY QueuedType DEF Types
    <3>4. PeriodInv(q, D)' /\ (Covered(q) => Covered(q)')
      BY <2>1 DEF Free, Tailing, PeriodInv, Covered, Counting
    <3>5. own.pc # "clear" /\ ~own.waiting
      BY <3>1 DEF Control, Phases, Polling
    <3> QED
      BY <2>1, <3>1, <3>2, <3>3, <3>4, <3>5 DEF Free, Tailing, TailInv, request
  <2>7. CASE DrainTail
    <3>1. own.pc = "drain" /\ ~own.waiting /\ Return
      BY <2>7 DEF DrainTail, Control, Phases, Polling
    <3> QED
      BY <1>3, <2>1, <3>1
  <2>8. CASE CloseClient
    <3>1. own'.pc = "closed"
      BY <2>8, GoToOwn DEF CloseClient
    <3> QED
      BY <1>6, <2>1, <3>1
  <2> QED
    BY <1>7, <2>2, <2>3, <2>4, <2>5, <2>6, <2>7, <2>8 DEF OwnerControl
<1>8. CASE OwnerRefresh
  <2>1. Free
    BY <1>8 DEF OwnerRefresh, atomics, history
  <2> HIDE DEF Free
  <2>2. own.pc \in {"mask", "seen"} /\ (GoTo("seen") \/ GoTo("watch"))
    BY <1>8 DEF OwnerRefresh, StoreMask, StoreSeen
  <2> QED
    BY <1>5, <2>1, <2>2
<1>9. CASE OwnerWatch
  <2>1. Free
    BY <1>9 DEF OwnerWatch, atomics, history
  <2>2. CASE Watchdog
    <3>1. own.pc = "watch" /\ (\/ Fail("stalled") \/ Fail("disconnected")
                               \/ GoTo("await") \/ GoTo("body"))
      BY <2>2 DEF Watchdog
    <3> HIDE DEF Free
    <3> QED
      BY <1>2, <1>5, <2>1, <3>1
  <2>3. CASE RequestState
    <3>1. /\ own.pc = "request" /\ own'.pc = "health" /\ own'.waiting = TRUE
          /\ requested_state' = Target /\ failed' = failed
      BY <1>1, <2>3 DEF RequestState, Calls
    <3>2. Live /\ ~own.waiting
      BY <3>1 DEF Live, Control, Phases, Polling
    <3> QED
      BY <2>1, <3>1, <3>2, TailKept
  <2> QED
    BY <1>9, <2>2, <2>3 DEF OwnerWatch
<1>10. CASE OwnerSetup
  <2>1. Free
    <3>1. UNCHANGED <<downstream, tail_frames, cyc, fifo>>
      BY <1>10 DEF OwnerSetup, history
    <3>2. net' = net \/ \E made : net' = [net EXCEPT !.links = made, !.unnotified = @ + 1]
      BY <1>10 DEF OwnerSetup, Activate, ConnectPorts
    <3> QED
      BY <1>1, <3>1, <3>2 DEF Nets
  <2> HIDE DEF Free
  <2>2. /\ own.pc \in {"activate", "connect"}
        /\ GoTo("connect") \/ GoTo("request") \/ Fail("setup")
    BY <1>10 DEF OwnerSetup, Activate, ConnectPorts
  <2> QED
    BY <1>2, <1>5, <2>1, <2>2
<1>11. CASE OwnerQueue
  <2>1. CASE ClearQueue
    <3>1. /\ downstream' = 0 /\ UNCHANGED <<cyc, net>> /\ own'.pc = "idle"
          /\ tail_frames' = 0
      BY <1>11, <2>1 DEF OwnerQueue, ClearQueue, Return, NoCall
    <3>2. PeriodInv(q, D)'
      BY <3>1 DEF Tailing, PeriodInv
    <3>3. Covered(q)'
      BY <3>1, NothingDownstream
    <3> QED
      BY <3>1, <3>2, <3>3 DEF Tailing, TailInv
  <2>2. CASE WriteCopy \/ WritePublish
    <3>1. UNCHANGED <<downstream, tail_frames, cyc, net>>
      BY <1>11, <2>2 DEF OwnerQueue, WriteCopy, WritePublish
    <3>2. /\ own.pc \in {"copy", "publish"} /\ own'.pc \in {"publish", "idle"}
          /\ own'.pc # "clear" /\ UNCHANGED request /\ ~own.waiting
      BY <2>2, GoToOwn, IdleOwn DEF WriteCopy, WritePublish, GoTo, Return, Control, Phases,
         Polling
    <3>3. Live' => Live
      BY <3>2 DEF Live, request
    <3> QED
      BY <3>1, <3>2, <3>3, TailKept DEF request
  <2> QED
    BY <1>11, <2>1, <2>2 DEF OwnerQueue
<1>12. CASE OwnerCall
  <2>1. Free
    BY <1>12 DEF OwnerCall, atomics, history
  <2> HIDE DEF Free
  <2>2. CASE Close
    <3>1. own'.pc = "joining"
      BY <1>1, <2>2 DEF Close, Calls
    <3> QED
      BY <1>6, <2>1, <3>1
  <2>3. CASE \E f \in Functions : Call(f)
    <3>1. own.pc = "idle" /\ own'.pc = "health" /\ own'.waiting = own.waiting
          /\ UNCHANGED request
      BY <1>1, <2>3 DEF Call, Calls
    <3> QED
      BY <1>4, <2>1, <3>1
  <2> QED
    BY <1>12, <2>2, <2>3 DEF OwnerCall
<1> QED
  BY <1>7, <1>8, <1>9, <1>10, <1>11, <1>12 DEF OwnerStep

(* Every step keeps the tail, as long as the period does not grow under it by
   more than D. *)
LEMMA StepTailing ==
    ASSUME NEW D \in Nat,
           Types, Types', Control, Asked, Queueing, Queueing', Owed(D), [Next]_vars,
           UNCHANGED vars \/ GrowsBy(D)
    PROVE  Owed(D)'
<1>1. PICK q \in Periods : Tailing(q, D)
  BY DEF Owed
<1>2. CASE UNCHANGED vars
  <2>1. UNCHANGED <<downstream, tail_frames, cyc, net, own, fifo, requested_state, failed>>
    BY <1>2 DEF vars, history, atomics, request
  <2>2. Live' = Live
    BY <2>1 DEF Live
  <2>3. Tailing(q, D)'
    BY <1>1, <2>1, <2>2, TailKept
  <2> QED
    BY <2>3 DEF Owed
<1>3. CASE CycleEffect /\ CycleCopy
  BY <1>1, <1>3, CopyTailing DEF Owed
<1>4. CASE Next /\ ~(CycleEffect /\ CycleCopy) /\ GrowsBy(D)
  <2>1. Tailing(q, D)'
    BY <1>1, <1>4, BeginTailing, ProbeTailing, EffectTailing, ServerTailing, OwnerTailing
       DEF Next, ProcessStep
  <2> QED
    BY <2>1 DEF Owed
<1> QED
  BY <1>2, <1>3, <1>4

-----------------------------------------------------------------------------
(* drain answers 1 when everything written has left the queue, and all but at
   most D frames of time have passed until it is heard. *)
DoneUpTo(D) ==
    own.pc = "drain" /\ DrainAnswer = 1 => accepted = delivered /\ downstream <= D

(* A healthy drain that answers 1 has found the queue empty and the tail run
   out: what is downstream is at most what the period has grown by. *)
LEMMA DoneIsNearlyHeard == ASSUME NEW D \in Nat, JackInv, Owed(D) PROVE DoneUpTo(D)
<1> SUFFICES ASSUME own.pc = "drain", DrainAnswer = 1
             PROVE  accepted = delivered /\ downstream <= D
  BY DEF DoneUpTo
<1>0. PICK q \in Periods : Tailing(q, D)
  BY DEF Owed
<1>1. /\ own.count \in Int /\ tail_frames \in Nat /\ Queued \in Nat /\ downstream \in Nat
      /\ accepted \in Int /\ delivered \in Int /\ cyc.frames \in Nat /\ net.latency \in Nat
      /\ cyc.count \in Nat /\ cyc.pc \in CyclePcs
      /\ q \in Nat
  BY <1>0, QueuedType, Constants DEF JackInv, Types, OwnType, Calls, QueueType, Tailing,
     PeriodInv, CycType, Cycles, NetType, Nets
<1>2. requested_state = "PLAYING" /\ own.count + tail_frames = 0
  BY DEF DrainAnswer
<1>3. Queued <= own.count
  BY <1>0 DEF Tailing, TailInv
<1>4. Queued = 0 /\ tail_frames = 0
  BY <1>1, <1>2, <1>3
<1>5. Live
  BY DEF JackInv, Control, Phases, Live
<1>6. Covered(q)
  BY <1>0, <1>2, <1>5 DEF Tailing, TailInv
<1>7. cyc.pc \in {"copy", "tail", "retire"} => cyc.count = 0
  BY <1>1, <1>4 DEF JackInv, Queueing, CycleInv
<1>8. accepted = delivered
  BY <1>1, <1>4, <1>7 DEF JackInv, Queueing, QueueInv, Undelivered
<1>9. downstream > 0 => cyc.frames <= q + D
  BY <1>0 DEF Tailing, PeriodInv
<1>10. downstream <= D
  BY <1>1, <1>4, <1>6, <1>7, <1>9 DEF Covered, Counting, Before, CyclePcs
<1> QED
  BY <1>8, <1>10

-----------------------------------------------------------------------------
(* A scan that vouches for the graph of now has seen its links, however many
   changes and notifications went on between two of its ports. *)
LEMMA RoutingInvariant == Spec => []Routing
<1>1. Init => Routing
  BY InitRouting
<1>2. JackInv /\ JackInv' /\ Routing /\ [Next]_vars => Routing'
  BY StepRouting DEF JackInv
<1> QED
  BY <1>1, <1>2, JackInvariant, PTL DEF Spec

(* What a snapshot claims of the graph is true until a change is notified. *)
THEOREM SnapshotsAreAccurate == Spec => []SnapshotAccurate
<1>1. Routing => SnapshotAccurate
  BY DEF Routing
<1> QED
  BY <1>1, RoutingInvariant, PTL

(* No cycle plays to a channel whose link it could have known to be missing. *)
THEOREM OnlyRoutedPlays == Spec => []PlaysOnlyRouted
<1>1. Routing => PlaysOnlyRouted
  BY DEF Routing, GateInv, PlaysOnlyRouted
<1> QED
  BY <1>1, RoutingInvariant, PTL

(* Silence before a request is never held against the callback: the watchdog
   gives up only when process() was silent for longer than the timeout. *)
THEOREM StallsAreReal == Spec => []StallIsReal
<1>1. Init => Watching
  BY InitWatching
<1>2. JackInv /\ Watching /\ [Next]_vars => Watching'
  BY StepWatching DEF JackInv
<1>3. Watching => StallIsReal
  BY DEF Watching
<1> QED
  BY <1>1, <1>2, <1>3, JackInvariant, PTL DEF Spec

(* In general drain answers 1 too early by at most the difference between the
   longest and the shortest period, at every latency and whatever the server
   and the owner do meanwhile; the queue itself is empty then. *)
THEOREM DrainErrsByAPeriod ==
    \A D \in Nat : (\A p, q \in Periods : p <= q + D) => (Spec => []DoneUpTo(D))
<1> SUFFICES ASSUME NEW D \in Nat, \A p, q \in Periods : p <= q + D
             PROVE  Spec => []DoneUpTo(D)
  OBVIOUS
<1>1. Init => Asked /\ Owed(D)
  BY InitAsked, InitOwed
<1>2. JackInv /\ Asked /\ [Next]_vars => Asked'
  BY StepAsked DEF JackInv
<1>3. JackInv /\ JackInv' /\ Asked /\ Owed(D) /\ [Next]_vars => Owed(D)'
  BY StepTailing DEF JackInv, GrowsBy
<1>4. JackInv /\ Owed(D) => DoneUpTo(D)
  BY DoneIsNearlyHeard
<1> QED
  BY <1>1, <1>2, <1>3, <1>4, JackInvariant, PTL DEF Spec

(* As long as the period never grows under frames not yet heard, drain answers
   1 only when all that was written has been heard. *)
THEOREM DrainIsHonest == Spec /\ [][PeriodKept]_vars => []DrainMeansHeard
<1>1. Init => Asked /\ Owed(0)
  BY InitAsked, InitOwed
<1>2. JackInv /\ Asked /\ [Next]_vars => Asked'
  BY StepAsked DEF JackInv
<1>3. JackInv /\ JackInv' /\ Asked /\ Owed(0) /\ [Next]_vars /\ [PeriodKept]_vars => Owed(0)'
  BY StepTailing DEF JackInv, GrowsBy
<1>4. JackInv /\ Owed(0) => DrainMeansHeard
  <2> SUFFICES ASSUME JackInv, Owed(0) PROVE DrainMeansHeard
    OBVIOUS
  <2>1. DoneUpTo(0) /\ downstream \in Nat
    BY DoneIsNearlyHeard DEF Owed, Tailing, PeriodInv
  <2> QED
    BY <2>1 DEF DoneUpTo, DrainMeansHeard
<1> QED
  BY <1>1, <1>2, <1>3, <1>4, JackInvariant, PTL DEF Spec

(* A server that runs at one period gives drain nothing to be wrong about. *)
THEOREM DrainAtOnePeriod ==
    (\A p, q \in Periods : p = q) => (Spec => []DrainMeansHeard)
<1> SUFFICES ASSUME \A p, q \in Periods : p = q PROVE Spec => []DrainMeansHeard
  OBVIOUS
<1>1. JackInv /\ JackInv' => PeriodKept
  <2> SUFFICES ASSUME JackInv, JackInv' PROVE PeriodKept
    OBVIOUS
  <2>1. net.period \in Periods /\ net'.period \in Periods
    BY DEF JackInv, Types, NetType, Nets
  <2>2. net'.period = net.period /\ net.period \in Nat
    BY <2>1, Constants
  <2> QED
    BY <2>2 DEF PeriodKept
<1>2. Spec => [][PeriodKept]_vars
  BY <1>1, JackInvariant, PTL
<1> QED
  BY <1>2, DrainIsHonest, PTL

-----------------------------------------------------------------------------
(* Once pause or stop has returned on a healthy output, and until the next
   call, no frame leaves the queue: the handshake has outlived every cycle that
   saw the earlier request (lines 136-147, 361-373). *)
HoldsWhenSettled ==
    [][failed = "no" /\ own.pc = "idle" /\ requested_state # "PLAYING"
          => delivered' = delivered]_vars

(* Pause holds the queue, for every period and whatever the server does. *)
THEOREM PauseHolds == Spec => HoldsWhenSettled
<1>1. JackInv /\ [Next]_vars =>
        [failed = "no" /\ own.pc = "idle" /\ requested_state # "PLAYING"
            => delivered' = delivered]_vars
  <2> SUFFICES ASSUME JackInv, Next, failed = "no", own.pc = "idle",
                      requested_state # "PLAYING"
               PROVE  delivered' = delivered
    OBVIOUS
  <2>1. cyc.pc # "idle" => cyc.state = requested_state
    BY DEF JackInv, Control, Phases, Handshake, Polling
  <2>2. ~CycleCopy
    BY <2>1 DEF CycleCopy, JackInv, Queueing, CycleInv
  <2>3. CASE ProcessStep \/ ServerStep \/ Tick \/ OwnerCall
    BY <2>2, <2>3 DEF ProcessStep, CycleBegin, CycleProbe, CycleEffect, CycleTail,
       CycleRetire, CycleAck, ServerStep, Relink, PortConnect, Retune, RecordFault, Tick,
       OwnerCall, history
  <2>4. CASE OwnerStep
    BY <2>4 DEF OwnerStep, OwnerControl, OwnerRefresh, OwnerWatch, OwnerSetup, OwnerQueue,
       ClearQueue, WriteCopy, WritePublish, history
  <2> QED
    BY <2>3, <2>4 DEF Next
<1> QED
  BY <1>1, JackInvariant, PTL DEF Spec, HoldsWhenSettled

(* A failed output keeps its first reason and never asks for sound again, and no
   cycle that begins later plays (lines 65-70, 199-203). *)
FailureIsFinal ==
    [][failed # "no" =>
          /\ failed' = failed /\ requested_state' = "STOPPED"
          /\ cyc.pc = "idle" /\ cyc'.pc # "idle" => cyc'.state = "STOPPED"]_vars

(* What has failed has asked the callback to stop. *)
Failing == failed # "no" => requested_state = "STOPPED"

(* A step of a failed output asks for nothing but silence. *)
LEMMA FailedSteps ==
    ASSUME Types, Control, failed # "no", requested_state = "STOPPED", [Next]_vars
    PROVE  failed' = failed /\ requested_state' = "STOPPED"
<1>1. own.pc \in {"idle", "health", "joining", "closed"}
  BY DEF Control, Phases
<1>2. CASE UNCHANGED request
  BY <1>2 DEF request
<1>3. CASE OwnerStep
  <2>1. HealthBroken \/ CloseClient
    BY <1>1, <1>3 DEF OwnerStep, OwnerControl, HealthGraph, ScanPort, AwaitState, Start, Stop,
       PauseOrResume, Write, DrainQueue, DrainTail, Query, OwnerRefresh, StoreMask, StoreSeen,
       OwnerWatch, Watchdog, RequestState, OwnerSetup, Activate, ConnectPorts, OwnerQueue,
       ClearQueue, WriteCopy, WritePublish
  <2> QED
    BY <1>2, <2>1 DEF HealthBroken, CloseClient, GoTo, Return
<1>4. CASE OwnerCall
  BY <1>4 DEF OwnerCall, Close, Call, request
<1> QED
  BY <1>2, <1>3, <1>4 DEF Next, vars, ProcessStep, CycleBegin, CycleProbe, CycleEffect,
     ServerStep, Relink, PortConnect, Retune, RecordFault, Tick

(* Every step that fails the output asks the callback to stop. *)
LEMMA StepFailing == Types /\ Control /\ Failing /\ [Next]_vars => Failing'
<1> SUFFICES ASSUME Types, Control, Failing, [Next]_vars PROVE Failing'
  OBVIOUS
<1>1. CASE failed # "no"
  BY <1>1, FailedSteps DEF Failing
<1>2. CASE failed = "no" /\ ~\E reason \in Reasons : Fail(reason)
  <2>1. failed' = failed
    BY <1>2 DEF Next, vars, ProcessStep, CycleBegin, CycleProbe, CycleEffect, ServerStep,
       Relink, PortConnect, Retune, RecordFault, Tick, OwnerStep, OwnerControl, HealthBroken,
       HealthGraph, ScanPort, AwaitState, Start, Stop, PauseOrResume, Write, DrainQueue,
       DrainTail, Query, CloseClient, OwnerRefresh, StoreMask, StoreSeen, OwnerWatch, Watchdog,
       RequestState, OwnerSetup, Activate, ConnectPorts, OwnerQueue, ClearQueue, WriteCopy,
       WritePublish, OwnerCall, Close, Call, GoTo, Return, request, Reasons
  <2> QED
    BY <1>2, <2>1 DEF Failing
<1>3. CASE \E reason \in Reasons : Fail(reason)
  BY <1>3 DEF Fail, Failing
<1> QED
  BY <1>1, <1>2, <1>3

(* The first failure is the one that is reported, and the output stays silent. *)
THEOREM FailuresAreFinal == Spec => FailureIsFinal
<1>1. Init => Failing
  BY DEF Init, Failing
<1>2. JackInv /\ Failing /\ [Next]_vars => Failing'
  BY StepFailing DEF JackInv
<1>3. JackInv /\ Failing /\ [Next]_vars =>
        [failed # "no" =>
            /\ failed' = failed /\ requested_state' = "STOPPED"
            /\ cyc.pc = "idle" /\ cyc'.pc # "idle" => cyc'.state = "STOPPED"]_vars
  <2> SUFFICES ASSUME JackInv, Failing, Next, failed # "no"
               PROVE  /\ failed' = failed /\ requested_state' = "STOPPED"
                      /\ cyc.pc = "idle" /\ cyc'.pc # "idle" => cyc'.state = "STOPPED"
    OBVIOUS
  <2>1. requested_state = "STOPPED"
    BY DEF Failing
  <2>2. failed' = failed /\ requested_state' = "STOPPED"
    BY <2>1, FailedSteps DEF JackInv
  <2>3. ASSUME cyc.pc = "idle", cyc'.pc # "idle" PROVE cyc'.state = "STOPPED"
    <3>1. CycleBegin
      BY <2>3 DEF Next, ProcessStep, CycleProbe, GateVersion, GateSeen, GateMask, GateRecheck,
         CycleLoad, CycleEffect, CycleCopy, CycleTail, CycleRetire, CycleAck, ServerStep, Relink,
         PortConnect, Retune, RecordFault, Tick, OwnerStep, OwnerControl, OwnerRefresh,
         OwnerWatch, OwnerSetup, OwnerQueue, OwnerCall
    <3> QED
      BY <2>1, <3>1 DEF CycleBegin, JackInv, Types, CycType, Cycles
  <2> QED
    BY <2>2, <2>3
<1> QED
  BY <1>1, <1>2, <1>3, JackInvariant, PTL DEF Spec, FailureIsFinal
=============================================================================
