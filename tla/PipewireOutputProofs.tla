------------------------- MODULE PipewireOutputProofs -------------------------
(***************************************************************************)
(* Proofs about PipewireOutput, for every capacity, set of quanta, set of  *)
(* modes, timeout, write size and number of faults.                        *)
(*                                                                         *)
(* PipeInv is inductive: the types of the control state, what the queue    *)
(* holds (Held), how far a drain is (Drains), and that no silence of the   *)
(* graph is longer than its history tells (SilentAge).                     *)
(***************************************************************************)
EXTENDS PipewireOutput, TLAPS

OwnType == [pc     : {"idle", "ready", "closed"},
            op     : {"none", "create", "start", "resume", "write"},
            frames : Nat, waited : Nat]

StreamType == [active : BOOLEAN, queued : Nat, draining : BOOLEAN, faults : Nat]

ClockType == [timed : BOOLEAN, process : Nat, silent : Nat]

Types ==
    /\ stream_state \in {"ERROR", "UNCONNECTED", "CONNECTING", "PAUSED", "STREAMING"}
    /\ state \in {"STOPPED", "PLAYING", "PAUSED"}
    /\ failed \in {"no", "error", "stalled", "timeout"}
    /\ format_ready \in BOOLEAN /\ graph_rate_verified \in BOOLEAN
    /\ drain_requested \in BOOLEAN /\ drain_sent \in BOOLEAN /\ drained \in BOOLEAN
    /\ own \in OwnType /\ stream \in StreamType /\ clock \in ClockType

(* The slot of the k-th queued frame, counted from 0. *)
Slot(k) == IF read_pos + k < Capacity THEN read_pos + k ELSE read_pos + k - Capacity

(* The queue holds the frames accepted and not delivered, in order. *)
Held ==
    /\ filled \in 0 .. Capacity /\ read_pos \in Slots /\ write_pos \in Slots
    /\ accepted \in 0 .. MaxFrames /\ delivered \in Nat
    /\ accepted = delivered + filled
    /\ queue \in [Slots -> 0 .. MaxFrames]
    /\ write_pos = Slot(filled)
    /\ \A k \in 0 .. filled - 1 : queue[Slot(k)] = delivered + 1 + k

(* A drain is sent when it was asked for and nothing is left in the queue, the
   stream drains because of it, and it ends with the stream empty.  The write
   that begins another segment has forgotten it before it waits. *)
Drains ==
    /\ drain_sent => drain_requested /\ filled = 0
    /\ drained => drain_sent /\ stream.queued = 0
    /\ failed = "no" /\ stream.draining => drain_sent /\ ~drained
    /\ stream.queued <= delivered
    /\ own.pc = "ready" /\ own.op = "write" =>
          ~drain_requested /\ accepted + own.frames <= MaxFrames /\ own.frames > 0

(* While we play, the graph asked for frames no longer ago than the history
   tells. *)
SilentAge ==
    /\ state = "PLAYING" /\ ~drained => clock.process <= clock.silent
    /\ StallIsReal

PipeInv == Types /\ Held /\ Drains /\ SilentAge

(* The constants, as the assumption gives them. *)
LEMMA Constants ==
    /\ Capacity \in Nat \ {0} /\ Timeout \in Nat \ {0} /\ Quanta \subseteq Nat \ {0}
    /\ MaxWrite \in Nat /\ MaxFrames \in Nat
BY PipewireAssumption

(* A remainder by the capacity, within two rounds. *)
LEMMA Wrap ==
    ASSUME NEW C \in Nat \ {0}, NEW a \in 0 .. (2 * C - 1)
    PROVE  a % C = IF a < C THEN a ELSE a - C
OBVIOUS

(* Positions that advance by no more than the capacity. *)
LEMMA SlotAfter ==
    ASSUME NEW p \in Slots, NEW m \in 0 .. Capacity
    PROVE  (p + m) % Capacity = IF p + m < Capacity THEN p + m ELSE p + m - Capacity
<1>1. Capacity \in Nat \ {0}
  BY Constants
<1>2. \A a \in 0 .. (2 * Capacity - 1) :
        a % Capacity = IF a < Capacity THEN a ELSE a - Capacity
  BY <1>1, Wrap
<1>3. p + m \in 0 .. (2 * Capacity - 1)
  BY <1>1 DEF Slots
<1> QED
  BY <1>1, <1>2, <1>3 DEF Slots

(* What write copies: the new frames follow those that were queued, and none of
   these is touched (lines 462-471). *)
LEMMA AppendHeld ==
    ASSUME Held, NEW n \in Nat \ {0}, accepted + n <= MaxFrames, Append(n)
    PROVE  /\ Held'
           /\ \/ UNCHANGED history
              \/ \E k \in 1 .. Capacity : Abstract!Put(k)
<1> DEFINE m     == AtMost(n, Room)
           first == AtMost(Capacity - write_pos, m)
<1>1. Capacity \in Nat \ {0} /\ MaxFrames \in Nat
  BY Constants
<1>2. /\ filled \in 0 .. Capacity /\ read_pos \in 0 .. Capacity - 1
      /\ write_pos \in 0 .. Capacity - 1 /\ accepted = delivered + filled
      /\ accepted \in 0 .. MaxFrames /\ delivered \in Nat
      /\ queue \in [0 .. Capacity - 1 -> 0 .. MaxFrames]
  BY DEF Held, Slots
<1>3. m \in 0 .. Capacity - filled /\ m <= n
  BY <1>1, <1>2 DEF AtMost, Room
<1>4. /\ queue' = CopyIn(m) /\ write_pos' = (write_pos + m) % Capacity
      /\ filled' = filled + m /\ accepted' = accepted + m
      /\ read_pos' = read_pos /\ delivered' = delivered /\ output' = output
  BY DEF Append
<1>5. /\ first \in 0 .. m /\ first <= Capacity - write_pos
      /\ first = m \/ first = Capacity - write_pos
  <2>1. first = IF Capacity - write_pos < m THEN Capacity - write_pos ELSE m
    BY DEF AtMost
  <2> HIDE DEF m, first
  <2> QED
    BY <1>1, <1>2, <1>3, <2>1
<1>6. queue' = [s \in Slots |-> IF s >= write_pos /\ s < write_pos + first
                                THEN accepted + 1 + s - write_pos
                                ELSE IF s < m - first THEN accepted + 1 + first + s
                                ELSE queue[s]]
  BY <1>4 DEF CopyIn
<1>7. queue' \in [Slots -> 0 .. MaxFrames]
  <2>1. ASSUME NEW s \in Slots
        PROVE  (IF s >= write_pos /\ s < write_pos + first
                THEN accepted + 1 + s - write_pos
                ELSE IF s < m - first THEN accepted + 1 + first + s
                ELSE queue[s]) \in 0 .. MaxFrames
    <3>1. s \in 0 .. Capacity - 1 /\ queue[s] \in 0 .. MaxFrames
      BY <1>2 DEF Slots
    <3> HIDE DEF m, first
    <3> QED
      BY <1>1, <1>2, <1>3, <1>5, <3>1
  <2> QED
    BY <1>6, <2>1
<1>8. write_pos' = Slot(filled + m)
  <2>1. write_pos' = IF write_pos + m < Capacity THEN write_pos + m
                     ELSE write_pos + m - Capacity
    <3>1. write_pos \in Slots /\ m \in 0 .. Capacity
      BY <1>1, <1>2, <1>3 DEF Slots
    <3> HIDE DEF m
    <3> QED
      BY <1>4, <3>1, SlotAfter
  <2>2. write_pos = Slot(filled)
    BY DEF Held
  <2> HIDE DEF m, first
  <2> QED
    BY <1>1, <1>2, <1>3, <2>1, <2>2 DEF Slot
<1>9. \A k \in 0 .. filled + m - 1 : queue'[Slot(k)] = delivered + 1 + k
  <2> SUFFICES ASSUME NEW k \in 0 .. filled + m - 1
               PROVE  queue'[Slot(k)] = delivered + 1 + k
    OBVIOUS
  <2>1. write_pos = Slot(filled)
    BY DEF Held
  <2>2. k < filled => queue[Slot(k)] = delivered + 1 + k
    BY <1>2, <1>3 DEF Held
  <2> DEFINE s == Slot(k)
  <2>3. s \in 0 .. Capacity - 1
    BY <1>1, <1>2, <1>3 DEF Slot
  <2>4. queue'[s] = IF s >= write_pos /\ s < write_pos + first
                    THEN accepted + 1 + s - write_pos
                    ELSE IF s < m - first THEN accepted + 1 + first + s
                    ELSE queue[s]
    BY <1>6, <2>3 DEF Slots
  <2> HIDE DEF m, first
  <2>5. CASE k < filled
    <3>1. ~(s >= write_pos /\ s < write_pos + first) /\ ~(s < m - first)
      BY <1>1, <1>2, <1>3, <1>5, <2>1, <2>5 DEF Slot
    <3> QED
      BY <2>2, <2>4, <2>5, <3>1
  <2>6. CASE k >= filled
    <3>1. CASE k < filled + first
      <4>1. s = write_pos + (k - filled)
        BY <1>1, <1>2, <1>3, <1>5, <2>1, <3>1, <2>6 DEF Slot
      <4> QED
        BY <1>1, <1>2, <1>3, <1>5, <2>4, <2>6, <3>1, <4>1
    <3>2. CASE k >= filled + first
      <4>1. s = k - filled - first /\ ~(s >= write_pos)
        BY <1>1, <1>2, <1>3, <1>5, <2>1, <3>2, <2>6 DEF Slot
      <4> QED
        BY <1>1, <1>2, <1>3, <1>5, <2>4, <2>6, <3>2, <4>1
    <3> QED
      BY <1>2, <1>3, <1>5, <3>1, <3>2
  <2> QED
    BY <1>2, <1>3, <2>5, <2>6
<1> HIDE DEF m, first
<1>10. Held'
  <2>1. filled' \in 0 .. Capacity /\ read_pos' \in Slots /\ accepted' \in 0 .. MaxFrames
        /\ delivered' \in Nat /\ accepted' = delivered' + filled'
    BY <1>1, <1>2, <1>3, <1>4 DEF Slots
  <2>2. \A k \in Nat : Slot(k)' = Slot(k)
    BY <1>4 DEF Slot
  <2>3. write_pos' \in Slots /\ write_pos' = Slot(filled)'
    <3>1. Slot(filled)' = Slot(filled + m)
      BY <1>4 DEF Slot
    <3>2. Slot(filled + m) \in Slots
      BY <1>1, <1>2, <1>3 DEF Slot, Slots
    <3> QED
      BY <1>8, <3>1, <3>2
  <2>4. \A k \in 0 .. filled' - 1 : queue'[Slot(k)'] = delivered' + 1 + k
    BY <1>2, <1>3, <1>4, <1>9, <2>2
  <2> QED
    BY <1>7, <2>1, <2>3, <2>4 DEF Held
<1>11. CASE m = 0
  BY <1>2, <1>4, <1>10, <1>11 DEF history
<1>12. CASE m # 0
  <2>1. m \in 1 .. Capacity /\ accepted + m - delivered <= Capacity
    BY <1>1, <1>2, <1>3, <1>12
  <2>2. Abstract!Put(m)
    BY <1>4, <2>1 DEF Abstract!Put
  <2> QED
    BY <1>10, <2>1, <2>2
<1> QED
  BY <1>11, <1>12

(* What on_process hands to the stream: the oldest frames, in order, and what is
   left in the queue follows them (lines 181-209). *)
LEMMA TakeHeld ==
    ASSUME Held, NEW n \in Nat, NEW count, count = AtMost(n, filled),
           output' = CopyOut(count), delivered' = delivered + count,
           read_pos' = (read_pos + count) % Capacity, filled' = filled - count,
           UNCHANGED <<queue, write_pos, accepted>>
    PROVE  Held' /\ count \in 0 .. filled /\ Abstract!Take(count)
<1>1. Capacity \in Nat \ {0} /\ MaxFrames \in Nat
  BY Constants
<1>2. /\ filled \in 0 .. Capacity /\ read_pos \in 0 .. Capacity - 1
      /\ write_pos \in 0 .. Capacity - 1 /\ accepted = delivered + filled
      /\ accepted \in 0 .. MaxFrames /\ delivered \in Nat
      /\ queue \in [Slots -> 0 .. MaxFrames]
  BY DEF Held, Slots
<1>3. count \in 0 .. filled
  BY <1>1, <1>2 DEF AtMost
<1>4. read_pos' = Slot(count) /\ read_pos' \in Slots
  <2>1. read_pos' = IF read_pos + count < Capacity THEN read_pos + count
                    ELSE read_pos + count - Capacity
    <3>1. read_pos \in Slots /\ count \in 0 .. Capacity
      BY <1>1, <1>2, <1>3 DEF Slots
    <3> QED
      BY <3>1, SlotAfter
  <2>2. read_pos' = Slot(count)
    BY <2>1 DEF Slot
  <2>3. read_pos' \in 0 .. Capacity - 1
    BY <1>1, <1>2, <1>3, <2>1
  <2> QED
    BY <2>2, <2>3 DEF Slots
<1>5. \A k \in 0 .. Capacity - count : Slot(k)' = Slot(count + k)
  BY <1>1, <1>2, <1>3, <1>4 DEF Slot
<1>6. Held'
  <2>1. filled' \in 0 .. Capacity /\ accepted' = delivered' + filled' /\ delivered' \in Nat
    <3>1. delivered' = delivered + count /\ filled' = filled - count /\ accepted' = accepted
      OBVIOUS
    <3> QED
      BY <1>1, <1>2, <1>3, <3>1
  <2>2. write_pos' = Slot(filled)'
    <3>1. write_pos = Slot(filled) /\ filled' \in 0 .. Capacity - count
      BY <1>1, <1>2, <1>3 DEF Held
    <3>2. Slot(filled)' = IF read_pos' + filled' < Capacity THEN read_pos' + filled'
                          ELSE read_pos' + filled' - Capacity
      BY DEF Slot
    <3> QED
      BY <1>1, <1>2, <1>3, <1>4, <3>1, <3>2 DEF Slot
  <2>3. \A k \in 0 .. filled' - 1 : queue'[Slot(k)'] = delivered' + 1 + k
    <3> SUFFICES ASSUME NEW k \in 0 .. filled' - 1
                 PROVE  queue'[Slot(k)'] = delivered' + 1 + k
      OBVIOUS
    <3>1. count + k \in 0 .. filled - 1 /\ k \in 0 .. Capacity - count
      BY <1>1, <1>2, <1>3
    <3>2. queue[Slot(count + k)] = delivered + 1 + (count + k)
      BY <3>1 DEF Held
    <3> QED
      BY <1>2, <1>3, <1>5, <3>1, <3>2
  <2> QED
    BY <1>2, <1>4, <2>1, <2>2, <2>3 DEF Held, Slots
<1>7. output' = [i \in 1 .. count |-> delivered + i]
  <2> DEFINE first == AtMost(Capacity - read_pos, count)
  <2>1. output' = [i \in 1 .. count |-> IF i <= first THEN queue[read_pos + i - 1]
                                        ELSE queue[i - 1 - first]]
    BY DEF CopyOut
  <2>2. first \in 0 .. count /\ first <= Capacity - read_pos
        /\ (first = count \/ first = Capacity - read_pos)
    BY <1>1, <1>2, <1>3 DEF AtMost
  <2> HIDE DEF first
  <2>3. ASSUME NEW i \in 1 .. count
        PROVE  (IF i <= first THEN queue[read_pos + i - 1] ELSE queue[i - 1 - first])
                  = delivered + i
    <3>1. queue[Slot(i - 1)] = delivered + 1 + (i - 1)
      BY <1>2, <1>3 DEF Held
    <3>2. Slot(i - 1) = IF i <= first THEN read_pos + i - 1 ELSE i - 1 - first
      BY <1>1, <1>2, <1>3, <2>2 DEF Slot
    <3> QED
      BY <1>2, <3>1, <3>2
  <2> QED
    BY <2>1, <2>3
<1> QED
  BY <1>2, <1>3, <1>6, <1>7 DEF Abstract!Take

(* What a fault, more frames and the request to drain do to the stream. *)
LEMMA Faulted ==
    ASSUME stream \in StreamType, NEW count \in Nat, FaultAfter(count)
    PROVE  /\ stream' \in StreamType
           /\ stream'.queued = stream.queued + count
           /\ stream'.draining = stream.draining
<1>1. stream' = [stream EXCEPT !.faults = @ + 1, !.queued = @ + count]
  BY DEF FaultAfter
<1>2. stream.faults + 1 \in Nat /\ stream.queued + count \in Nat
  BY DEF StreamType
<1>3. stream' = [active |-> stream.active, queued |-> stream.queued + count,
                 draining |-> stream.draining, faults |-> stream.faults + 1]
  BY <1>1 DEF StreamType
<1> QED
  BY <1>2, <1>3 DEF StreamType

LEMMA Asked ==
    ASSUME stream \in StreamType, NEW count \in Nat, NEW due \in BOOLEAN,
           \/ stream' = [stream EXCEPT !.queued = @ + count, !.draining = @ \/ due]
           \/ count = 0 /\ stream' = [stream EXCEPT !.draining = @ \/ due]
    PROVE  /\ stream' \in StreamType
           /\ stream'.queued = stream.queued + count
           /\ stream'.draining = (stream.draining \/ due)
<1>1. (stream.draining \/ due) \in BOOLEAN
  OBVIOUS
<1>2. stream.queued + count \in Nat /\ (count = 0 => stream.queued + count = stream.queued)
  BY DEF StreamType
<1>3. stream' = [active |-> stream.active, queued |-> stream.queued + count,
                 draining |-> (stream.draining \/ due), faults |-> stream.faults]
  BY <1>2 DEF StreamType
<1> QED
  BY <1>1, <1>2, <1>3 DEF StreamType

(* What activate does before it waits (lines 396-403). *)
LEMMA Activated ==
    ASSUME Types, NEW op \in {"start", "resume", "write"}, NEW n \in Nat, Activate(op, n)
    PROVE  /\ stream' \in StreamType /\ own' \in OwnType /\ clock' \in ClockType
           /\ stream'.queued = stream.queued /\ stream'.draining = stream.draining
           /\ clock'.process = 0 /\ clock'.silent = clock.silent
           /\ state' \in {state, "PLAYING"} /\ failed' \in {failed, "error"}
           /\ graph_rate_verified' = FALSE
           /\ UNCHANGED <<mode, stream_state, format_ready, fifo, history>>
           /\ \/ own' = own
              \/ own'.op = op /\ own'.frames = n
<1>1. /\ clock' = [clock EXCEPT !.process = 0] /\ graph_rate_verified' = FALSE
      /\ UNCHANGED <<mode, stream_state, format_ready, fifo, history>>
  BY DEF Activate
<1>2. clock' \in ClockType /\ clock'.process = 0 /\ clock'.silent = clock.silent
  BY <1>1 DEF Types, ClockType
<1>3. CASE stream' = [stream EXCEPT !.active = TRUE] /\ state' = "PLAYING" /\ WaitReady(op, n)
           /\ UNCHANGED failed
  <2>1. stream' = [active |-> TRUE, queued |-> stream.queued, draining |-> stream.draining,
                   faults |-> stream.faults]
    BY <1>3 DEF Types, StreamType
  <2>2. own' \in OwnType /\ own'.op = op /\ own'.frames = n
    BY <1>3 DEF WaitReady, OwnType
  <2> QED
    BY <1>1, <1>2, <1>3, <2>1, <2>2 DEF Types, StreamType
<1>4. CASE Fail("error") /\ Fault /\ UNCHANGED <<state, own>>
  <2>1. /\ stream' \in StreamType /\ stream'.queued = stream.queued + 0
        /\ stream'.draining = stream.draining
    BY <1>4, Faulted DEF Fault, Types
  <2>2. stream'.queued = stream.queued
    BY <2>1 DEF Types, StreamType
  <2> QED
    BY <1>1, <1>2, <1>4, <2>1, <2>2 DEF Fail, Types
<1> QED
  BY <1>3, <1>4 DEF Activate

(* Every step keeps the types. *)
LEMMA TypesStep ==
    ASSUME Types, Held, [Next]_vars
    PROVE  Types'
<1>1. CASE Notified
  <2>1. UNCHANGED stream \/ FaultAfter(0)
    BY <1>1 DEF Notified, Streams, Pauses, StreamLost, CoreError, ParamChanged, Fault
  <2>2. stream' \in StreamType
    BY <2>1, Faulted DEF Types
  <2>3. /\ stream_state' \in {"ERROR", "UNCONNECTED", "CONNECTING", "PAUSED", "STREAMING"}
        /\ failed' \in {failed, "error"} /\ format_ready' \in BOOLEAN
    BY <1>1
       DEF Notified, Streams, Pauses, StreamLost, CoreError, ParamChanged, Fail, Types
  <2> QED
    BY <1>1, <2>2, <2>3 DEF Notified, Types, drain, history, fifo
<1>2. CASE RateUnknown
  BY <1>2 DEF RateUnknown, Processing, Types, ClockType, ready, drain
<1>3. CASE WrongRate
  <2>1. UNCHANGED stream \/ FaultAfter(0)
    BY <1>3 DEF WrongRate, Fault
  <2>2. stream' \in StreamType
    BY <2>1, Faulted DEF Types
  <2>3. clock' \in ClockType
    BY <1>3 DEF WrongRate, Processing, Types, ClockType
  <2> QED
    BY <1>3, <2>2, <2>3 DEF WrongRate, Fail, Types, ready, drain
<1>4. CASE ProcessNothing
  <2>1. clock' \in ClockType
    BY <1>4 DEF ProcessNothing, RateKnown, Processing, Types, ClockType
  <2>2. stream' \in StreamType
    <3>1. \/ UNCHANGED stream \/ FaultAfter(0)
          \/ stream' = [stream EXCEPT !.draining = @ \/ ~drain_sent]
      BY <1>4 DEF ProcessNothing, Fault
    <3>2. (~drain_sent) \in BOOLEAN /\ 0 \in Nat /\ stream \in StreamType
      BY DEF Types
    <3> QED
      BY <3>1, <3>2, Faulted, Asked
  <2>3. drain_sent' \in BOOLEAN /\ failed' \in {failed, "error"}
    BY <1>4 DEF ProcessNothing, Fail, Types
  <2>4. graph_rate_verified' \in BOOLEAN
    BY <1>4 DEF ProcessNothing, RateKnown
  <2> QED
    BY <1>4, <2>1, <2>2, <2>3, <2>4 DEF ProcessNothing, RateKnown, Types
<1>5. ASSUME NEW n \in Quanta, ProcessFrames(n)
      PROVE  Types'
  <2> DEFINE count == AtMost(n, filled)
             due   == DrainIsDue(drain_requested, filled - count)
  <2>1. clock' \in ClockType
    BY <1>5 DEF ProcessFrames, RateKnown, Processing, Types, ClockType
  <2>2. count \in Nat /\ due \in BOOLEAN
    BY Constants DEF AtMost, DrainIsDue, Held
  <2>3. stream' \in StreamType
    <3>1. \/ FaultAfter(0) \/ FaultAfter(count)
          \/ stream' = [stream EXCEPT !.queued = @ + count, !.draining = @ \/ due]
      BY <1>5 DEF ProcessFrames, Fault
    <3>2. stream \in StreamType
      BY DEF Types
    <3> HIDE DEF count, due
    <3> QED
      BY <2>2, <3>1, <3>2, Faulted, Asked
  <2>4. drain_sent' \in BOOLEAN
    BY <1>5 DEF ProcessFrames, Types, DrainIsDue
  <2>5. failed' \in {failed, "error"}
    BY <1>5 DEF ProcessFrames, Fail
  <2>6. graph_rate_verified' \in BOOLEAN
    BY <1>5 DEF ProcessFrames, RateKnown
  <2> QED
    BY <1>5, <2>1, <2>3, <2>4, <2>5, <2>6 DEF ProcessFrames, RateKnown, Types
<1>6. CASE OnDrained
  <2>1. stream' \in StreamType
    BY <1>6 DEF OnDrained, Types, StreamType
  <2>2. drained' \in BOOLEAN
    BY <1>6 DEF OnDrained
  <2> QED
    BY <1>6, <2>1, <2>2 DEF OnDrained, Types, ready
<1>7. CASE Play
  <2>1. stream' \in StreamType
    BY <1>7 DEF Play, Types, StreamType
  <2> QED
    BY <1>7, <2>1 DEF Play, Types, ready, drain
<1>8. CASE Tick
  <2>1. clock' \in ClockType
    <3>1. \A age \in Nat : Older(age) \in Nat
      BY DEF Older
    <3> QED
      BY <1>8, <3>1 DEF Tick, Types, ClockType
  <2>2. own' \in OwnType
    <3>1. \A age \in Nat : Older(age) \in Nat
      BY DEF Older
    <3> QED
      BY <1>8, <3>1 DEF Tick, Types, OwnType
  <2> QED
    BY <1>8, <2>1, <2>2 DEF Tick, Types, ready, drain
<1>9. CASE FoundStalled
  BY <1>9 DEF FoundStalled, Types, ready, drain
<1>10. CASE Start
  <2>1. Activate("start", 0)
    BY <1>10 DEF Start
  <2> QED
    BY <2>1, <1>10, Activated DEF Types, Start, drain
<1>11. CASE Resume
  <2>1. Activate("resume", 0)
    BY <1>11 DEF Resume
  <2> QED
    BY <2>1, <1>11, Activated DEF Types, Resume, drain
<1>12. CASE Pause
  <2>1. stream' \in StreamType
    <3>1. FaultAfter(0) \/ stream' = [stream EXCEPT !.active = FALSE]
      BY <1>12 DEF Pause, Fault
    <3>2. [stream EXCEPT !.active = FALSE] \in StreamType
      BY DEF Types, StreamType
    <3> QED
      BY <3>1, <3>2, Faulted DEF Types
  <2> QED
    BY <1>12, <2>1 DEF Pause, Fail, Types, ready, drain
<1>13. CASE Stop
  <2>1. stream' \in StreamType
    <3>1. \/ FaultAfter(0)
          \/ stream' = [stream EXCEPT !.active = FALSE, !.queued = 0, !.draining = FALSE]
      BY <1>13 DEF Stop, Fault
    <3>2. [stream EXCEPT !.active = FALSE, !.queued = 0, !.draining = FALSE] \in StreamType
      BY DEF Types, StreamType
    <3> QED
      BY <3>1, <3>2, Faulted DEF Types
  <2> QED
    BY <1>13, <2>1 DEF Stop, Fail, Types, ready
<1>14. ASSUME NEW n \in 1 .. MaxWrite, Write(n)
       PROVE  Types'
  BY <1>14 DEF Write, Types, ready, drain
<1>15. ASSUME NEW n \in 1 .. MaxWrite, WriteAnew(n)
       PROVE  Types'
  <2>1. Activate("write", n) /\ n \in Nat /\ Segment
    BY <1>15, Constants DEF WriteAnew
  <2> QED
    BY <2>1, Activated DEF Types, Segment
<1>16. CASE Drain
  <2>1. stream' \in StreamType
    <3>1. \/ FaultAfter(0)
          \/ stream' = [stream EXCEPT !.draining = @ \/ DrainIsDue(TRUE, filled)]
      BY <1>16 DEF Drain, Fault
    <3>2. DrainIsDue(TRUE, filled) \in BOOLEAN /\ stream \in StreamType
      BY DEF DrainIsDue, Types
    <3> QED
      BY <3>1, <3>2, Faulted, Asked
  <2>2. drain_sent' \in BOOLEAN
    BY <1>16 DEF Drain, DrainIsDue
  <2> QED
    BY <1>16, <2>1, <2>2 DEF Drain, Fail, Types, ready
<1>17. CASE Ready
  <2>1. own' \in OwnType
    BY <1>17 DEF Ready, Idle, OwnType
  <2> QED
    BY <1>17, <2>1 DEF Ready, Types, ready, drain
<1>18. CASE NotReady
  <2>1. own' \in OwnType
    BY <1>18 DEF NotReady, Idle, Types, OwnType
  <2> QED
    BY <1>18, <2>1 DEF NotReady, Fail, Types, ready, drain
<1>19. CASE Close
  <2>1. own' \in OwnType
    BY <1>19 DEF Close, Types, OwnType
  <2> QED
    BY <1>19, <2>1 DEF Close, Types, ready, drain
<1>20. CASE UNCHANGED vars
  BY <1>20 DEF vars, Types, ready, drain
<1> QED
  BY <1>1, <1>2, <1>3, <1>4, <1>5, <1>6, <1>7, <1>8, <1>9, <1>10, <1>11, <1>12, <1>13,
     <1>14, <1>15, <1>16, <1>17, <1>18, <1>19, <1>20
     DEF Next, GraphStep, Waiting, OwnerCall

(* The queue is left alone. *)
LEMMA HeldSame ==
    ASSUME Held, UNCHANGED <<fifo, history>>
    PROVE  Held' /\ [Abstract!Next]_(Abstract!fifoVars)
<1>1. Held'
  BY DEF Held, fifo, positions, history, Slot
<1> QED
  BY <1>1 DEF history, Abstract!fifoVars

(* The queue and its history change as those of a FIFO. *)
LEMMA HeldStep ==
    ASSUME PipeInv, [Next]_vars
    PROVE  Held' /\ [Abstract!Next]_(Abstract!fifoVars)
<1>1. CASE Notified
  <2>1. UNCHANGED <<fifo, history>>
    BY <1>1 DEF Notified
  <2> QED
    BY <2>1, HeldSame DEF PipeInv
<1>2. CASE RateUnknown
  <2>1. UNCHANGED <<fifo, history>>
    BY <1>2 DEF RateUnknown, Processing
  <2> QED
    BY <2>1, HeldSame DEF PipeInv
<1>3. CASE WrongRate
  <2>1. UNCHANGED <<fifo, history>>
    BY <1>3 DEF WrongRate, Processing
  <2> QED
    BY <2>1, HeldSame DEF PipeInv
<1>4. CASE ProcessNothing
  <2>1. UNCHANGED <<fifo, history>>
    BY <1>4 DEF ProcessNothing, RateKnown, history
  <2> QED
    BY <2>1, HeldSame DEF PipeInv
<1>5. ASSUME NEW n \in Quanta, ProcessFrames(n)
      PROVE  Held' /\ [Abstract!Next]_(Abstract!fifoVars)
  <2> DEFINE count == AtMost(n, filled)
  <2>1. /\ output' = CopyOut(count) /\ delivered' = delivered + count
        /\ read_pos' = (read_pos + count) % Capacity /\ filled' = filled - count
        /\ UNCHANGED <<queue, write_pos>>
    BY <1>5 DEF ProcessFrames
  <2>2. accepted' = accepted
    BY <1>5 DEF ProcessFrames, RateKnown
  <2>3. n \in Nat
    BY Constants
  <2> HIDE DEF count
  <2>4. Held' /\ count \in 0 .. filled /\ Abstract!Take(count)
    BY <2>1, <2>2, <2>3, TakeHeld DEF PipeInv, count
  <2>5. count \in 0 .. Capacity
    BY <2>4, Constants DEF PipeInv, Held
  <2> QED
    BY <2>4, <2>5 DEF Abstract!Next
<1>6. CASE OnDrained
  <2>1. UNCHANGED <<fifo, history>>
    BY <1>6 DEF OnDrained
  <2> QED
    BY <2>1, HeldSame DEF PipeInv
<1>7. CASE Play
  <2>1. UNCHANGED <<fifo, history>>
    BY <1>7 DEF Play
  <2> QED
    BY <2>1, HeldSame DEF PipeInv
<1>8. CASE Tick
  <2>1. UNCHANGED <<fifo, history>>
    BY <1>8 DEF Tick
  <2> QED
    BY <2>1, HeldSame DEF PipeInv
<1>9. CASE FoundStalled
  <2>1. UNCHANGED <<fifo, history>>
    BY <1>9 DEF FoundStalled
  <2> QED
    BY <2>1, HeldSame DEF PipeInv
<1>10. CASE Start
  <2>1. Activate("start", 0)
    BY <1>10 DEF Start
  <2>2. UNCHANGED <<fifo, history>>
    BY <2>1 DEF Activate
  <2> QED
    BY <2>2, HeldSame DEF PipeInv
<1>11. CASE Resume
  <2>1. Activate("resume", 0)
    BY <1>11 DEF Resume
  <2>2. UNCHANGED <<fifo, history>>
    BY <2>1 DEF Activate
  <2> QED
    BY <2>2, HeldSame DEF PipeInv
<1>12. CASE Pause
  <2>1. UNCHANGED <<fifo, history>>
    BY <1>12 DEF Pause
  <2> QED
    BY <2>1, HeldSame DEF PipeInv
<1>13. CASE Stop
  <2>1. /\ filled' = 0 /\ read_pos' = 0 /\ write_pos' = 0 /\ delivered' = accepted
        /\ UNCHANGED <<queue, accepted, output>>
    BY <1>13 DEF Stop
  <2>2. Held'
    <3>1. 0 \in Slots
      BY Constants DEF Slots
    <3>2. Slot(0)' = 0
      BY <2>1, Constants DEF Slot
    <3>3. Held
      BY DEF PipeInv
    <3> QED
      BY <2>1, <3>1, <3>2, <3>3, Constants DEF Held
  <2> QED
    BY <2>1, <2>2 DEF Abstract!Next, Abstract!Discard
<1>14. ASSUME NEW n \in 1 .. MaxWrite, Write(n)
       PROVE  Held' /\ [Abstract!Next]_(Abstract!fifoVars)
  <2>1. n \in Nat \ {0} /\ accepted + n <= MaxFrames /\ Append(n)
    BY <1>14, Constants DEF Write, Writable
  <2>2. Held' /\ (UNCHANGED history \/ \E k \in 1 .. Capacity : Abstract!Put(k))
    BY <2>1, AppendHeld DEF PipeInv
  <2> QED
    BY <2>2 DEF history, Abstract!Next, Abstract!fifoVars
<1>15. ASSUME NEW n \in 1 .. MaxWrite, WriteAnew(n)
       PROVE  Held' /\ [Abstract!Next]_(Abstract!fifoVars)
  <2>1. Activate("write", n)
    BY <1>15 DEF WriteAnew
  <2>2. UNCHANGED <<fifo, history>>
    BY <2>1 DEF Activate
  <2> QED
    BY <2>2, HeldSame DEF PipeInv
<1>16. CASE Drain
  <2>1. UNCHANGED <<fifo, history>>
    BY <1>16 DEF Drain
  <2> QED
    BY <2>1, HeldSame DEF PipeInv
<1>17. CASE Ready
  <2>1. CASE own.op = "write"
    <3>1. own.frames \in Nat \ {0} /\ accepted + own.frames <= MaxFrames /\ Append(own.frames)
      BY <1>17, <2>1 DEF Ready, PipeInv, Types, OwnType, Drains
    <3>2. Held' /\ (UNCHANGED history \/ \E k \in 1 .. Capacity : Abstract!Put(k))
      BY <3>1, AppendHeld DEF PipeInv
    <3> QED
      BY <3>2 DEF history, Abstract!Next, Abstract!fifoVars
  <2>2. CASE own.op # "write"
    <3>1. UNCHANGED <<fifo, history>>
      BY <1>17, <2>2 DEF Ready
    <3> QED
      BY <3>1, HeldSame DEF PipeInv
  <2> QED
    BY <2>1, <2>2
<1>18. CASE NotReady
  <2>1. UNCHANGED <<fifo, history>>
    BY <1>18 DEF NotReady
  <2> QED
    BY <2>1, HeldSame DEF PipeInv
<1>19. CASE Close
  <2>1. UNCHANGED <<fifo, history>>
    BY <1>19 DEF Close
  <2> QED
    BY <2>1, HeldSame DEF PipeInv
<1>20. CASE UNCHANGED vars
  <2>1. UNCHANGED <<fifo, history>>
    BY <1>20 DEF vars
  <2> QED
    BY <2>1, HeldSame DEF PipeInv
<1> QED
  BY <1>1, <1>2, <1>3, <1>4, <1>5, <1>6, <1>7, <1>8, <1>9, <1>10, <1>11, <1>12, <1>13,
     <1>14, <1>15, <1>16, <1>17, <1>18, <1>19, <1>20
     DEF Next, GraphStep, Waiting, OwnerCall

(* Every step keeps Drains. *)
LEMMA DrainsStep ==
    ASSUME PipeInv, [Next]_vars
    PROVE  Drains'
<1> USE DEF PipeInv, Types, OwnType, StreamType, Held, Drains
<1>1. CASE Notified
  <2>1. UNCHANGED stream \/ FaultAfter(0)
    BY <1>1 DEF Notified, Streams, Pauses, StreamLost, CoreError, ParamChanged, Fault
  <2>2. stream'.queued = stream.queued /\ stream'.draining = stream.draining
    <3>1. stream.queued + 0 = stream.queued
      OBVIOUS
    <3> QED
      BY <2>1, <3>1, Faulted
  <2>3. UNCHANGED <<filled, delivered, accepted, drain, own>>
    BY <1>1 DEF Notified, fifo, positions, history
  <2>4. failed' = "no" => failed = "no"
    BY <1>1 DEF Notified, Streams, Pauses, StreamLost, CoreError, ParamChanged, Fail
  <2> QED
    BY <2>2, <2>3, <2>4 DEF drain
<1>2. CASE RateUnknown
  BY <1>2 DEF RateUnknown, fifo, positions, history, drain
<1>3. CASE WrongRate
  <2>1. UNCHANGED stream \/ FaultAfter(0)
    BY <1>3 DEF WrongRate, Fault
  <2>2. stream'.queued = stream.queued /\ stream'.draining = stream.draining
    <3>1. stream.queued + 0 = stream.queued
      OBVIOUS
    <3> QED
      BY <2>1, <3>1, Faulted
  <2>3. UNCHANGED <<filled, delivered, accepted, drain, own>>
    BY <1>3 DEF WrongRate, fifo, positions, history
  <2>4. failed' = "no" => failed = "no"
    BY <1>3 DEF WrongRate, Fail
  <2> QED
    BY <2>2, <2>3, <2>4 DEF drain
<1>4. CASE ProcessNothing
  <2>1. UNCHANGED <<filled, delivered, accepted, drain_requested, drained, own>>
    BY <1>4 DEF ProcessNothing, RateKnown, fifo, positions
  <2>2. stream.queued + 0 = stream.queued /\ (~drain_sent) \in BOOLEAN /\ failed = "no"
    BY <1>4 DEF ProcessNothing, RateKnown, Processing
  <2>3. CASE drain_requested /\ filled = 0
    <3>1. /\ drain_sent' = TRUE
          /\ \/ stream' = [stream EXCEPT !.draining = @ \/ ~drain_sent]
             \/ failed' # "no" /\ FaultAfter(0)
      BY <1>4, <2>3 DEF ProcessNothing, Fail, Fault
    <3>2. CASE stream' = [stream EXCEPT !.draining = @ \/ ~drain_sent]
      <4>1. stream'.queued = stream.queued /\ stream'.draining = (stream.draining \/ ~drain_sent)
        BY <2>2, <3>2, Asked
      <4> QED
        BY <2>1, <2>2, <2>3, <3>1, <4>1
    <3>3. CASE failed' # "no" /\ FaultAfter(0)
      <4>1. stream'.queued = stream.queued
        BY <2>2, <3>3, Faulted
      <4> QED
        BY <2>1, <2>2, <2>3, <3>1, <3>3, <4>1
    <3> QED
      BY <3>1, <3>2, <3>3
  <2>4. CASE ~(drain_requested /\ filled = 0)
    <3>1. drain_sent' = drain_sent /\ (UNCHANGED stream \/ (failed' # "no" /\ FaultAfter(0)))
      BY <1>4, <2>4 DEF ProcessNothing, Fail, Fault
    <3>2. stream'.queued = stream.queued /\ stream'.draining = stream.draining
      BY <2>2, <3>1, Faulted
    <3> QED
      BY <2>1, <2>2, <3>1, <3>2
  <2> QED
    BY <2>3, <2>4
<1>5. ASSUME NEW n \in Quanta, ProcessFrames(n)
      PROVE  Drains'
  <2> DEFINE count == AtMost(n, filled)
             due   == DrainIsDue(drain_requested, filled - count)
  <2>1. UNCHANGED <<accepted, drain_requested, drained, own>>
    BY <1>5 DEF ProcessFrames, RateKnown
  <2>2. ~drain_sent /\ ~drained /\ failed = "no" /\ ~(drain_requested /\ filled = 0)
    BY <1>5 DEF ProcessFrames, RateKnown, Processing
  <2>3. ~stream.draining
    BY <2>2
  <2>4. count \in Nat /\ due \in BOOLEAN
    BY Constants DEF AtMost, DrainIsDue
  <2>5. filled' = filled - count /\ delivered' = delivered + count
    BY <1>5 DEF ProcessFrames
  <2>6. due => drain_requested /\ filled - count = 0
    BY DEF DrainIsDue
  <2>7. \/ /\ drain_sent' = (drain_sent \/ due)
           /\ stream' = [stream EXCEPT !.queued = @ + count, !.draining = @ \/ due]
        \/ drain_sent' = drain_sent /\ failed' # "no" /\ FaultAfter(0)
        \/ due /\ drain_sent' = TRUE /\ failed' # "no" /\ FaultAfter(count)
    BY <1>5 DEF ProcessFrames, Fail, Fault
  <2> HIDE DEF count, due
  <2>8. own.op = "write" /\ own.pc = "ready" => ~drain_requested
    OBVIOUS
  <2>9. CASE /\ drain_sent' = (drain_sent \/ due)
             /\ stream' = [stream EXCEPT !.queued = @ + count, !.draining = @ \/ due]
    <3>1. stream'.queued = stream.queued + count /\ stream'.draining = (stream.draining \/ due)
      BY <2>4, <2>9, Asked
    <3> QED
      BY <2>1, <2>2, <2>3, <2>4, <2>5, <2>6, <2>9, <3>1
  <2>10. CASE drain_sent' = drain_sent /\ failed' # "no" /\ FaultAfter(0)
    <3>1. stream'.queued = stream.queued + 0
      BY <2>10, Faulted
    <3> QED
      BY <2>1, <2>2, <2>4, <2>5, <2>10, <3>1
  <2>11. CASE due /\ drain_sent' = TRUE /\ failed' # "no" /\ FaultAfter(count)
    <3>1. stream'.queued = stream.queued + count
      BY <2>4, <2>11, Faulted
    <3> QED
      BY <2>1, <2>2, <2>4, <2>5, <2>6, <2>11, <3>1
  <2> QED
    BY <2>7, <2>9, <2>10, <2>11
<1>6. CASE OnDrained
  <2>1. UNCHANGED <<filled, delivered, accepted, drain_requested, drain_sent, failed, own>>
    BY <1>6 DEF OnDrained, fifo, positions, history
  <2>2. /\ drained' = (drained \/ drain_sent)
        /\ stream'.queued = stream.queued /\ stream.queued = 0 /\ stream'.draining = FALSE
    BY <1>6 DEF OnDrained
  <2> QED
    BY <2>1, <2>2
<1>7. CASE Play
  <2>1. UNCHANGED <<filled, delivered, accepted, drain, failed, own>>
    BY <1>7 DEF Play, fifo, positions, history
  <2>2. /\ stream'.queued = stream.queued - 1 /\ stream.queued > 0
        /\ stream'.draining = stream.draining
    BY <1>7 DEF Play
  <2> QED
    BY <2>1, <2>2 DEF drain
<1>8. CASE Tick
  <2>1. own'.pc = own.pc /\ own'.op = own.op /\ own'.frames = own.frames
    BY <1>8 DEF Tick
  <2> QED
    BY <1>8, <2>1 DEF Tick, fifo, positions, drain, history
<1>9. CASE FoundStalled
  BY <1>9 DEF FoundStalled, fifo, positions, drain, history
<1>10. CASE Start
  <2>1. Activate("start", 0) /\ UNCHANGED drain
    BY <1>10 DEF Start
  <2>2. /\ stream'.queued = stream.queued /\ stream'.draining = stream.draining
        /\ UNCHANGED <<filled, delivered, accepted>> /\ failed' \in {failed, "error"}
        /\ own' = own \/ own'.op = "start"
    BY <2>1, Activated DEF fifo, positions, history
  <2> QED
    BY <2>1, <2>2 DEF drain
<1>11. CASE Resume
  <2>1. Activate("resume", 0) /\ UNCHANGED drain
    BY <1>11 DEF Resume
  <2>2. /\ stream'.queued = stream.queued /\ stream'.draining = stream.draining
        /\ UNCHANGED <<filled, delivered, accepted>> /\ failed' \in {failed, "error"}
        /\ own' = own \/ own'.op = "resume"
    BY <2>1, Activated DEF fifo, positions, history
  <2> QED
    BY <2>1, <2>2 DEF drain
<1>12. CASE Pause
  <2>1. UNCHANGED <<filled, delivered, accepted, drain, own>>
    BY <1>12 DEF Pause, fifo, positions, history
  <2>2. \/ stream' = [stream EXCEPT !.active = FALSE] /\ UNCHANGED failed
        \/ failed' # "no" /\ FaultAfter(0)
    BY <1>12 DEF Pause, Fail, Fault
  <2>3. stream'.queued = stream.queued /\ stream'.draining = stream.draining
    <3>1. stream.queued + 0 = stream.queued
      OBVIOUS
    <3> QED
      BY <2>2, <3>1, Faulted
  <2> QED
    BY <2>1, <2>2, <2>3 DEF drain
<1>13. CASE Stop
  <2>1. /\ drain_requested' = FALSE /\ drain_sent' = FALSE /\ drained' = FALSE /\ own' = own
        /\ delivered' = accepted /\ accepted' = accepted /\ own.pc = "idle"
    BY <1>13 DEF Stop, Owner
  <2>2. \/ stream' = [stream EXCEPT !.active = FALSE, !.queued = 0, !.draining = FALSE]
        \/ failed' # "no" /\ FaultAfter(0)
    BY <1>13 DEF Stop, Fail, Fault
  <2>3. CASE stream' = [stream EXCEPT !.active = FALSE, !.queued = 0, !.draining = FALSE]
    <3>1. stream'.queued = 0 /\ stream'.draining = FALSE
      BY <2>3
    <3> QED
      BY <2>1, <3>1
  <2>4. CASE failed' # "no" /\ FaultAfter(0)
    <3>1. stream'.queued = stream.queued + 0
      BY <2>4, Faulted
    <3> QED
      BY <2>1, <2>4, <3>1
  <2> QED
    BY <2>2, <2>3, <2>4
<1>14. ASSUME NEW n \in 1 .. MaxWrite, Write(n)
       PROVE  Drains'
  <2>1. UNCHANGED <<delivered, drain, own, stream, failed>> /\ ~drain_requested /\ own.pc = "idle"
    BY <1>14 DEF Write, Append, NotDraining, Writable, Owner
  <2> QED
    BY <2>1 DEF drain
<1>15. ASSUME NEW n \in 1 .. MaxWrite, WriteAnew(n)
       PROVE  Drains'
  <2>1. /\ Activate("write", n) /\ n \in Nat /\ n > 0 /\ accepted + n <= MaxFrames
        /\ drained /\ failed = "no" /\ own.pc = "idle"
        /\ drain_requested' = FALSE /\ drain_sent' = FALSE /\ drained' = FALSE
    BY <1>15, Constants DEF WriteAnew, Writable, Healthy, Owner, Segment
  <2>2. /\ stream'.queued = stream.queued /\ stream'.draining = stream.draining
        /\ UNCHANGED <<filled, delivered, accepted>>
        /\ own' = own \/ (own'.op = "write" /\ own'.frames = n)
    BY <2>1, Activated DEF fifo, positions, history
  <2> QED
    BY <2>1, <2>2
<1>16. CASE Drain
  <2> DEFINE due == DrainIsDue(TRUE, filled)
  <2>1. /\ UNCHANGED <<filled, delivered, accepted, drained, own>> /\ drain_requested' = TRUE
        /\ own.pc = "idle" /\ failed = "no" /\ drain_sent' = (drain_sent \/ due)
    BY <1>16 DEF Drain, fifo, positions, history, Owner, Healthy
  <2>2. \/ stream' = [stream EXCEPT !.draining = @ \/ due]
        \/ failed' # "no" /\ FaultAfter(0)
    BY <1>16 DEF Drain, Fail, Fault
  <2>3. due \in BOOLEAN /\ (due => filled = 0 /\ ~drain_sent) /\ stream.queued + 0 = stream.queued
    BY DEF DrainIsDue
  <2> HIDE DEF due
  <2>4. CASE stream' = [stream EXCEPT !.draining = @ \/ due]
    <3>1. stream'.queued = stream.queued /\ stream'.draining = (stream.draining \/ due)
      BY <2>3, <2>4, Asked
    <3> QED
      BY <2>1, <2>3, <3>1
  <2>5. CASE failed' # "no" /\ FaultAfter(0)
    <3>1. stream'.queued = stream.queued
      BY <2>3, <2>5, Faulted
    <3> QED
      BY <2>1, <2>3, <2>5, <3>1
  <2> QED
    BY <2>2, <2>4, <2>5
<1>17. CASE Ready
  <2>1. UNCHANGED <<drain, stream, failed>> /\ own'.pc = "idle" /\ own.pc = "ready"
    BY <1>17 DEF Ready, Idle
  <2>2. CASE own.op = "write"
    <3>1. delivered' = delivered /\ ~drain_requested
      BY <1>17, <2>2 DEF Ready, Append
    <3> QED
      BY <2>1, <3>1 DEF drain
  <2>3. CASE own.op # "write"
    <3>1. UNCHANGED <<filled, delivered>>
      BY <1>17, <2>3 DEF Ready, fifo, positions, history
    <3> QED
      BY <2>1, <3>1 DEF drain
  <2> QED
    BY <2>2, <2>3
<1>18. CASE NotReady
  <2>1. UNCHANGED <<filled, delivered, accepted, drain, stream>> /\ failed' # "no"
    BY <1>18 DEF NotReady, fifo, positions, history, Fail
  <2>2. own'.pc # "ready"
    BY <1>18 DEF NotReady, Idle
  <2> QED
    BY <2>1, <2>2 DEF drain
<1>19. CASE Close
  <2>1. UNCHANGED <<filled, delivered, accepted, drain, stream, failed>> /\ own'.pc # "ready"
    BY <1>19 DEF Close, fifo, positions, history
  <2> QED
    BY <2>1 DEF drain
<1>20. CASE UNCHANGED vars
  BY <1>20 DEF vars, fifo, positions, drain, history
<1> QED
  BY <1>1, <1>2, <1>3, <1>4, <1>5, <1>6, <1>7, <1>8, <1>9, <1>10, <1>11, <1>12, <1>13,
     <1>14, <1>15, <1>16, <1>17, <1>18, <1>19, <1>20
     DEF Next, GraphStep, Waiting, OwnerCall

(* Every step keeps SilentAge. *)
LEMMA SilentAgeStep ==
    ASSUME PipeInv, [Next]_vars
    PROVE  SilentAge'
<1> USE DEF PipeInv, Types, ClockType, SilentAge, StallIsReal
<1>1. CASE Notified
  <2>1. UNCHANGED <<state, drained, clock>>
    BY <1>1 DEF Notified, drain
  <2>2. failed' = "stalled" => failed = "stalled"
    BY <1>1 DEF Notified, Streams, Pauses, StreamLost, CoreError, ParamChanged, Fail
  <2> QED
    BY <2>1, <2>2
<1>2. CASE RateUnknown
  <2>1. clock'.process = 0 /\ clock'.silent = 0 /\ failed' # "stalled"
    BY <1>2 DEF RateUnknown, Processing
  <2> QED
    BY <2>1
<1>3. CASE WrongRate
  <2>1. clock'.process = 0 /\ clock'.silent = 0 /\ failed' # "stalled"
    BY <1>3 DEF WrongRate, Processing, Fail
  <2> QED
    BY <2>1
<1>4. CASE ProcessNothing
  <2>1. clock'.process = 0 /\ clock'.silent = 0 /\ failed' # "stalled"
    BY <1>4 DEF ProcessNothing, RateKnown, Processing, Fail
  <2> QED
    BY <2>1
<1>5. ASSUME NEW n \in Quanta, ProcessFrames(n)
      PROVE  SilentAge'
  <2>1. clock'.process = 0 /\ clock'.silent = 0 /\ failed' # "stalled"
    BY <1>5 DEF ProcessFrames, RateKnown, Processing, Fail
  <2> QED
    BY <2>1
<1>6. CASE OnDrained
  <2>1. UNCHANGED <<state, failed, clock>> /\ (drained => drained')
    BY <1>6 DEF OnDrained
  <2> QED
    BY <2>1
<1>7. CASE Play
  BY <1>7 DEF Play, drain
<1>8. CASE Tick
  <2>1. /\ UNCHANGED <<state, failed, drained>> /\ failed = "no"
        /\ clock'.process = Older(clock.process)
        /\ clock'.silent = IF state = "PLAYING" /\ ~drained THEN Older(clock.silent) ELSE 0
    BY <1>8 DEF Tick, drain
  <2>2. clock.process <= clock.silent => Older(clock.process) <= Older(clock.silent)
    BY Constants DEF Older
  <2> QED
    BY <2>1, <2>2
<1>9. CASE FoundStalled
  <2>1. UNCHANGED <<state, drained, clock>> /\ state = "PLAYING" /\ ~drained
        /\ clock.process > Timeout
    BY <1>9 DEF FoundStalled, Stalled, drain
  <2> QED
    BY <2>1, Constants
<1>10. CASE Start
  <2>1. Activate("start", 0) /\ failed = "no"
    BY <1>10, Constants DEF Start
  <2>2. clock'.process = 0 /\ clock' \in ClockType /\ failed' # "stalled"
    BY <2>1, Activated
  <2> QED
    BY <2>2
<1>11. CASE Resume
  <2>1. Activate("resume", 0) /\ failed = "no"
    BY <1>11, Constants DEF Resume
  <2>2. clock'.process = 0 /\ clock' \in ClockType /\ failed' # "stalled"
    BY <2>1, Activated
  <2> QED
    BY <2>2
<1>12. CASE Pause
  <2>1. UNCHANGED <<drained, clock>> /\ state' \in {state, "PAUSED"} /\ failed' # "stalled"
    BY <1>12 DEF Pause, Fail, drain
  <2> QED
    BY <2>1
<1>13. CASE Stop
  <2>1. UNCHANGED clock /\ state' = "STOPPED" /\ (failed' = "stalled" => failed = "stalled")
    BY <1>13 DEF Stop, Fail
  <2> QED
    BY <2>1
<1>14. ASSUME NEW n \in 1 .. MaxWrite, Write(n)
       PROVE  SilentAge'
  BY <1>14 DEF Write, drain
<1>15. ASSUME NEW n \in 1 .. MaxWrite, WriteAnew(n)
       PROVE  SilentAge'
  <2>1. Activate("write", n) /\ n \in Nat /\ failed = "no"
    BY <1>15, Constants DEF WriteAnew, Writable, Healthy
  <2>2. clock'.process = 0 /\ clock' \in ClockType /\ failed' # "stalled"
    BY <2>1, Activated
  <2> QED
    BY <2>2
<1>16. CASE Drain
  <2>1. UNCHANGED <<state, drained, clock>> /\ failed' # "stalled"
    BY <1>16 DEF Drain, Fail, Healthy
  <2> QED
    BY <2>1
<1>17. CASE Ready
  BY <1>17 DEF Ready, drain
<1>18. CASE NotReady
  <2>1. UNCHANGED <<state, drained, clock>> /\ (failed' = "stalled" => failed = "stalled")
    BY <1>18 DEF NotReady, Fail, drain
  <2> QED
    BY <2>1
<1>19. CASE Close
  BY <1>19 DEF Close, drain
<1>20. CASE UNCHANGED vars
  BY <1>20 DEF vars, drain
<1> QED
  BY <1>1, <1>2, <1>3, <1>4, <1>5, <1>6, <1>7, <1>8, <1>9, <1>10, <1>11, <1>12, <1>13,
     <1>14, <1>15, <1>16, <1>17, <1>18, <1>19, <1>20
     DEF Next, GraphStep, Waiting, OwnerCall

(* What pipewire_output.c keeps, for every queue, graph and number of faults. *)
THEOREM PipeInvariant == Spec => []PipeInv
<1>1. Init => PipeInv
  <2> SUFFICES ASSUME Init PROVE PipeInv
    OBVIOUS
  <2>1. clock \in ClockType /\ clock.process = Timeout + 1 /\ own \in OwnType
        /\ stream \in StreamType
    BY Constants DEF Init, ClockType, OwnType, StreamType
  <2>2. Types
    BY <2>1 DEF Init, Types
  <2>3. Held
    BY Constants DEF Init, Held, Slots, Slot
  <2>4. Drains
    BY DEF Init, Drains
  <2>5. SilentAge
    BY DEF Init, SilentAge, StallIsReal
  <2> QED
    BY <2>2, <2>3, <2>4, <2>5 DEF PipeInv
<1>2. PipeInv /\ [Next]_vars => PipeInv'
  BY TypesStep, HeldStep, DrainsStep, SilentAgeStep DEF PipeInv
<1> QED
  BY <1>1, <1>2, PTL DEF Spec

(* The types and bounds of all variables; in particular the queue never holds
   more than its capacity. *)
THEOREM PipeTypes == Spec => []TypeOK
<1>1. PipeInv => TypeOK
  <2> SUFFICES ASSUME PipeInv PROVE TypeOK
    OBVIOUS
  <2>1. stream.queued \in 0 .. MaxFrames
    BY Constants DEF PipeInv, Types, StreamType, Drains, Held
  <2> QED
    BY <2>1 DEF PipeInv, Types, Held, OwnType, TypeOK
<1> QED
  BY <1>1, PipeInvariant, PTL

(* drain answers 1 only when every frame written has left the queue and was
   played, segment after segment (lines 137-149, 450-475, 512-522). *)
THEOREM DrainIsHonest == Spec => []DrainedMeansPlayed
<1>1. PipeInv => DrainedMeansPlayed
  BY DEF PipeInv, Drains, Held, DrainedMeansPlayed
<1> QED
  BY <1>1, PipeInvariant, PTL

(* The graph is declared stalled only after a silence longer than the timeout
   while we played (lines 77-84, 396-403). *)
THEOREM StallsAreReal == Spec => []StallIsReal
<1>1. PipeInv => StallIsReal
  BY DEF PipeInv, SilentAge
<1> QED
  BY <1>1, PipeInvariant, PTL

(* The stream is given what was written, each frame once and in order, across
   the end of the queue, pauses, drains and the segments after them. *)
THEOREM PipeImplementsFifo == Spec => ImplementsFifo
<1>1. Init => Abstract!Init
  BY DEF Init, Abstract!Init
<1>2. PipeInv /\ [Next]_vars => [Abstract!Next]_(Abstract!fifoVars)
  BY HeldStep
<1> QED
  BY <1>1, <1>2, PipeInvariant, PTL DEF Spec, ImplementsFifo, Abstract!Spec
=============================================================================
