------------------------ MODULE PulseaudioOutputProofs ------------------------
(***************************************************************************)
(* Proofs about PulseaudioOutput, for every length of the queue, timeout,  *)
(* write size and number of faults.                                        *)
(*                                                                         *)
(* PulseInv is inductive.  Beside the types it says when the server's      *)
(* queue is empty (Emptied), what the server has done of the operation the *)
(* owner waits for (Asked), and how the ages the code compares relate to   *)
(* those of the history (time spent paused is not counted: DrainAge; the   *)
(* watchdog misses no progress but that of which no news came:             *)
(* ProgressAge).                                                           *)
(***************************************************************************)
EXTENDS PulseaudioOutput, TLAPS

OwnType == [pc     : {"idle", "wait", "closed"},
            op     : {"none", "create", "start", "resume", "pause", "stop"},
            step   : {"none", "context", "stream", "cork", "uncork", "flush"},
            waited : Nat]

ServerType == [corked : BOOLEAN, queued : 0 .. TargetLength, room : 0 .. TargetLength,
               control : {"none", "sent", "applied", "done"}, faults : Nat]

TimingType == [known : BOOLEAN, shown : BOOLEAN, newer : BOOLEAN]

ClockType == [progress : Nat, pause : Nat, drain : Int, drained_for : Nat, silent : Nat]

Types ==
    /\ state \in {"STOPPED", "PLAYING", "PAUSED"}
    /\ failed \in {"no", "error", "late", "stalled", "timeout"}
    /\ operation_result \in {-1, 0, 1} /\ drain_result \in {-1, 0, 1}
    /\ has_data \in BOOLEAN /\ timing \in TimingType
    /\ drain_op \in {"none", "running", "done"}
    /\ own \in OwnType /\ server \in ServerType /\ clock \in ClockType

(* The server asks for no more than its queue has room for. *)
Fits == server.queued + server.room <= TargetLength

(* The server did what it was asked for. *)
Applied ==
    \/ server.control = "applied"
    \/ server.control = "done" /\ operation_result = 1

(* Nothing is queued after an acknowledged drain, before the first write and
   while we are stopped, nor once a flush was carried out. *)
Emptied ==
    /\ drain_result = 1 => server.queued = 0
    /\ failed = "no" /\ ~has_data => server.queued = 0
    /\ failed = "no" /\ state = "STOPPED" => server.queued = 0
    /\ own.pc = "wait" /\ own.step = "flush" /\ Applied => server.queued = 0

(* What is asked of the server fits the state we are in, and it is corked as
   we believe, or as we asked. *)
Asked ==
    /\ own.pc = "idle" => own.step = "none"
    /\ failed = "no" /\ own.pc = "idle" => (server.corked <=> state # "PLAYING")
    /\ failed = "no" /\ own.pc = "wait" =>
          \/ /\ own.op = "create" /\ own.step \in {"context", "stream"}
             /\ state = "STOPPED" /\ server.corked
          \/ /\ own.op \in {"start", "resume"} /\ own.step = "uncork" /\ state # "PLAYING"
             /\ Applied => ~server.corked
          \/ /\ own.op = "pause" /\ own.step = "cork" /\ state = "PLAYING"
             /\ Applied => server.corked
          \/ /\ own.op = "stop" /\ own.step = "cork"
             /\ Applied => server.corked
          \/ own.op = "stop" /\ own.step = "flush" /\ server.corked
    /\ failed = "no" /\ own.pc = "wait" /\ own.op = "stop" => drain_op = "none"

(* A drain is never older than the time it had to play, once the pauses are
   taken off it. *)
DrainAge ==
    /\ drain_op # "none" => state # "STOPPED"
    /\ drain_op # "none" /\ state = "PLAYING" => clock.drain <= clock.drained_for
    /\ drain_op # "none" /\ state = "PAUSED" =>
          clock.drain - clock.pause <= clock.drained_for
    /\ LateIsReal

(* As long as no progress is waiting to be seen, here or at the server, none
   was made since the last one that was. *)
ProgressAge ==
    state = "PLAYING" /\ ~timing.shown /\ ~timing.newer /\ (drain_op # "none" \/ server.room = 0)
        => clock.progress <= clock.silent

PulseInv == Types /\ Fits /\ Emptied /\ Asked /\ DrainAge /\ ProgressAge

(* A new drain keeps the types of the clock. *)
LEMMA DrainClock ==
    ASSUME NEW c \in ClockType, NEW p \in Nat, NEW d \in Int, NEW f \in Nat
    PROVE  [c EXCEPT !.progress = p, !.drain = d, !.drained_for = f] \in ClockType
BY DEF ClockType

(* Every step keeps the type of the timing. *)
LEMMA TimingStep ==
    ASSUME timing \in TimingType, [Next]_vars
    PROVE  timing' \in TimingType
<1> USE DEF TimingType
<1>1. CASE UNCHANGED timing
  BY <1>1
<1>2. CASE Play \/ IndexMoves
  BY <1>2 DEF Play, IndexMoves
<1>3. CASE TimingReply
  <2>1. (timing.shown \/ timing.newer) \in BOOLEAN
    OBVIOUS
  <2> QED
    BY <1>3, <2>1 DEF TimingReply
<1>10. CASE TimingLost
  BY <1>10 DEF TimingLost
<1>4. CASE IndexRead
  BY <1>4 DEF IndexRead
<1>5. CASE Query \/ Pause \/ DrainCall
  BY <1>4, <1>5 DEF Query, Pause, DrainCall
<1>6. CASE \E n \in 1 .. MaxWrite : Write(n)
  BY <1>4, <1>6 DEF Write
<1>7. CASE ServerStep \/ Tick
  BY <1>1, <1>2, <1>3, <1>7, <1>10
     DEF ServerStep, Apply, OperationDone, Lost, Request, DrainDone, Tick
<1>8. CASE Waiting
  BY <1>1, <1>8 DEF Waiting, Acknowledged, WaitFails
<1>9. CASE Unhealthy \/ DrainFailed \/ Start \/ Resume \/ Stop \/ Close
  BY <1>1, <1>9 DEF Unhealthy, DrainFailed, Start, Resume, Stop, Close
<1> QED
  BY <1>1, <1>5, <1>6, <1>7, <1>8, <1>9 DEF Next, OwnerCall, Poll, vars

(* What the server holds and what it asked for change only when it plays,
   flushes or asks, and when it is written to. *)
LEMMA FitsStep ==
    ASSUME Types, Fits, [Next]_vars
    PROVE  Fits'
<1> USE DEF Types, ServerType, Fits
<1>1. CASE UNCHANGED <<server.queued, server.room>>
  BY <1>1
<1>2. CASE Apply
  BY <1>2, PulseaudioAssumption DEF Apply
<1>3. CASE Play
  BY <1>3, PulseaudioAssumption DEF Play
<1>4. CASE Request
  BY <1>4, PulseaudioAssumption DEF Request
<1>5. ASSUME NEW n \in 1 .. MaxWrite, Write(n)
      PROVE  Fits'
  <2>1. PICK k \in 0 .. server.room :
           \/ server'.queued = server.queued + k /\ server'.room = server.room - k
           \/ UNCHANGED <<server.queued, server.room>>
    <3>1. Smaller(n, server.room) \in 0 .. server.room
      BY <1>5, PulseaudioAssumption DEF Smaller
    <3> QED
      BY <1>5, <3>1 DEF Write, Writable, Fault
  <2>2. server.queued \in Nat /\ server.room \in Nat /\ TargetLength \in Nat
    BY PulseaudioAssumption
  <2> QED
    BY <2>1, <2>2
<1>6. CASE ServerStep \/ Tick
  BY <1>1, <1>2, <1>3, <1>4, <1>6
     DEF ServerStep, OperationDone, Lost, IndexMoves, TimingReply, TimingLost, DrainDone, Tick,
         Fault
<1>7. CASE Waiting
  BY <1>1, <1>7 DEF Waiting, Acknowledged, WaitFails, Send, Fault
<1>8. CASE Poll \/ DrainCall \/ Close
  BY <1>1, <1>8 DEF Poll, Unhealthy, Query, DrainFailed, DrainCall, Close, Fault
<1>9. CASE Start \/ Resume \/ Pause \/ Stop
  BY <1>1, <1>9 DEF Start, Resume, Pause, Stop, Send, Fault
<1> QED
  BY <1>1, <1>5, <1>6, <1>7, <1>8, <1>9 DEF Next, OwnerCall, vars

(* Every step keeps the other types. *)
LEMMA TypesStep ==
    ASSUME Types, Fits, [Next]_vars
    PROVE  Types'
<1>0. timing' \in TimingType
  BY TimingStep DEF Types
<1> USE <1>0 DEF Types, Fits, OwnType, ServerType, ClockType, answers
<1>1. CASE Apply
  <2>1. (IF own.step = "flush" THEN 0 ELSE server.queued) \in 0 .. TargetLength
    BY PulseaudioAssumption
  <2>2. server' = [server EXCEPT
                      !.control = "applied",
                      !.corked = IF own.step \in {"cork", "uncork"} THEN own.step = "cork"
                                 ELSE server.corked,
                      !.queued = IF own.step = "flush" THEN 0 ELSE server.queued]
    BY <1>1 DEF Apply
  <2>3. (IF own.step \in {"cork", "uncork"} THEN own.step = "cork" ELSE server.corked) \in BOOLEAN
    OBVIOUS
  <2>4. server' \in ServerType
    BY <2>1, <2>2, <2>3
  <2> QED
    BY <1>1, <2>4 DEF Apply
<1>2. ASSUME NEW success \in BOOLEAN, OperationDone(success)
      PROVE  Types'
  <2>1. server' \in ServerType
    <3>1. server' = [server EXCEPT !.control = "done",
                                   !.faults = IF success THEN server.faults
                                              ELSE server.faults + 1]
      BY <1>2 DEF OperationDone
    <3>2. (IF success THEN server.faults ELSE server.faults + 1) \in Nat
      OBVIOUS
    <3> QED
      BY <3>1, <3>2
  <2> QED
    BY <1>2, <2>1 DEF OperationDone
<1>3. CASE Lost
  BY <1>3 DEF Lost, Fail, Fault
<1>4. CASE Play
  <2>1. server.queued - 1 \in 0 .. TargetLength
    BY <1>4, PulseaudioAssumption DEF Play
  <2>2. server' \in ServerType
    BY <1>4, <2>1 DEF Play
  <2>3. own' \in OwnType
    BY <1>4, <2>1 DEF Play
  <2>4. clock' \in ClockType
    BY <1>4, <2>1 DEF Play
  <2> QED
    BY <1>4, <2>2, <2>3, <2>4 DEF Play
<1>5. CASE IndexMoves
  BY <1>5 DEF IndexMoves
<1>6. CASE DrainDone
  BY <1>6 DEF DrainDone, Fault
<1>7. CASE Tick
  BY <1>7 DEF Tick, Older
<1>8. CASE Acknowledged
  <2>1. clock' \in ClockType
    <3>1. Resumed \in ClockType
      <4>1. clock.drain - clock.pause \in Int
        OBVIOUS
      <4> QED
        BY <4>1 DEF Resumed
    <3>2. [clock EXCEPT !.pause = 0] \in ClockType
      OBVIOUS
    <3>3. clock' \in {clock, Resumed, [clock EXCEPT !.pause = 0]}
      BY <1>8 DEF Acknowledged
    <3> QED
      BY <3>1, <3>2, <3>3
  <2>2. server' \in ServerType
    BY <1>8 DEF Acknowledged, Send, Fault
  <2>3. own' \in OwnType
    BY <1>8 DEF Acknowledged, Send, Wait, Idle
  <2>4. failed' \in {"no", "error", "late", "stalled", "timeout"}
    BY <1>8 DEF Acknowledged, Send, Fail
  <2>5. operation_result' \in {-1, 0, 1} /\ drain_result' \in {-1, 0, 1}
    BY <1>8 DEF Acknowledged, Send, Stopped
  <2>6. state' \in {"STOPPED", "PLAYING", "PAUSED"} /\ has_data' \in BOOLEAN
    BY <1>8 DEF Acknowledged, Stopped
  <2>7. drain_op' \in {"none", "running", "done"}
    BY <1>8 DEF Acknowledged
  <2> QED
    BY <2>1, <2>2, <2>3, <2>4, <2>5, <2>6, <2>7
<1>9. CASE WaitFails
  <2>1. own' \in OwnType
    <3>1. CASE own.op = "create"
      <4>1. own' = [own EXCEPT !.pc = "closed", !.step = "none"]
        BY <1>9, <3>1 DEF WaitFails
      <4> QED
        BY <4>1
    <3>2. CASE own.op # "create"
      BY <1>9, <3>2 DEF WaitFails, Idle
    <3> QED
      BY <3>1, <3>2
  <2>2. server' \in ServerType
    BY <1>9 DEF WaitFails
  <2> QED
    BY <1>9, <2>1, <2>2 DEF WaitFails, Fail
<1>10. CASE Unhealthy
  BY <1>10 DEF Unhealthy, Fail, Fault, Owner
<1>11. CASE Query
  BY <1>11 DEF Query, Progress, IndexRead, Visible, Owner, Healthy
<1>12. CASE DrainFailed
  BY <1>12 DEF DrainFailed, Fail, Owner, Healthy
<1>13. CASE Start
  BY <1>13 DEF Start, Send, Wait, Idle, Fail, Fault, Owner, Healthy
<1>14. CASE Resume
  BY <1>14 DEF Resume, Send, Wait, Idle, Fail, Fault, Owner
<1>15. CASE Pause
  BY <1>15 DEF Pause, Send, Wait, Idle, Fail, Fault, Owner, Healthy, Progress, IndexRead, Visible
<1>16. CASE Stop
  <2>1. server' \in ServerType
    BY <1>16 DEF Stop, Send, Fault
  <2>2. own' \in OwnType
    BY <1>16 DEF Stop, Send, Wait, Idle
  <2>3. failed' \in {"no", "error", "late", "stalled", "timeout"}
    BY <1>16 DEF Stop, Send, Fail
  <2>4. operation_result' \in {-1, 0, 1} /\ drain_result' \in {-1, 0, 1}
    BY <1>16 DEF Stop, Send, Stopped
  <2>5. state' \in {"STOPPED", "PLAYING", "PAUSED"} /\ has_data' \in BOOLEAN
    BY <1>16 DEF Stop, Stopped
  <2>6. clock' \in ClockType /\ drain_op' \in {"none", "running", "done"}
    BY <1>16 DEF Stop
  <2> QED
    BY <2>1, <2>2, <2>3, <2>4, <2>5, <2>6
<1>17. ASSUME NEW n \in 1 .. MaxWrite, Write(n)
      PROVE  Types'
  <2>1. /\ server.queued + Smaller(n, Writable) \in 0 .. TargetLength
        /\ server.room - Smaller(n, Writable) \in 0 .. TargetLength
    BY <1>17, PulseaudioAssumption DEF Write, Smaller, Writable
  <2>2. server' \in ServerType
    <3>1. CASE server' = [server EXCEPT !.queued = server.queued + Smaller(n, Writable),
                                        !.room = server.room - Smaller(n, Writable)]
      BY <2>1, <3>1
    <3>2. CASE server' = [server EXCEPT !.faults = server.faults + 1]
      BY <3>2
    <3> QED
      BY <1>17, <3>1, <3>2 DEF Write, Fault
  <2>3. own' \in OwnType
    BY <1>17, <2>1
       DEF Write, Fail, Fault, Owner, Healthy, Progress, IndexRead, Visible, AnswerForgotten
  <2>4. clock' \in ClockType
    BY <1>17, <2>1
       DEF Write, Fail, Fault, Owner, Healthy, Progress, IndexRead, Visible, AnswerForgotten
  <2> QED
    BY <1>17, <2>2, <2>3, <2>4
       DEF Write, Fail, Fault, Owner, Healthy, Progress, IndexRead, Visible, AnswerForgotten
<1>18. CASE DrainCall
  <2>1. clock' \in ClockType
    <3>1. clock' = [clock EXCEPT !.progress = 0, !.drain = 0, !.drained_for = 0]
      BY <1>18 DEF DrainCall
    <3>2. clock \in ClockType /\ 0 \in Nat /\ 0 \in Int
      OBVIOUS
    <3>3. [clock EXCEPT !.progress = 0, !.drain = 0, !.drained_for = 0] \in ClockType
      BY <3>2, DrainClock
    <3> QED
      BY <3>1, <3>3
  <2>2. server' \in ServerType
    BY <1>18 DEF DrainCall, Fault
  <2> QED
    BY <1>18, <2>1, <2>2 DEF DrainCall, Fail, IndexRead, Visible
<1>19. CASE Close
  BY <1>19 DEF Close, Owner
<1>20. CASE UNCHANGED vars
  BY <1>20 DEF vars, answers
<1>21. CASE TimingReply
  BY <1>21 DEF TimingReply
<1>22. CASE TimingLost
  BY <1>22 DEF TimingLost
<1>23. CASE Request
  BY <1>23, PulseaudioAssumption DEF Request
<1> QED
  BY <1>1, <1>2, <1>3, <1>4, <1>5, <1>6, <1>7, <1>8, <1>9, <1>10, <1>11, <1>12, <1>13,
     <1>14, <1>15, <1>16, <1>17, <1>18, <1>19, <1>20, <1>21, <1>22, <1>23
     DEF Next, ServerStep, Waiting, OwnerCall, Poll

(* Every step keeps Emptied. *)
LEMMA EmptiedStep ==
    ASSUME PulseInv, [Next]_vars
    PROVE  Emptied'
<1> USE DEF PulseInv, Types, OwnType, ServerType, TimingType, Emptied, Applied, answers
<1>1. CASE Apply
  BY <1>1 DEF Apply
<1>2. ASSUME NEW success \in BOOLEAN, OperationDone(success)
      PROVE  Emptied'
  BY <1>2 DEF OperationDone
<1>3. CASE Lost
  BY <1>3 DEF Lost, Fail, Fault
<1>4. CASE Play
  BY <1>4 DEF Play
<1>5. CASE IndexMoves
  BY <1>5 DEF IndexMoves
<1>6. CASE DrainDone
  BY <1>6 DEF DrainDone, Fault
<1>7. CASE Tick
  BY <1>7 DEF Tick, Older
<1>8. CASE Acknowledged
  <2>1. own.pc = "wait" /\ failed = "no" /\ server.control = "done" /\ operation_result = 1
    BY <1>8 DEF Acknowledged, AckSeen
  <2>2. server'.queued = server.queued
    BY <1>8 DEF Acknowledged, Send, Fault
  <2>3. own'.step = "flush" => ~Applied' \/ own'.pc # "wait"
    BY <1>8, <2>1 DEF Acknowledged, Send, Wait, Idle
  <2>4. own.step \in {"context", "stream", "uncork"} \/ own.op = "pause" =>
           UNCHANGED drain_result /\ UNCHANGED has_data
           /\ (state' = "STOPPED" => state = "STOPPED")
    BY <1>8, <2>1 DEF Acknowledged, Asked, FlushNext
  <2>5. own.op = "stop" /\ own.step = "cork" =>
           UNCHANGED drain_result /\ UNCHANGED has_data /\ UNCHANGED state
    BY <1>8, <2>1 DEF Acknowledged, FlushNext
  <2>6. own.op = "stop" /\ own.step = "flush" => server.queued = 0
    BY <2>1
  <2> QED
    BY <2>1, <2>2, <2>3, <2>4, <2>5, <2>6 DEF Asked
<1>9. CASE WaitFails
  BY <1>9 DEF WaitFails, Fail, Idle
<1>10. CASE Unhealthy
  BY <1>10 DEF Unhealthy, Fail, Fault, Owner
<1>11. CASE Query
  BY <1>11 DEF Query, Progress, IndexRead, Visible, Owner, Healthy
<1>12. CASE DrainFailed
  BY <1>12 DEF DrainFailed, Fail, Owner, Healthy
<1>13. CASE Start
  BY <1>13 DEF Start, Send, Wait, Idle, Fail, Fault, Owner, Healthy
<1>14. CASE Resume
  BY <1>14 DEF Resume, Send, Wait, Idle, Fail, Fault, Owner
<1>15. CASE Pause
  BY <1>15 DEF Pause, Send, Wait, Idle, Fail, Fault, Owner, Healthy, Progress, IndexRead, Visible
<1>16. CASE Stop
  BY <1>16 DEF Stop, Send, Wait, Idle, Fail, Fault, Owner, Stopped
<1>17. ASSUME NEW n \in 1 .. MaxWrite, Write(n)
      PROVE  Emptied'
  BY <1>17
     DEF Write, Smaller, Fail, Fault, Owner, Healthy, Writable, Progress, IndexRead, Visible,
         AnswerForgotten
<1>18. CASE DrainCall
  BY <1>18 DEF DrainCall, Fail, Fault, Owner, Healthy, IndexRead, Visible
<1>19. CASE Close
  BY <1>19 DEF Close, Owner
<1>20. CASE UNCHANGED vars
  BY <1>20 DEF vars, answers
<1>21. CASE TimingReply
  BY <1>21 DEF TimingReply
<1>22. CASE TimingLost
  BY <1>22 DEF TimingLost
<1>23. CASE Request
  BY <1>23, PulseaudioAssumption DEF Request
<1> QED
  BY <1>1, <1>2, <1>3, <1>4, <1>5, <1>6, <1>7, <1>8, <1>9, <1>10, <1>11, <1>12, <1>13,
     <1>14, <1>15, <1>16, <1>17, <1>18, <1>19, <1>20, <1>21, <1>22, <1>23
     DEF Next, ServerStep, Waiting, OwnerCall, Poll

(* Every step keeps Asked. *)
LEMMA AskedStep ==
    ASSUME PulseInv, [Next]_vars
    PROVE  Asked'
<1> USE DEF PulseInv, Types, OwnType, ServerType, TimingType, Asked, Applied, answers
<1>1. CASE Apply
  <2>1. CASE failed = "no" /\ own.pc = "wait"
    <3>1. own' = own /\ state' = state /\ failed' = failed /\ drain_op' = drain_op
      BY <1>1 DEF Apply
    <3>2. server'.corked = IF own.step \in {"cork", "uncork"} THEN own.step = "cork"
                           ELSE server.corked
      BY <1>1 DEF Apply
    <3> QED
      BY <2>1, <3>1, <3>2
  <2>2. CASE failed = "no" /\ own.pc = "idle"
    BY <1>1, <2>2 DEF Apply
  <2> QED
    BY <1>1, <2>1, <2>2 DEF Apply
<1>2. ASSUME NEW success \in BOOLEAN, OperationDone(success)
      PROVE  Asked'
  BY <1>2 DEF OperationDone
<1>3. CASE Lost
  BY <1>3 DEF Lost, Fail, Fault
<1>4. CASE Play
  BY <1>4 DEF Play
<1>5. CASE IndexMoves
  BY <1>5 DEF IndexMoves
<1>6. CASE DrainDone
  BY <1>6 DEF DrainDone, Fault
<1>7. CASE Tick
  BY <1>7 DEF Tick, Older
<1>8. CASE Acknowledged
  <2>1. CASE own.step \in {"context", "stream"}
    BY <1>8, <2>1
       DEF Acknowledged, AckSeen, Send, Wait, Idle, Fail, Fault, Resumed, Stopped,
           FlushNext
  <2>2. CASE own.step = "uncork"
    BY <1>8, <2>2
       DEF Acknowledged, AckSeen, Send, Wait, Idle, Fail, Fault, Resumed, Stopped,
           FlushNext
  <2>3. CASE own.step = "cork"
    BY <1>8, <2>3
       DEF Acknowledged, AckSeen, Send, Wait, Idle, Fail, Fault, Resumed, Stopped,
           FlushNext
  <2>4. CASE own.step = "flush"
    BY <1>8, <2>4
       DEF Acknowledged, AckSeen, Send, Wait, Idle, Fail, Fault, Resumed, Stopped,
           FlushNext
  <2> QED
    BY <1>8, <2>1, <2>2, <2>3, <2>4 DEF Acknowledged
<1>9. CASE WaitFails
  <2>1. failed' # "no"
    BY <1>9 DEF WaitFails, Fail
  <2>3. own'.pc = "idle" => own'.step = "none"
    <3>1. CASE own.op = "create"
      <4>1. own' = [own EXCEPT !.pc = "closed", !.step = "none"]
        BY <1>9, <3>1 DEF WaitFails
      <4> QED
        BY <4>1
    <3>2. CASE own.op # "create"
      BY <1>9, <3>2 DEF WaitFails, Idle
    <3> QED
      BY <3>1, <3>2
  <2> QED
    BY <2>1, <2>3
<1>10. CASE Unhealthy
  BY <1>10 DEF Unhealthy, Fail, Fault, Owner
<1>11. CASE Query
  BY <1>11 DEF Query, Progress, IndexRead, Visible, Owner, Healthy
<1>12. CASE DrainFailed
  BY <1>12 DEF DrainFailed, Fail, Owner, Healthy
<1>13. CASE Start
  BY <1>13 DEF Start, Send, Wait, Idle, Fail, Fault, Owner, Healthy
<1>14. CASE Resume
  BY <1>14 DEF Resume, Send, Wait, Idle, Fail, Fault, Owner
<1>15. CASE Pause
  BY <1>15 DEF Pause, Send, Wait, Idle, Fail, Fault, Owner, Healthy, Progress, IndexRead, Visible
<1>16. CASE Stop
  BY <1>16 DEF Stop, Send, Wait, Idle, Fail, Fault, Owner, Stopped
<1>17. ASSUME NEW n \in 1 .. MaxWrite, Write(n)
      PROVE  Asked'
  BY <1>17
     DEF Write, Smaller, Fail, Fault, Owner, Healthy, Writable, Progress, IndexRead, Visible,
         AnswerForgotten
<1>18. CASE DrainCall
  BY <1>18 DEF DrainCall, Fail, Fault, Owner, Healthy, IndexRead, Visible
<1>19. CASE Close
  BY <1>19 DEF Close, Owner
<1>20. CASE UNCHANGED vars
  BY <1>20 DEF vars, answers
<1>21. CASE TimingReply
  BY <1>21 DEF TimingReply
<1>22. CASE TimingLost
  BY <1>22 DEF TimingLost
<1>23. CASE Request
  BY <1>23, PulseaudioAssumption DEF Request
<1> QED
  BY <1>1, <1>2, <1>3, <1>4, <1>5, <1>6, <1>7, <1>8, <1>9, <1>10, <1>11, <1>12, <1>13,
     <1>14, <1>15, <1>16, <1>17, <1>18, <1>19, <1>20, <1>21, <1>22, <1>23
     DEF Next, ServerStep, Waiting, OwnerCall, Poll

(* Every step keeps DrainAge. *)
LEMMA DrainAgeStep ==
    ASSUME PulseInv, [Next]_vars
    PROVE  DrainAge'
<1> USE DEF PulseInv, Types, OwnType, ClockType, DrainAge, LateIsReal, answers
<1>1. CASE Apply
  BY <1>1 DEF Apply
<1>2. ASSUME NEW success \in BOOLEAN, OperationDone(success)
      PROVE  DrainAge'
  BY <1>2 DEF OperationDone
<1>3. CASE Lost
  BY <1>3 DEF Lost, Fail, Fault
<1>4. CASE Play
  BY <1>4 DEF Play
<1>5. CASE IndexMoves
  BY <1>5 DEF IndexMoves
<1>6. CASE DrainDone
  BY <1>6 DEF DrainDone, Fault
<1>7. CASE Tick
  BY <1>7 DEF Tick, Older
<1>8. CASE Acknowledged
  <2>1. failed = "no" /\ own.pc = "wait" /\ failed' # "late" /\ drain_op' = drain_op
    BY <1>8 DEF Acknowledged, Send, Fail
  <2>2. CASE own.step \in {"context", "stream", "flush"}
    <3>1. clock' = clock /\ (state' = state \/ own.op = "stop")
      BY <1>8, <2>2 DEF Acknowledged, FlushNext, Asked
    <3> QED
      BY <2>1, <3>1 DEF Asked
  <2>3. CASE own.step = "uncork"
    <3>1. state # "PLAYING" /\ state' = "PLAYING" /\ clock' = Resumed
      BY <1>8, <2>1, <2>3 DEF Acknowledged, FlushNext, Asked
    <3>2. clock'.drained_for = clock.drained_for
      BY <3>1 DEF Resumed
    <3>3. drain_op # "none" => clock'.drain = clock.drain - clock.pause
      BY <3>1 DEF Resumed
    <3> QED
      BY <2>1, <3>1, <3>2, <3>3
  <2>4. CASE own.step = "cork" /\ own.op = "pause"
    <3>1. state = "PLAYING" /\ state' = "PAUSED" /\ clock' = [clock EXCEPT !.pause = 0]
      BY <1>8, <2>1, <2>4 DEF Acknowledged, FlushNext, Asked
    <3>2. clock'.drained_for = clock.drained_for /\ clock'.drain = clock.drain /\ clock'.pause = 0
      BY <3>1
    <3> QED
      BY <2>1, <3>1, <3>2
  <2>5. CASE own.step = "cork" /\ own.op = "stop"
    BY <2>1, <2>5, <1>8 DEF Acknowledged, FlushNext, Asked
  <2> QED
    BY <2>1, <2>2, <2>3, <2>4, <2>5 DEF Asked
<1>9. CASE WaitFails
  BY <1>9 DEF WaitFails, Fail, Idle
<1>10. CASE Unhealthy
  <2>1. /\ state' = state /\ drain_op' = drain_op /\ clock' = clock /\ failed # "late"
        /\ failed' = "late" => DrainLate /\ state = "PLAYING"
    BY <1>10 DEF Unhealthy, Fail, Watched
  <2>2. DrainLate /\ state = "PLAYING" => clock.drained_for > Budget
    <3>1. Budget \in Nat
      BY PulseaudioAssumption DEF Budget
    <3> QED
      BY <3>1 DEF DrainLate
  <2> QED
    BY <2>1, <2>2
<1>11. CASE Query
  BY <1>11 DEF Query, Progress, IndexRead, Visible, Owner, Healthy
<1>12. CASE DrainFailed
  BY <1>12 DEF DrainFailed, Fail, Owner, Healthy
<1>13. CASE Start
  BY <1>13 DEF Start, Send, Wait, Idle, Fail, Fault, Owner, Healthy
<1>14. CASE Resume
  BY <1>14 DEF Resume, Send, Wait, Idle, Fail, Fault, Owner
<1>15. CASE Pause
  BY <1>15 DEF Pause, Send, Wait, Idle, Fail, Fault, Owner, Healthy, Progress, IndexRead, Visible
<1>16. CASE Stop
  BY <1>16 DEF Stop, Send, Wait, Idle, Fail, Fault, Owner, Stopped
<1>17. ASSUME NEW n \in 1 .. MaxWrite, Write(n)
      PROVE  DrainAge'
  BY <1>17
     DEF Write, Smaller, Fail, Fault, Owner, Healthy, Writable, Progress, IndexRead, Visible,
         AnswerForgotten
<1>18. CASE DrainCall
  BY <1>18 DEF DrainCall, Fail, Fault, Owner, Healthy, IndexRead, Visible
<1>19. CASE Close
  BY <1>19 DEF Close, Owner
<1>20. CASE UNCHANGED vars
  BY <1>20 DEF vars, answers
<1>21. CASE TimingReply
  BY <1>21 DEF TimingReply
<1>22. CASE TimingLost
  BY <1>22 DEF TimingLost
<1>23. CASE Request
  BY <1>23, PulseaudioAssumption DEF Request
<1> QED
  BY <1>1, <1>2, <1>3, <1>4, <1>5, <1>6, <1>7, <1>8, <1>9, <1>10, <1>11, <1>12, <1>13,
     <1>14, <1>15, <1>16, <1>17, <1>18, <1>19, <1>20, <1>21, <1>22, <1>23
     DEF Next, ServerStep, Waiting, OwnerCall, Poll

(* Every step keeps ProgressAge. *)
LEMMA ProgressAgeStep ==
    ASSUME PulseInv, [Next]_vars
    PROVE  ProgressAge'
<1> USE DEF PulseInv, Types, OwnType, ServerType, TimingType, ClockType, ProgressAge, answers
<1>1. CASE Apply
  BY <1>1 DEF Apply
<1>2. ASSUME NEW success \in BOOLEAN, OperationDone(success)
      PROVE  ProgressAge'
  BY <1>2 DEF OperationDone
<1>3. CASE Lost
  BY <1>3 DEF Lost, Fail, Fault
<1>4. CASE Play
  BY <1>4 DEF Play
<1>5. CASE IndexMoves
  BY <1>5 DEF IndexMoves
<1>6. CASE DrainDone
  BY <1>6 DEF DrainDone, Fault
<1>7. CASE Tick
  BY <1>7 DEF Tick, Older
<1>8. CASE Acknowledged
  <2>1. own.pc = "wait" /\ failed = "no" /\ UNCHANGED <<drain_op, timing>>
    BY <1>8 DEF Acknowledged
  <2>2. server'.room = server.room
    BY <1>8 DEF Acknowledged, Send, Fault
  <2>3. CASE clock' = Resumed
    <3>1. clock'.progress = 0 /\ clock'.silent \in Nat
      BY <2>3 DEF Resumed
    <3> QED
      BY <3>1
  <2>4. CASE clock' # Resumed
    <3>1. (state' = "PLAYING" => state = "PLAYING") /\ clock' \in {clock, [clock EXCEPT !.pause = 0]}
      BY <1>8, <2>4 DEF Acknowledged, Stopped
    <3>2. clock'.progress = clock.progress /\ clock'.silent = clock.silent
      BY <3>1
    <3> QED
      BY <2>1, <2>2, <3>1, <3>2
  <2> QED
    BY <2>3, <2>4
<1>9. CASE WaitFails
  BY <1>9 DEF WaitFails, Fail, Idle
<1>10. CASE Unhealthy
  BY <1>10 DEF Unhealthy, Fail, Fault, Owner
<1>11. CASE Query
  BY <1>11 DEF Query, Progress, IndexRead, Visible, Owner, Healthy
<1>12. CASE DrainFailed
  BY <1>12 DEF DrainFailed, Fail, Owner, Healthy
<1>13. CASE Start
  BY <1>13 DEF Start, Send, Wait, Idle, Fail, Fault, Owner, Healthy
<1>14. CASE Resume
  BY <1>14 DEF Resume, Send, Wait, Idle, Fail, Fault, Owner
<1>15. CASE Pause
  BY <1>15 DEF Pause, Send, Wait, Idle, Fail, Fault, Owner, Healthy, Progress, IndexRead, Visible
<1>16. CASE Stop
  BY <1>16 DEF Stop, Send, Wait, Idle, Fail, Fault, Owner, Stopped
<1>17. ASSUME NEW n \in 1 .. MaxWrite, Write(n)
      PROVE  ProgressAge'
  <2>1. clock'.silent \in Nat
    BY <1>17 DEF Write
  <2>2. CASE drain_result = 1 \/ ~has_data
    <3>1. clock'.progress = 0
      BY <1>17, <2>2 DEF Write
    <3> QED
      BY <2>1, <3>1
  <2>3. CASE drain_result # 1 /\ has_data
    <3>1. drain_op = "none" /\ Watched /\ Accepting
      BY <1>17, <2>3 DEF Write, Watched, Accepting
    <3>2. clock'.progress = 0
      BY <1>17, <2>3, <3>1 DEF Write, Progress
    <3> QED
      BY <2>1, <3>2
  <2> QED
    BY <2>2, <2>3
<1>18. CASE DrainCall
  BY <1>18 DEF DrainCall, Fail, Fault, Owner, Healthy, IndexRead, Visible
<1>19. CASE Close
  BY <1>19 DEF Close, Owner
<1>20. CASE UNCHANGED vars
  BY <1>20 DEF vars, answers
<1>21. CASE TimingReply
  BY <1>21 DEF TimingReply
<1>22. CASE TimingLost
  BY <1>22 DEF TimingLost
<1>23. CASE Request
  BY <1>23, PulseaudioAssumption DEF Request
<1> QED
  BY <1>1, <1>2, <1>3, <1>4, <1>5, <1>6, <1>7, <1>8, <1>9, <1>10, <1>11, <1>12, <1>13,
     <1>14, <1>15, <1>16, <1>17, <1>18, <1>19, <1>20, <1>21, <1>22, <1>23
     DEF Next, ServerStep, Waiting, OwnerCall, Poll

(* What pulseaudio_output.c keeps, for every queue, timeout and number of
   faults. *)
THEOREM PulseInvariant == Spec => []PulseInv
<1>1. Init => PulseInv
  <2> SUFFICES ASSUME Init PROVE PulseInv
    OBVIOUS
  <2>1. own \in OwnType /\ server \in ServerType /\ clock \in ClockType /\ timing \in TimingType
    BY PulseaudioAssumption DEF Init, OwnType, ServerType, ClockType, TimingType
  <2>4. Types
    BY <2>1 DEF Init, Types
  <2>5. Fits
    BY PulseaudioAssumption DEF Init, Fits
  <2>2. Emptied /\ Asked
    BY DEF Init, Emptied, Asked, Applied
  <2>3. DrainAge /\ ProgressAge
    BY DEF Init, DrainAge, LateIsReal, ProgressAge
  <2> QED
    BY <2>2, <2>3, <2>4, <2>5 DEF PulseInv
<1>2. PulseInv /\ [Next]_vars => PulseInv'
  BY TypesStep, FitsStep, EmptiedStep, AskedStep, DrainAgeStep, ProgressAgeStep DEF PulseInv
<1> QED
  BY <1>1, <1>2, PTL DEF Spec

(* The types and bounds of all variables; in particular the server is never
   given more than its queue holds (lines 326-337). *)
THEOREM PulseTypes == Spec => []TypeOK
<1>1. PulseInv => TypeOK
  BY DEF PulseInv, Types, Fits, TypeOK, OwnType, ServerType, TimingType
<1> QED
  BY <1>1, PulseInvariant, PTL

(* A drain that answers 1 left nothing to be played, after every sequence of
   stops, restarts and further writes (lines 301-343, 389-416). *)
THEOREM DrainIsHonest == Spec => []DrainMeansPlayed
<1>1. PulseInv => DrainMeansPlayed
  BY DEF PulseInv, Emptied, DrainMeansPlayed, DrainAnswer, Owner
<1> QED
  BY <1>1, PulseInvariant, PTL

(* Between calls the server is corked exactly when we are not playing, whatever
   woke the waits before (lines 96-113, 267-316). *)
THEOREM CorkedWhenNotPlaying == Spec => []StateIsServers
<1>1. PulseInv => StateIsServers
  BY DEF PulseInv, Asked, StateIsServers, Owner
<1> QED
  BY <1>1, PulseInvariant, PTL

(* No drain is declared late that did not have the time to play its queue and
   the timeout, not counting pauses (lines 251-252, 262). *)
THEOREM LateDrainsAreLate == Spec => []LateIsReal
<1>1. PulseInv => LateIsReal
  BY DEF PulseInv, DrainAge
<1> QED
  BY <1>1, PulseInvariant, PTL

(* A playback declared stalled made no progress and, short of a drain, asked for
   nothing within the timeout, unless the news of its last progress had not
   come or could not be read: only late timing makes a server that plays look
   stalled (lines 239-258, 260-265). *)
THEOREM StallsAreReal == Spec => StallIsReal
<1>1. PulseInv /\ [Next]_vars =>
         [failed' = "stalled" => clock.silent > Timeout \/ Hidden]_failed
  <2> SUFFICES ASSUME PulseInv, [Next]_vars, failed' = "stalled", failed # "stalled", ~Hidden
               PROVE  clock.silent > Timeout
    OBVIOUS
  <2> USE DEF Fail
  <2>1. Unhealthy
    <3>1. ~(UNCHANGED vars) /\ ~(UNCHANGED failed)
      BY DEF vars
    <3>2. ~ServerStep /\ ~Tick
      BY <3>1
         DEF ServerStep, Apply, OperationDone, Lost, Play, IndexMoves, TimingReply,
             TimingLost, Request, DrainDone, Tick
    <3>3. ~Acknowledged /\ ~WaitFails
      BY <3>1 DEF Acknowledged, WaitFails, Send
    <3>4. ~Query /\ ~DrainFailed /\ ~Start /\ ~Resume /\ ~Pause /\ ~Stop /\ ~DrainCall /\ ~Close
      BY <3>1 DEF Query, DrainFailed, Start, Resume, Pause, Stop, DrainCall, Close, Send
    <3>5. \A n \in 1 .. MaxWrite : ~Write(n)
      BY <3>1 DEF Write
    <3> QED
      BY <3>1, <3>2, <3>3, <3>4, <3>5 DEF Next, Waiting, OwnerCall, Poll
  <2>2. Stalled /\ state = "PLAYING"
    BY <2>1 DEF Unhealthy, Watched
  <2>3. /\ clock.progress \in Nat /\ clock.silent \in Nat /\ Timeout \in Nat
        /\ server.room \in 0 .. TargetLength /\ TargetLength \in Nat
    BY PulseaudioAssumption DEF PulseInv, Types, ClockType, ServerType
  <2>4. drain_op # "none" \/ server.room = 0
    BY <2>2, <2>3 DEF Stalled, Accepting, Writable
  <2>5. ~timing.shown /\ ~timing.newer
    BY <2>2 DEF Stalled, Visible, Hidden
  <2>6. clock.progress <= clock.silent
    BY <2>2, <2>4, <2>5 DEF PulseInv, ProgressAge
  <2> QED
    BY <2>2, <2>3, <2>6 DEF Stalled
<1> QED
  BY <1>1, PulseInvariant, PTL DEF Spec, StallIsReal
=============================================================================
