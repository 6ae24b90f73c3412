-------------------------- MODULE PulseaudioOutput --------------------------
(***************************************************************************)
(* src/audio_output/pulseaudio_output.c.  The queue is the server's; what  *)
(* is kept here is control: the state, the drain operation, the watchdog.  *)
(* The lock of the threaded main loop serializes everything, so a public   *)
(* function of the owner's thread is one step and so is a callback; only   *)
(* the waits (connect_server, create, wait_operation) give the lock away,  *)
(* and the owner is then at pc = "wait".  pa_threaded_mainloop_wait        *)
(* returns at every wake(), whoever called it, so a wait looks again.      *)
(*                                                                         *)
(* The server is external: it carries out a control operation and answers  *)
(* later, plays while it is not corked, and answers a drain once its queue *)
(* is empty.  What it played and how much it wants is known to the client  *)
(* only by messages of their own, timing replies and requests, which come  *)
(* when they come.  An operation that was cancelled calls nobody back.     *)
(* Time is a Tick and a timestamp its age.                                 *)
(***************************************************************************)
EXTENDS Integers

CONSTANTS
    TargetLength,   \* frames the server's queue holds
    Timeout,        \* timeout_ms, in ticks
    QueueTime,      \* ticks a full queue takes to play
    MaxWrite,       \* bound: frames passed to one write
    MaxFaults       \* bound: errors of the server and of the library

ASSUME PulseaudioAssumption ==
    /\ TargetLength \in Nat \ {0}
    /\ Timeout \in Nat \ {0} /\ QueueTime \in Nat
    /\ MaxWrite \in Nat /\ MaxFaults \in Nat

VARIABLES
    state, failed, operation_result, drain_result, has_data,
    drain_op,    \* "none", or the state of the pa_operation
    timing,      \* what is known of the server's read index: [known, shown, newer]
    own,         \* the owner's call: [pc, op, step, waited]
    server,      \* [corked, queued, room, control, faults]
    clock        \* ages of progress_at, pause_at and the drain; and history

answers == <<operation_result, drain_result>>
vars    == <<state, failed, answers, has_data, drain_op, timing, own, server, clock>>

(* The drain is late at this age: drain_deadline. *)
Budget == QueueTime + Timeout

Smaller(a, b)     == IF a < b THEN a ELSE b
Older(age, limit) == IF age > limit THEN age ELSE age + 1

(* error(o, ..., fatal = 1): the first reason stays. *)
Fail(reason) == failed' = IF failed = "no" THEN reason ELSE failed

Fault == server.faults < MaxFaults /\ server' = [server EXCEPT !.faults = @ + 1]

Idle == own' = [pc |-> "idle", op |-> "none", step |-> "none", waited |-> 0]

Wait(op, step) == own' = [pc |-> "wait", op |-> op, step |-> step, waited |-> 0]

(* pulseaudio_output_create, up to the wait for the context. *)
Init ==
    /\ state = "STOPPED" /\ failed = "no" /\ has_data = FALSE
    /\ operation_result = 0 /\ drain_result = 0 /\ drain_op = "none"
    /\ timing = [known |-> FALSE, shown |-> FALSE, newer |-> FALSE]
    /\ own = [pc |-> "wait", op |-> "create", step |-> "context", waited |-> 0]
    /\ server = [corked |-> TRUE, queued |-> 0, room |-> TargetLength, control |-> "sent",
                 faults |-> 0]
    /\ clock = [progress |-> 0, pause |-> 0, drain |-> 0, drained_for |-> 0, silent |-> 0]
-----------------------------------------------------------------------------
(* The server, and the callbacks through which it answers. *)

Apply ==
    /\ server.control = "sent"
    /\ server' = [server EXCEPT
            !.control = "applied",
            !.corked = IF own.step \in {"cork", "uncork"} THEN own.step = "cork" ELSE @,
            !.queued = IF own.step = "flush" THEN 0 ELSE @]
    /\ UNCHANGED <<state, failed, answers, has_data, drain_op, timing, own, clock>>

(* operation_done; context_changed and stream_changed when they become ready. *)
OperationDone(success) ==
    /\ server.control = IF success THEN "applied" ELSE "sent"
    /\ server' = [server EXCEPT !.control = "done", !.faults = IF success THEN @ ELSE @ + 1]
    /\ server'.faults <= MaxFaults
    /\ operation_result' = IF success THEN 1 ELSE -1
    /\ UNCHANGED <<state, failed, drain_result, has_data, drain_op, timing, own, clock>>

(* context_changed, stream_changed: the connection or the stream is lost. *)
Lost ==
    /\ own.pc # "closed"
    /\ Fail("error") /\ Fault
    /\ UNCHANGED <<state, answers, has_data, drain_op, timing, own, clock>>

(* The server plays a frame, and its read index moves... *)
Play ==
    /\ ~server.corked /\ server.queued > 0
    /\ server' = [server EXCEPT !.queued = @ - 1]
    /\ timing' = [timing EXCEPT !.newer = TRUE]
    /\ clock' = [clock EXCEPT !.silent = 0]
    /\ UNCHANGED <<state, failed, answers, has_data, drain_op, own>>

(* ... as it may when nothing is left. *)
IndexMoves ==
    /\ ~server.corked /\ server.queued = 0
    /\ timing' = [timing EXCEPT !.newer = TRUE]
    /\ clock' = [clock EXCEPT !.silent = 0]
    /\ UNCHANGED <<state, failed, answers, has_data, drain_op, own, server>>

(* A timing reply brings the read index... *)
TimingReply ==
    /\ own.op # "create" /\ own.pc # "closed"
    /\ timing' = [known |-> TRUE, shown |-> timing.shown \/ timing.newer, newer |-> FALSE]
    /\ UNCHANGED <<state, failed, answers, has_data, drain_op, own, server, clock>>

(* ... or leaves it missing or corrupt. *)
TimingLost ==
    /\ timing.known
    /\ timing' = [timing EXCEPT !.known = FALSE]
    /\ UNCHANGED <<state, failed, answers, has_data, drain_op, own, server, clock>>

(* The server asks for what its queue has room for. *)
Request ==
    /\ server.queued + server.room < TargetLength
    /\ server' = [server EXCEPT !.room = TargetLength - server.queued]
    /\ UNCHANGED <<state, failed, answers, has_data, drain_op, timing, own, clock>>

(* drain_done *)
DrainDone ==
    /\ drain_op = "running"
    /\ drain_op' = "done"
    /\ \/ ~server.corked /\ server.queued = 0 /\ drain_result' = 1 /\ UNCHANGED server
       \/ drain_result' = -1 /\ Fault
    /\ UNCHANGED <<state, failed, operation_result, has_data, timing, own, clock>>

(* Time passes, until the output fails.  While paused only the difference of
   drain deadline and pause_at matters, so both ages stop at a limit.
   `drained_for` is how long the drain has had to play. *)
Tick ==
    /\ failed = "no" /\ own.pc # "closed"
    /\ LET frozen == state = "PAUSED" /\ clock.pause > Timeout
       IN  clock' = [progress |-> Older(clock.progress, Timeout),
                     pause    |-> IF state # "PAUSED" THEN 0
                                  ELSE IF frozen THEN clock.pause ELSE clock.pause + 1,
                     drain    |-> IF drain_op = "none" THEN 0
                                  ELSE IF state # "PAUSED" THEN Older(clock.drain, Budget)
                                  ELSE IF frozen THEN clock.drain ELSE clock.drain + 1,
                     drained_for |-> IF drain_op = "none" THEN 0
                                     ELSE IF state # "PLAYING" THEN clock.drained_for
                                     ELSE Older(clock.drained_for, Budget),
                     silent   |-> IF state # "PLAYING"
                                        \/ (drain_op = "none" /\ server.room > 0)
                                  THEN 0 ELSE Older(clock.silent, Timeout)]
    /\ own' = [own EXCEPT !.waited = IF own.pc = "wait" THEN Older(@, Timeout) ELSE 0]
    /\ UNCHANGED <<state, failed, answers, has_data, drain_op, timing, server>>

ServerStep ==
    Apply \/ (\E success \in BOOLEAN : OperationDone(success)) \/ Lost
    \/ Play \/ IndexMoves \/ TimingReply \/ TimingLost \/ Request \/ DrainDone
-----------------------------------------------------------------------------
(* The public functions, on the owner's thread.  Nearly all begin with
   healthy(), which looks only while data is playing. *)

Owner == own.pc = "idle"

Watched == state = "PLAYING" /\ has_data /\ drain_result # 1

(* pa_stream_writable_size: what the server asked for and was not given yet. *)
Writable == server.room

NeverLate == FALSE    \* mistake: rely on the progress of the read index

DrainLate == drain_op # "none" /\ clock.drain > Budget

Accepting == drain_op = "none" /\ Writable > 0

(* The read index is there, is not corrupt and differs from last_read. *)
Visible == timing.known /\ timing.shown

Stalled == ~Accepting /\ ~Visible /\ clock.progress > Timeout

Healthy == failed = "no" /\ (Watched => ~DrainLate /\ ~Stalled)

(* What healthy() notes: the progress it saw, and the read index. *)
Progress == IF Watched /\ (Accepting \/ Visible) THEN 0 ELSE clock.progress
IndexRead ==
    timing' = IF Watched /\ ~Accepting /\ Visible THEN [timing EXCEPT !.shown = FALSE] ELSE timing

Unhealthy ==
    /\ Owner /\ failed = "no" /\ Watched
    /\ \/ DrainLate /\ Fail("late") /\ UNCHANGED server
       \/ ~DrainLate /\ Stalled /\ Fail("stalled") /\ UNCHANGED server
       \/ Fail("error") /\ Fault
    /\ UNCHANGED <<state, answers, has_data, drain_op, timing, own, clock>>

(* get_state, get_available_frames, get_queued_frames, get_error, and drain
   while it is pending or once it is done. *)
Query ==
    /\ Owner /\ Healthy
    /\ clock' = [clock EXCEPT !.progress = Progress]
    /\ IndexRead
    /\ UNCHANGED <<state, failed, answers, has_data, drain_op, own, server>>

(* cork() or pa_stream_flush up to the wait for it, which may be refused. *)
Send(op, step) ==
    \/ /\ server' = [server EXCEPT !.control = "sent"]
       /\ operation_result' = 0
       /\ Wait(op, step)
       /\ UNCHANGED failed
    \/ operation_result' = 0 /\ Fail("error") /\ Fault /\ Idle

Start ==
    /\ Owner /\ Healthy /\ state # "PLAYING"
    /\ Send("start", "uncork")
    /\ UNCHANGED <<state, drain_result, has_data, drain_op, timing, clock>>

Resume ==
    /\ Owner /\ failed = "no" /\ state = "PAUSED"
    /\ Send("resume", "uncork")
    /\ UNCHANGED <<state, drain_result, has_data, drain_op, timing, clock>>

Pause ==
    /\ Owner /\ Healthy /\ state = "PLAYING"
    /\ Send("pause", "cork")
    /\ clock' = [clock EXCEPT !.progress = Progress]
    /\ IndexRead
    /\ UNCHANGED <<state, drain_result, has_data, drain_op>>

(* What a stop that works leaves behind. *)
Stopped ==
    /\ state' = "STOPPED" /\ has_data' = FALSE /\ drain_result' = 0

(* stop: cancel the drain, cork, flush. *)
Stop ==
    /\ Owner
    /\ drain_op' = "none"
    /\ \/ failed # "no" /\ UNCHANGED <<state, failed, answers, has_data, own, server>>
       \/ /\ failed = "no" /\ state # "STOPPED"
          /\ Send("stop", "cork")
          /\ UNCHANGED <<state, drain_result, has_data>>
       \/ /\ failed = "no" /\ state = "STOPPED"
          /\ Stopped
          /\ UNCHANGED <<failed, operation_result, own, server>>
    /\ UNCHANGED <<timing, clock>>

AnswerKept ==    \* mistake: the next drain finds the answer of the last one
    UNCHANGED drain_result

(* A write after a drain begins another segment. *)
AnswerForgotten == drain_result' = 0

Write(n) ==
    /\ Owner /\ Healthy /\ state = "PLAYING"
    /\ drain_op # "none" => drain_result = 1
    /\ Writable > 0
    /\ LET anew == drain_result = 1 \/ ~has_data
       IN  /\ IF drain_result = 1 THEN drain_op' = "none" /\ AnswerForgotten
              ELSE UNCHANGED <<drain_op, drain_result>>
           /\ clock' = [clock EXCEPT !.progress = IF anew THEN 0 ELSE Progress]
           /\ IndexRead
           /\ \/ /\ server' = [server EXCEPT !.queued = @ + Smaller(n, Writable),
                                         !.room = @ - Smaller(n, Writable)]
                 /\ has_data' = TRUE
                 /\ UNCHANGED failed
              \/ /\ Fail("error") /\ Fault
                 /\ has_data' = (has_data /\ drain_result # 1)
    /\ UNCHANGED <<state, operation_result, own>>

(* drain, which without data is done at once: that is a Query. *)
DrainCall ==
    /\ Owner /\ Healthy /\ state = "PLAYING" /\ has_data /\ drain_op = "none"
    /\ drain_result' = 0
    /\ clock' = [clock EXCEPT !.progress = 0, !.drain = 0, !.drained_for = 0]
    /\ IndexRead
    /\ \/ drain_op' = "running" /\ UNCHANGED <<failed, server>>
       \/ Fail("error") /\ Fault /\ UNCHANGED drain_op
    /\ UNCHANGED <<state, operation_result, has_data, own>>

DrainFailed ==
    /\ Owner /\ Healthy /\ state = "PLAYING" /\ drain_result = -1
    /\ Fail("error")
    /\ UNCHANGED <<state, answers, has_data, drain_op, timing, own, server, clock>>

AckSeenEarly ==    \* mistake: take any wake-up for the answer
    server.control \in {"sent", "applied", "done"}

(* wait_operation: the operation is done, and well. *)
AckSeen == server.control = "done" /\ operation_result = 1

ResumedNoExtension ==    \* mistake: count the time spent paused
    [clock EXCEPT !.progress = 0, !.pause = 0]

ResumedStale ==    \* mistake: go on with the watchdog where it stopped
    [clock EXCEPT !.drain = @ - clock.pause, !.pause = 0]

(* mark_playing: the time spent paused does not count. *)
Resumed ==
    [clock EXCEPT !.progress = 0, !.pause = 0,
                  !.drain = IF state = "PAUSED" /\ drain_op # "none" THEN @ - clock.pause ELSE @]

FlushForgotten == FALSE    \* mistake: leave the server's queue as it is

FlushNext == own.op = "stop" /\ own.step = "cork"

Acknowledged ==
    /\ own.pc = "wait" /\ failed = "no"
    /\ AckSeen
    /\ \/ /\ own.step = "context"
          /\ Wait("create", "stream")
          /\ server' = [server EXCEPT !.control = "sent"] /\ operation_result' = 0
          /\ UNCHANGED <<state, has_data, drain_result, failed, clock>>
       \/ /\ own.step = "stream"
          /\ Idle
          /\ server' = [server EXCEPT !.control = "none"]
          /\ UNCHANGED <<state, has_data, answers, failed, clock>>
       \/ /\ own.step = "uncork"
          /\ state' = "PLAYING" /\ clock' = Resumed
          /\ Idle
          /\ server' = [server EXCEPT !.control = "none"]
          /\ UNCHANGED <<has_data, answers, failed>>
       \/ /\ own.op = "pause"
          /\ state' = "PAUSED" /\ clock' = [clock EXCEPT !.pause = 0]
          /\ Idle
          /\ server' = [server EXCEPT !.control = "none"]
          /\ UNCHANGED <<has_data, answers, failed>>
       \/ /\ FlushNext
          /\ Send("stop", "flush")
          /\ UNCHANGED <<state, has_data, drain_result, clock>>
       \/ /\ own.op = "stop" /\ ~FlushNext
          /\ Stopped
          /\ Idle
          /\ server' = [server EXCEPT !.control = "none"]
          /\ UNCHANGED <<operation_result, failed, clock>>
    /\ UNCHANGED <<drain_op, timing>>

(* The timer of the wait has fired. *)
NoTimer == FALSE    \* mistake: wait without one

TimedOut == own.waited >= Timeout

(* The wait fails: the operation is cancelled; create closes what there is. *)
WaitFails ==
    /\ own.pc = "wait"
    /\ failed # "no" \/ TimedOut \/ (server.control = "done" /\ operation_result = -1)
    /\ Fail(IF TimedOut THEN "timeout" ELSE "error")
    /\ IF own.op = "create" THEN own' = [own EXCEPT !.pc = "closed", !.step = "none"] ELSE Idle
    /\ server' = [server EXCEPT !.control = "none"]
    /\ UNCHANGED <<state, answers, has_data, drain_op, timing, clock>>

Close ==
    /\ Owner
    /\ own' = [own EXCEPT !.pc = "closed"]
    /\ drain_op' = "none"
    /\ UNCHANGED <<state, failed, answers, has_data, timing, server, clock>>
-----------------------------------------------------------------------------
Waiting == Acknowledged \/ WaitFails

(* The owner looks how the drain is doing. *)
Poll == Unhealthy \/ Query \/ DrainFailed

OwnerCall ==
    \/ Poll \/ Start \/ Resume \/ Pause \/ Stop \/ DrainCall \/ Close
    \/ \E n \in 1 .. MaxWrite : Write(n)

Next == ServerStep \/ Tick \/ Waiting \/ OwnerCall

Spec == Init /\ [][Next]_vars

(* The owner's thread wakes up and keeps polling, as the player does, and the
   clock advances; the server owes nothing. *)
FairSpec == Spec /\ WF_vars(Waiting) /\ WF_vars(Poll) /\ WF_vars(Tick)
-----------------------------------------------------------------------------
TypeOK ==
    /\ state \in {"STOPPED", "PLAYING", "PAUSED"}
    /\ failed \in {"no", "error", "late", "stalled", "timeout"}
    /\ {operation_result, drain_result} \subseteq {-1, 0, 1}
    /\ has_data \in BOOLEAN /\ timing \in [known : BOOLEAN, shown : BOOLEAN, newer : BOOLEAN]
    /\ drain_op \in {"none", "running", "done"}
    /\ own.pc \in {"idle", "wait", "closed"}
    /\ server.queued \in 0 .. TargetLength /\ server.room \in 0 .. TargetLength
    /\ server.queued + server.room <= TargetLength
    /\ server.control \in {"none", "sent", "applied", "done"}

(* What drain answers, once healthy() let it pass. *)
DrainAnswer == IF ~has_data THEN 1 ELSE drain_result

(* drain answers 1 only when the server has nothing left to play: neither the
   acknowledgement of an earlier segment nor has_data can make it say so
   after a stop, a restart or a further write (lines 301-343, 389-416). *)
DrainMeansPlayed ==
    Owner /\ failed = "no" /\ state = "PLAYING" /\ DrainAnswer = 1 => server.queued = 0

(* Between calls the server is corked exactly when we are not playing: a wait
   that is woken by another callback does not take it for its answer (lines
   96-113, 267-316). *)
StateIsServers == Owner /\ failed = "no" => (server.corked <=> state # "PLAYING")

(* Progress that healthy() cannot have seen: made after the last timing reply,
   or in a read index that is missing or corrupt since. *)
Hidden == timing.newer \/ (timing.shown /\ ~timing.known)

(* The playback is declared stalled only if the server neither played nor, short
   of a drain, asked for more for longer than the timeout, pauses not counted,
   unless its last progress did not reach us: timing is asynchronous, and a
   server that plays is declared stalled when the news of it is late (lines
   239-258, 260-265, 375). *)
StallIsReal == [][failed' = "stalled" => clock.silent > Timeout \/ Hidden]_failed

(* A drain is declared late only after the time to play the queue plus the
   timeout, excluding time spent paused (lines 249-250, 262; README.md:427). *)
LateIsReal == failed = "late" => clock.drained_for > Budget

(* Every call returns, whatever the server does: each wait has a timer (lines
   79-108). *)
CallsReturn == own.pc = "wait" ~> own.pc # "wait"

(* A drain ends, one way or the other, even with a server that shows progress
   for ever and never acknowledges it (lines 251-252, 404-406). *)
DrainEnds == drain_op = "running" ~> drain_op # "running" \/ failed # "no" \/ state # "PLAYING"
=============================================================================
