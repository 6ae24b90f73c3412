----------------------------- MODULE AlsaOutput -----------------------------
(***************************************************************************)
(* src/audio_output/alsa_output.c, and the drain of linux_output.c.  One   *)
(* thread calls; the other actor is the PCM device (external), a state     *)
(* machine of its own that plays, runs dry, is suspended with the machine  *)
(* or unplugged between any two calls of libasound.  A function is one     *)
(* step unless it looks at the device and acts on what it saw: recover     *)
(* after an error, pause and resume after snd_pcm_state.                   *)
(*                                                                         *)
(* The device follows the kernel's PCM core: with a start threshold of 1   *)
(* the first write starts it, an empty running device is an underrun,      *)
(* snd_pcm_prepare and snd_pcm_drop discard its queue, and snd_pcm_resume, *)
(* where the hardware has it, puts a suspended device back as it was, with *)
(* its queue.  Frames are numbered as they were offered.                   *)
(***************************************************************************)
EXTENDS Integers, Sequences

CONSTANTS
    BufferFrames,   \* buffer_frames of the device
    Hardware,       \* kinds of devices: sets of "pause" and "resume"
    MaxWrite,       \* bound: frames passed to one write
    MaxFrames,      \* bound: frames written in all
    MaxFaults       \* bound: suspensions, interrupted calls, unplugging

ASSUME AlsaAssumption ==
    /\ BufferFrames \in Nat \ {0}
    /\ Hardware \subseteq SUBSET {"pause", "resume"}
    /\ MaxWrite \in Nat /\ MaxFrames \in Nat /\ MaxFaults \in Nat

VARIABLES
    state,    \* AudioState
    pcm,      \* the device: [status, was, asleep, can, faults]
    queue,    \* the frames in its buffer
    sent,     \* frames written, by the answers of write
    heard,    \* the last frame played
    own,      \* the call in progress: [pc, op, code], code what libasound said
    drain     \* the last answer of drain, forgotten by the next write

vars == <<state, pcm, queue, sent, heard, own, drain>>

Idle   == [pc |-> "idle", op |-> "none", code |-> "none"]
Return == own' = Idle

(* alsa_output_create: hw_params leaves the device prepared. *)
Init ==
    /\ state = "STOPPED"
    /\ \E can \in Hardware :
          pcm = [status |-> "PREPARED", was |-> "PREPARED", asleep |-> FALSE, can |-> can,
                 faults |-> 0]
    /\ queue = << >> /\ sent = 0 /\ heard = 0
    /\ own = Idle /\ drain = "none"
-----------------------------------------------------------------------------
(* The device. *)

Play ==
    /\ pcm.status = "RUNNING" /\ queue # << >>
    /\ heard' = Head(queue)
    /\ queue' = Tail(queue)
    /\ UNCHANGED <<state, pcm, sent, own, drain>>

Underrun ==
    /\ pcm.status = "RUNNING" /\ queue = << >>
    /\ pcm' = [pcm EXCEPT !.status = "XRUN"]
    /\ UNCHANGED <<state, queue, sent, heard, own, drain>>

Suspend ==
    /\ pcm.faults < MaxFaults
    /\ pcm.status \in {"PREPARED", "RUNNING", "PAUSED", "XRUN"}
    /\ pcm' = [pcm EXCEPT !.status = "SUSPENDED", !.was = pcm.status, !.asleep = TRUE,
                          !.faults = @ + 1]
    /\ UNCHANGED <<state, queue, sent, heard, own, drain>>

Wake ==
    /\ pcm.asleep
    /\ pcm' = [pcm EXCEPT !.asleep = FALSE]
    /\ UNCHANGED <<state, queue, sent, heard, own, drain>>

Unplug ==
    /\ pcm.faults < MaxFaults /\ pcm.status # "GONE"
    /\ pcm' = [pcm EXCEPT !.status = "GONE", !.faults = @ + 1]
    /\ UNCHANGED <<state, queue, sent, heard, own, drain>>

DeviceStep == Play \/ Underrun \/ Suspend \/ Wake \/ Unplug

(* snd_pcm_prepare and snd_pcm_drop, of a device that is there. *)
Present   == pcm.status # "GONE"
Discarded(status) ==
    /\ pcm' = [pcm EXCEPT !.status = status]
    /\ queue' = << >>
Untouched == UNCHANGED <<pcm, queue>>

(* A call to a device that is there fails all the same. *)
Refused ==
    /\ pcm.faults < MaxFaults
    /\ pcm' = [pcm EXCEPT !.faults = @ + 1]
    /\ UNCHANGED queue

(* What snd_pcm_writei, snd_pcm_delay and snd_pcm_avail_update answer. *)
ErrorCode ==
    CASE pcm.status = "XRUN"      -> "EPIPE"
      [] pcm.status = "SUSPENDED" -> "ESTRPIPE"
      [] pcm.status \in {"GONE", "SETUP"} -> "other"
      [] OTHER -> "none"

(* The call of libasound made for `op` fails: recover is next. *)
Fails(op) ==
    /\ \/ ErrorCode # "none" /\ own' = [pc |-> "recover", op |-> op, code |-> ErrorCode]
          /\ UNCHANGED pcm
       \/ ErrorCode = "none" /\ pcm.faults < MaxFaults     \* EINTR
          /\ own' = [pc |-> "recover", op |-> op, code |-> "EAGAIN"]
          /\ pcm' = [pcm EXCEPT !.faults = @ + 1]
    /\ UNCHANGED <<state, queue, sent, heard, drain>>
-----------------------------------------------------------------------------
Owner == own.pc = "idle"

(* start from PAUSED is Resume, from PLAYING it changes nothing. *)
Start ==
    /\ Owner /\ state = "STOPPED" /\ Present
    /\ Discarded("PREPARED")
    /\ state' = "PLAYING"
    /\ UNCHANGED <<sent, heard, own, drain>>

(* A device that is gone cannot be stopped: nothing changes. *)
Stop ==
    /\ Owner /\ Present
    /\ Discarded("SETUP")
    /\ state' = "STOPPED"
    /\ UNCHANGED <<sent, heard, own, drain>>

(* snd_pcm_state: pause and resume act on what it was. *)
Look ==
    /\ Owner /\ state \in {"PLAYING", "PAUSED"}
    /\ own' = [pc |-> IF state = "PLAYING" THEN "pause" ELSE "resume",
               op |-> "none", code |-> pcm.status]
    /\ UNCHANGED <<state, pcm, queue, sent, heard, drain>>

PauseByDropping ==    \* mistake: discard the queue of hardware that cannot pause
    IF pcm.status = "RUNNING" /\ "pause" \in pcm.can
    THEN pcm' = [pcm EXCEPT !.status = "PAUSED"] /\ state' = "PAUSED" /\ UNCHANGED queue
    ELSE Discarded("PREPARED") /\ state' = "PAUSED"

(* snd_pcm_pause(pcm, 1), which the hardware may not have. *)
PauseHardware ==
    IF pcm.status = "RUNNING" /\ "pause" \in pcm.can
    THEN pcm' = [pcm EXCEPT !.status = "PAUSED"] /\ state' = "PAUSED" /\ UNCHANGED queue
    ELSE Untouched /\ UNCHANGED state

Pause ==
    /\ own.pc = "pause"
    /\ CASE own.code = "XRUN" /\ Present -> Discarded("PREPARED") /\ state' = "PAUSED"
         [] own.code = "RUNNING"         -> PauseHardware
         [] own.code = "PREPARED"        -> Untouched /\ state' = "PAUSED"
         [] OTHER                        -> Untouched /\ UNCHANGED state
    /\ Return
    /\ UNCHANGED <<sent, heard, drain>>

Resume ==
    /\ own.pc = "resume"
    /\ CASE own.code # "PAUSED"   -> Untouched /\ state' = "PLAYING"
         [] own.code = "PAUSED" /\ pcm.status = "PAUSED" ->
               pcm' = [pcm EXCEPT !.status = "RUNNING"] /\ state' = "PLAYING" /\ UNCHANGED queue
         [] OTHER                 -> Untouched /\ UNCHANGED state
    /\ Return
    /\ UNCHANGED <<sent, heard, drain>>

(* What write returns when n frames were offered and some were written. *)
Taken(n, written) == written

(* snd_pcm_writei starts a prepared device.  The frames it does not take are
   offered again.  No frame offered, none written. *)
Write(n) ==
    /\ Owner /\ state = "PLAYING"
    /\ sent + n <= MaxFrames
    /\ drain' = "none"
    /\ \/ /\ ErrorCode = "none"
          /\ \E written \in 1 .. n :
                /\ Len(queue) + written <= BufferFrames
                /\ queue' = queue \o [i \in 1 .. written |-> sent + i]
                /\ sent' = sent + Taken(n, written)
          /\ pcm' = [pcm EXCEPT !.status = IF @ = "PREPARED" THEN "RUNNING" ELSE @]
          /\ UNCHANGED <<state, heard, own>>
       \/ /\ ErrorCode # "none" \/ Len(queue) = BufferFrames
          /\ own' = [pc |-> "recover", op |-> "write",
                     code |-> IF ErrorCode = "none" THEN "EAGAIN" ELSE ErrorCode]
          /\ UNCHANGED <<state, pcm, queue, sent, heard>>

(* get_available_frames: with no error there is nothing to it. *)
Available ==
    /\ Owner /\ state # "STOPPED"
    /\ Fails("available")

(* get_queued_frames and the drain made of it. *)
Drain ==
    /\ Owner
    /\ \/ /\ state = "STOPPED" \/ ErrorCode = "none"
          /\ drain' = IF state = "STOPPED" \/ queue = << >> THEN "done" ELSE "pending"
          /\ UNCHANGED <<state, pcm, queue, sent, heard, own>>
       \/ state # "STOPPED" /\ Fails("drain")

PendingIsEmpty(result) ==    \* mistake: nothing can be asked, so nothing is queued
    IF result = -1 THEN "failed" ELSE "done"

(* The answer of drain after recover: that of a device that was resumed with
   its queue is told apart. *)
DrainAfter(result) ==
    IF result = -1 THEN "failed"
    ELSE IF result = 0 THEN "pending"
    ELSE IF own.code = "ESTRPIPE" /\ "resume" \in pcm.can /\ pcm'.status # "PREPARED"
    THEN "resumed" ELSE "done"

RecoveredIsWritten(result) == result    \* mistake: hand out the answer of recover

(* The answer of write after recover. *)
WrittenAfter(result) == IF result < 0 THEN -1 ELSE 0

(* Back in the caller, with the answer of recover. *)
Recovered(result) ==
    /\ drain' = IF own.op = "drain" THEN DrainAfter(result) ELSE drain
    /\ sent' = IF own.op = "write" /\ WrittenAfter(result) > 0 THEN sent + 1 ELSE sent
    /\ Return

UnderrunAwaited ==    \* mistake: wait for an underrun to go away
    own.code = "EPIPE" /\ Untouched /\ Recovered(0)

(* snd_pcm_prepare, which may fail. *)
Prepare ==
    \/ Present /\ Discarded("PREPARED") /\ Recovered(1)
    \/ Present /\ Refused /\ Recovered(-1)
    \/ ~Present /\ Untouched /\ Recovered(-1)

RecoverUnderrun == own.code = "EPIPE" /\ Prepare

(* snd_pcm_resume, and snd_pcm_prepare if it does not work, as it may even on
   hardware that can. *)
RecoverSuspended ==
    /\ own.code = "ESTRPIPE"
    /\ \/ Prepare
       \/ Present /\ "resume" \in pcm.can /\ pcm.asleep /\ Untouched /\ Recovered(0)
       \/ /\ Present /\ "resume" \in pcm.can /\ ~pcm.asleep
          /\ pcm' = [pcm EXCEPT !.status = pcm.was]
          /\ UNCHANGED queue
          /\ Recovered(1)

RecoverOther ==
    /\ own.code \in {"EAGAIN", "other"}
    /\ Recovered(IF own.code = "EAGAIN" THEN 0 ELSE -1)
    /\ Untouched

Recover ==
    /\ own.pc = "recover"
    /\ RecoverUnderrun \/ RecoverSuspended \/ RecoverOther
    /\ UNCHANGED <<state, heard>>

Close ==
    /\ Owner
    /\ Discarded("GONE")
    /\ own' = [Idle EXCEPT !.pc = "closed"]
    /\ UNCHANGED <<state, sent, heard, drain>>
-----------------------------------------------------------------------------
Returning == Pause \/ Resume \/ Recover

OwnerCall == Start \/ Stop \/ Look \/ (\E n \in 1 .. MaxWrite : Write(n)) \/ Available
             \/ Drain \/ Close

Next == DeviceStep \/ Returning \/ OwnerCall

Spec == Init /\ [][Next]_vars

(* A call returns; the player asks how the drain is doing in every turn of its
   loop, whatever else it calls; a device that runs plays, and a machine that
   was suspended is woken some day. *)
FairSpec ==
    /\ Spec
    /\ WF_vars(Returning) /\ SF_vars(Drain)
    /\ WF_vars(Play \/ Underrun) /\ WF_vars(Wake)
-----------------------------------------------------------------------------
Statuses == {"PREPARED", "RUNNING", "PAUSED", "XRUN", "SUSPENDED", "SETUP", "GONE"}

TypeOK ==
    /\ state \in {"STOPPED", "PLAYING", "PAUSED"}
    /\ pcm.status \in Statuses /\ pcm.was \in Statuses
    /\ pcm.asleep \in BOOLEAN /\ pcm.can \in Hardware /\ pcm.faults \in 0 .. MaxFaults
    /\ Len(queue) <= BufferFrames
    /\ sent \in 0 .. MaxFrames /\ heard \in 0 .. sent
    /\ own.pc \in {"idle", "recover", "pause", "resume", "closed"}
    /\ drain \in {"none", "pending", "done", "resumed", "failed"}

Fifo == INSTANCE Fifo WITH
            Capacity  <- BufferFrames,
            accepted  <- sent,
            delivered <- sent - Len(queue),
            output    <- IF heard = 0 THEN << >> ELSE <<heard>>

(* What write answers is what the device was given: short writes and writes
   that ended in recover lose and repeat nothing that is not discarded by a
   stop or with the device's queue (lines 35-49, 259-271). *)
ImplementsFifo == Fifo!Spec

(* A queued frame leaves only by being played while we are playing, by a stop,
   or with the queue of a suspended device; pausing loses and plays nothing,
   whatever the device can do and does meanwhile (lines 210-238;
   README.md:246-248). *)
QueueKept ==
    [][Len(queue') < Len(queue) =>
          \/ heard' # heard /\ state = "PLAYING"
          \/ state' = "STOPPED" \/ own'.pc = "closed"
          \/ pcm.status = "SUSPENDED"]_queue

(* drain answers 1 only when nothing is queued, also when it had to recover
   the device, save for one that was resumed with its queue (lines 289-302;
   linux_output.c:55-58). *)
DrainMeansHeard == drain = "done" => queue = << >>

(* A drain of a device that plays ends, through underruns, suspensions and
   errors, save when a resumed device went back to its pause (lines 36-49,
   229-238, 289-302). *)
DrainEnds ==
    drain = "pending" ~>
        \/ drain # "pending" \/ state # "PLAYING" \/ own.pc = "closed"
        \/ pcm.status = "PAUSED"

(* "A suspended device still owns queued audio while resume is pending"
   (alsa_output.c:297), and drain answers "1 done, 0 pending" for all of it
   (audio_output.h:38): no drain is done with frames left to be played. *)
DoneMeansHeard == drain \in {"done", "resumed"} => queue = << >>
=============================================================================
