----------------------------- MODULE RingDevice -----------------------------
(***************************************************************************)
(* What the WASAPI, CoreAudio and ASIO back ends have in common: the ring  *)
(* buffer, whose unit is here a frame (all their requests are whole        *)
(* frames), a device (external) that plays what it was given while its     *)
(* clock runs, and the calls of one thread, the player's, in the order of  *)
(* play_audio_file: create, start, then write, pause, resume and drain     *)
(* until it stops and closes.  Whoever takes frames from the ring, a       *)
(* thread of the back end or a callback of the system, is the worker.      *)
(*                                                                         *)
(* A frame is its number, 0 is silence.                                    *)
(***************************************************************************)
EXTENDS RingBuffer, Sequences, FiniteSets, Functions

CONSTANTS
    DeviceFrames,  \* frames of one buffer of the device
    MaxFaults      \* bound: calls that the system refuses

ASSUME DeviceAssumption ==
    /\ DeviceFrames \in 1 .. MaxRequest
    /\ MaxFaults \in Nat

VARIABLES
    kind,      \* back end and mode, as the configuration chose them
    call,      \* where the owner is: between two calls, or inside one
    state,     \* AudioState
    res,       \* what the output owns of the system's resources
    running,   \* the device's clock runs
    device,    \* frames the device was given and has not played
    worker,    \* where the thread or callback is
    held,      \* its conv_buffer, between ring_buffer_read and the device
    drained,   \* the last drain answered 1 and nothing was written since
    heard, gone,  \* history: frames played, frames taken and dropped
    faults     \* calls refused so far

owner == <<kind, call, state, res>>
deviceVars == <<running, device, heard, gone>>
workerVars == <<worker, held>>
commonVars == <<kind, call, state, res, running, device, worker, held, drained,
                heard, gone, faults>>

Frames(s) == Range(s) \ {0}

(* What the first k of the steps of create acquire. *)
Got(steps, k) == {steps[i] : i \in 1 .. k}

Silence(n) == [i \in 1 .. n |-> 0]

(* The memset that follows a short ring_buffer_read. *)
Padded(s, n) == [i \in 1 .. n |-> IF i \in DOMAIN s THEN s[i] ELSE 0]

(* What the device can hold: two buffers that change places, or one. *)
DeviceSpace ==
    IF kind \in {"wasapi exclusive", "asio"} THEN 2 * DeviceFrames ELSE DeviceFrames

(* The system refuses a call. *)
Fault == faults < MaxFaults /\ faults' = faults + 1
-----------------------------------------------------------------------------
CommonInit ==
    /\ Init
    /\ call = "new" /\ state = "STOPPED" /\ res = {}
    /\ running = FALSE /\ device = << >>
    /\ worker = "none" /\ held = << >>
    /\ drained = FALSE /\ heard = {} /\ gone = {} /\ faults = 0

(* The device plays its oldest n frames, or all if it has fewer. *)
Plays(n) ==
    LET k == Smaller(n, Len(device))
    IN  /\ heard' = heard \cup Frames(SubSeq(device, 1, k))
        /\ device' = SubSeq(device, k + 1, Len(device))

(* What the device holds is dropped. *)
Drops ==
    /\ device' = << >>
    /\ gone' = gone \cup Frames(device)
    /\ UNCHANGED heard

(* The owner may call: it is neither in a control function nor in a write. *)
Owner == call = "ready" /\ pc = "idle"

(* write, only while playing: play_audio_file writes nothing while paused. *)
Write(n) ==
    /\ Owner /\ state = "PLAYING"
    /\ WriteCall(n)
    /\ drained' = FALSE
    /\ UNCHANGED <<owner, deviceVars, workerVars, faults>>

Writing ==
    /\ WriterStep \/ SpuriousWake
    /\ UNCHANGED commonVars

(* A form of Drain as a plausible mistake would leave it. *)
DrainAnswersAtOnce ==
    /\ Owner /\ state = "PLAYING"
    /\ ~lock
    /\ drained' = TRUE
    /\ UNCHANGED <<vars, owner, deviceVars, workerVars, faults>>

(* audio_output_drain where the back end has none: 1 once the ring is empty. *)
Drain ==
    /\ Owner /\ state = "PLAYING"
    /\ ~lock
    /\ drained' = (Available = 0)
    /\ UNCHANGED <<vars, owner, deviceVars, workerVars, faults>>

(* The clock is stopped by pause and started by resume; `may` is what the
   system waits for before it answers. *)
PauseClock(may) ==
    /\ Owner /\ state = "PLAYING"
    /\ \/ /\ may
          /\ running' = FALSE /\ state' = "PAUSED"
          /\ UNCHANGED faults
       \/ Fault /\ UNCHANGED <<running, state>>
    /\ UNCHANGED <<vars, kind, call, res, device, heard, gone, workerVars, drained>>

ResumeClock ==
    /\ Owner /\ state = "PAUSED"
    /\ \/ running' = TRUE /\ state' = "PLAYING" /\ UNCHANGED faults
       \/ Fault /\ UNCHANGED <<running, state>>
    /\ UNCHANGED <<vars, kind, call, res, device, heard, gone, workerVars, drained>>
-----------------------------------------------------------------------------
(* A frame that left the ring is in one place: played, with the device, with
   the consumer thread, or dropped because the system refused it or the
   output was stopped.  Nothing is played twice or out of order, and the
   device always has the room that the thread saw, although it asks (171-176)
   long before it hands over (194) and in exclusive mode does not ask. *)
InOrder(s) == \A i, j \in DOMAIN s : i < j /\ s[i] # 0 /\ s[j] # 0 => s[i] < s[j]

EveryFrameOnce ==
    LET queued == Frames(device) \cup Frames(held)
    IN  /\ heard \cup queued \cup gone = 1 .. delivered
        /\ gone \cap (heard \cup queued) = {}
        /\ InOrder(device) /\ InOrder(held)
        /\ \A f \in heard, g \in queued : f < g
        /\ \A f \in Frames(device), g \in Frames(held) : f < g
=============================================================================
