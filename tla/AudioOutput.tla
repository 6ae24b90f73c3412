---------------------------- MODULE AudioOutput -----------------------------
(***************************************************************************)
(* The output of the player where it is not Linux: audio_output.c chooses  *)
(* the platform, windows_output.c between WASAPI and ASIO, and whichever   *)
(* it is, the player's thread fills the ring of ring_buffer.c and a thread *)
(* or callback empties it.  This module composes the three back ends, of   *)
(* which one is in use, with the ring and with the calls of the player.    *)
(***************************************************************************)
EXTENDS WasapiOutput, CoreaudioOutput, AsioOutput

CONSTANT Kinds   \* the back ends and modes a configuration may choose

ASSUME KindsAssumption ==
    Kinds \subseteq {"wasapi shared", "wasapi exclusive", "coreaudio shared",
                     "coreaudio hog", "asio"}

outVars == <<vars, commonVars, wasapiVars, oversize>>

(* audio_output_init, windows_output_create: the dispatch. *)
OutInit ==
    /\ CommonInit
    /\ kind \in Kinds
    /\ WasapiInit /\ CoreaudioInit

OutNext ==
    \/ WasapiNext /\ UNCHANGED oversize
    \/ CoreaudioNext /\ UNCHANGED wasapiVars
    \/ AsioNext /\ UNCHANGED <<wasapiVars, oversize>>
    \/ /\ (\E n \in 1 .. MaxRequest : Write(n)) \/ Writing \/ Drain
       /\ UNCHANGED <<wasapiVars, oversize>>

OutSpec == OutInit /\ [][OutNext]_outVars
-----------------------------------------------------------------------------
(* A control function that has begun goes on. *)
OwnerReturns ==
    \/ (WasapiStarted \/ WasapiCancel \/ WasapiJoin) /\ UNCHANGED oversize
    \/ (CoreaudioHalt \/ CoreaudioFree) /\ UNCHANGED wasapiVars
    \/ (AsioCancel \/ AsioDispose \/ AsioFree) /\ UNCHANGED <<wasapiVars, oversize>>

WorkerStep ==
    \/ ThreadStep /\ UNCHANGED oversize
    \/ CallbackReturns /\ UNCHANGED wasapiVars
    \/ (SwitchRenders \/ SwitchReturns) /\ UNCHANGED <<wasapiVars, oversize>>

DevicePeriod ==
    \/ EnginePeriod /\ UNCHANGED oversize
    \/ CallbackBegins /\ UNCHANGED wasapiVars
    \/ SwitchBegins /\ UNCHANGED <<wasapiVars, oversize>>

(* The player's thread runs, and so do the consumer thread and a callback
   that was entered.  Strong fairness, because the ring's mutex is not free
   all the time and a system call waits for callbacks that go on coming. *)
OutFairSpec ==
    /\ OutSpec
    /\ SF_outVars(OwnerReturns)
    /\ SF_outVars(WorkerStep)
    /\ WF_outVars(WriterStep /\ UNCHANGED <<commonVars, wasapiVars, oversize>>)

(* A device whose clock runs plays on. *)
DeviceServes == SF_outVars(DevicePeriod)
-----------------------------------------------------------------------------
Resources ==
    {"ring", "com", "enumerator", "endpoint", "client", "event", "conversion", "render",
     "stop_event", "thread", "hog", "mixing", "ioproc", "unit",
     "driver", "g_active_output", "buffers"}

(* Types, and the little that relates the owner's label to the rest. *)
OutTypeOK ==
    /\ TypeOK
    /\ kind \in Kinds
    /\ call \in {"new", "created", "starting", "ready", "failed", "cancel", "join",
                 "halt", "stopped", "dispose", "free", "closed"}
    /\ state \in {"STOPPED", "PLAYING", "PAUSED"}
    /\ res \subseteq Resources
    /\ running \in BOOLEAN /\ drained \in BOOLEAN
    /\ device \in Seq(Nat) /\ Len(device) <= DeviceSpace
    /\ held \in Seq(Nat) /\ Len(held) <= DeviceFrames
    /\ worker \in {"none", "idle", "in", "ready", "begin", "wait", "room", "read",
                   "render", "dead"}
    /\ heard \subseteq 1 .. delivered /\ gone \subseteq 1 .. delivered
    /\ faults \in 0 .. MaxFaults
    /\ event \in BOOLEAN /\ stop_event \in BOOLEAN /\ stranded \in BOOLEAN
    /\ needed \in 0 .. DeviceFrames /\ oversize \in BOOLEAN

(* drain answers 1 on an empty ring, whatever the device still holds
   (audio_output.c:54-57); what a stop then cuts off is never more than the
   device's buffer holds. *)
CutIsBounded ==
    drained => Cardinality((1 .. accepted) \ (heard \cup gone)) <= DeviceSpace

(* What a worker that is not at rest uses. *)
Uses ==
    CASE IsAsio -> {"ring", "conversion", "driver"}
      [] IsWasapi -> {"ring", "conversion", "event", "render"}
      [] kind = "coreaudio hog" -> {"ring", "conversion"}
      [] OTHER -> {"ring"}

(* The ring, the conversion buffer and the driver or client outlive whoever
   uses them: the thread is joined, and no callback is in progress or comes
   later, before they are freed, also if the system refused to stop.  Except
   after a start that failed with the thread already made (wasapi 429-433):
   stop then returns early (440), and close frees under the thread. *)
FreedLast ==
    worker \notin {"none", "idle", "dead"} /\ ~stranded => Uses \subseteq res

(* A closed output has given everything back, in whatever state it was and
   however far create had come: hog mode and mixer, IOProc, COM, driver,
   events, threads, with the same exception. *)
CloseGivesBack ==
    call = "closed" =>
        /\ ~running /\ lock = FALSE
        /\ res \subseteq IF stranded THEN {"stop_event", "thread"} ELSE {}

(* Every call returns: start, stop with its join, and close; and a write, once
   the ring is full, as long as the device plays on.  Except where the IOProc
   never reads, because the device's buffer is too large for it
   (coreaudio 256-261, 453). *)
Busy == {"starting", "cancel", "join", "halt", "dispose", "free"}

CallsReturn ==
    /\ call \in Busy ~> call \notin Busy
    /\ DeviceServes => (pc # "idle" ~> pc = "idle" \/ oversize)
=============================================================================
