---------------------------- MODULE WasapiOutput ----------------------------
(***************************************************************************)
(* src/audio_output/wasapi_output.c: a consumer thread of its own waits    *)
(* for the event of the audio engine or the stop event, asks how much room *)
(* there is, takes as much from the ring and hands it over.  The owner     *)
(* starts it, and stops it by cancelling the ring, setting the stop event  *)
(* and joining it.  One action of the thread is what it does up to the     *)
(* next call of WASAPI or of the ring.                                     *)
(*                                                                         *)
(* The engine (external) plays some frames per period in shared mode and a *)
(* whole buffer of two in exclusive mode, and sets the event each time;    *)
(* the event is an auto-reset one and remembers no more than one period.   *)
(* conv_buffer holds a whole device buffer, so lines 177-184 never apply.  *)
(***************************************************************************)
EXTENDS RingDevice

VARIABLES
    event,       \* buffer_ready_event is set
    stop_event,  \* stop_event is set
    needed,      \* frames_needed of the thread
    stranded     \* history: start failed with the thread or its event made

wasapiVars == <<event, stop_event, needed, stranded>>

IsWasapi == kind \in {"wasapi shared", "wasapi exclusive"}

WasapiInit == event = FALSE /\ stop_event = FALSE /\ needed = 0 /\ stranded = FALSE

Room == DeviceSpace - Len(device)
-----------------------------------------------------------------------------
(* Forms of the operators below as a plausible mistake would leave them. *)
FramesNeededForgetsPadding == DeviceFrames

WasapiCancelForgetsEvent ==
    /\ IsWasapi /\ call = "cancel"
    /\ Cancel
    /\ call' = "join"
    /\ UNCHANGED <<kind, state, res, deviceVars, workerVars, drained, faults, wasapiVars>>

WasapiJoinForgetsToWait ==
    /\ IsWasapi /\ call = "join"
    /\ res' = res \ {"stop_event", "thread"}
    /\ IF running THEN UNCHANGED <<device, heard, gone>> ELSE Drops
    /\ state' = "STOPPED"
    /\ call' = "stopped"
    /\ UNCHANGED <<vars, kind, running, workerVars, drained, faults, wasapiVars>>
-----------------------------------------------------------------------------
(* What wasapi_output_create acquires, in this order. *)
WasapiSteps == <<"ring", "com", "enumerator", "endpoint", "client", "event",
                 "conversion", "render">>

(* Each step may fail; the first two are undone in create itself, the others
   by the close that error_cleanup calls. *)
WasapiCreate ==
    /\ IsWasapi /\ call = "new"
    /\ \E k \in 0 .. Len(WasapiSteps) :
          IF k = Len(WasapiSteps)
          THEN /\ call' = "created"
               /\ res' = Got(WasapiSteps, k)
               /\ UNCHANGED faults
          ELSE /\ Fault
               /\ call' = IF k < 2 THEN "closed" ELSE "stopped"
               /\ res' = IF k < 2 THEN {} ELSE Got(WasapiSteps, k)
    /\ UNCHANGED <<vars, kind, state, deviceVars, workerVars, drained, wasapiVars>>

(* wasapi_output_start up to IAudioClient_Start: the stop event, a buffer of
   silence in exclusive mode, the thread.  If the thread cannot be made, the
   event stays. *)
WasapiStart ==
    /\ IsWasapi /\ call = "created"
    /\ \/ /\ res' = res \cup {"stop_event", "thread"}
          /\ call' = "starting"
          /\ worker' = "begin"
          /\ device' = IF kind = "wasapi exclusive" THEN Silence(DeviceFrames) ELSE device
          /\ UNCHANGED <<faults, stranded>>
       \/ /\ Fault
          /\ call' = "failed"
          /\ \/ UNCHANGED <<res, stranded>>
             \/ res' = res \cup {"stop_event"} /\ stranded' = TRUE
          /\ UNCHANGED <<worker, device>>
    /\ UNCHANGED <<vars, kind, state, running, heard, gone, held, drained,
                   event, stop_event, needed>>

(* IAudioClient_Start; its failure leaves the state as it was. *)
WasapiStarted ==
    /\ IsWasapi /\ call = "starting"
    /\ \/ /\ running' = TRUE /\ state' = "PLAYING" /\ call' = "ready"
          /\ UNCHANGED <<faults, stranded>>
       \/ /\ Fault /\ call' = "failed" /\ stranded' = TRUE
          /\ UNCHANGED <<running, state>>
    /\ UNCHANGED <<vars, kind, res, device, heard, gone, workerVars, drained,
                   event, stop_event, needed>>

WasapiPause == IsWasapi /\ PauseClock(TRUE) /\ UNCHANGED wasapiVars

WasapiResume == IsWasapi /\ ResumeClock /\ UNCHANGED wasapiVars

(* wasapi_output_stop returns at once if STOPPED; else IAudioClient_Stop,
   whose answer is ignored. *)
WasapiStop ==
    /\ IsWasapi /\ call \in {"ready", "failed"} /\ pc = "idle"
    /\ \/ /\ state = "STOPPED" /\ call' = "stopped"
          /\ UNCHANGED <<running, faults>>
       \/ /\ state # "STOPPED" /\ call' = "cancel"
          /\ \/ running' = FALSE /\ UNCHANGED faults
             \/ Fault /\ UNCHANGED running
    /\ UNCHANGED <<vars, kind, state, res, device, heard, gone, workerVars, drained,
                   wasapiVars>>

WasapiCancel ==
    /\ IsWasapi /\ call = "cancel"
    /\ Cancel
    /\ stop_event' = TRUE
    /\ call' = "join"
    /\ UNCHANGED <<kind, state, res, deviceVars, workerVars, drained, faults,
                   event, needed, stranded>>

(* WaitForSingleObject, the handles, and IAudioClient_Reset, which a client
   that runs refuses. *)
WasapiJoin ==
    /\ IsWasapi /\ call = "join" /\ worker = "dead"
    /\ res' = res \ {"stop_event", "thread"}
    /\ IF running THEN UNCHANGED <<device, heard, gone>> ELSE Drops
    /\ state' = "STOPPED"
    /\ call' = "stopped"
    /\ UNCHANGED <<vars, kind, running, workerVars, drained, faults, wasapiVars>>

(* wasapi_output_close after its stop, which is done or has nothing to do. *)
WasapiClose ==
    /\ IsWasapi /\ call = "stopped"
    /\ res' = res \ Range(WasapiSteps)
    /\ running' = FALSE
    /\ Drops
    /\ call' = "closed"
    /\ UNCHANGED <<vars, kind, state, workerVars, drained, faults, wasapiVars>>
-----------------------------------------------------------------------------
(* wasapi_consumer_thread.  It uses `output` until it is dead; what it does
   with an output that was freed is not modelled. *)
Thread(at) == IsWasapi /\ worker = at /\ "ring" \in res

ThreadBegin ==
    /\ Thread("begin")
    /\ worker' = "wait"
    /\ UNCHANGED <<vars, owner, deviceVars, held, drained, faults, wasapiVars>>

(* The stop event comes first among the handles. *)
ThreadStops ==
    /\ Thread("wait") /\ stop_event
    /\ worker' = "dead"
    /\ UNCHANGED <<vars, owner, deviceVars, held, drained, faults, wasapiVars>>

ThreadWakes ==
    /\ Thread("wait") /\ ~stop_event /\ event
    /\ event' = FALSE
    /\ worker' = "room"
    /\ UNCHANGED <<vars, owner, deviceVars, held, drained, faults,
                   stop_event, needed, stranded>>

FramesNeeded ==
    IF kind = "wasapi exclusive" THEN DeviceFrames ELSE DeviceFrames - Len(device)

(* How much to hand over: nothing if the padding is refused. *)
ThreadNeeds ==
    /\ Thread("room")
    /\ \/ needed' = FramesNeeded /\ UNCHANGED faults
       \/ kind = "wasapi shared" /\ Fault /\ needed' = 0
    /\ worker' = IF needed' = 0 THEN "wait" ELSE "read"
    /\ UNCHANGED <<vars, owner, deviceVars, held, drained, event, stop_event, stranded>>

ThreadReads ==
    /\ Thread("read")
    /\ Read(needed)
    /\ held' = Padded(output', needed)
    /\ worker' = "render"
    /\ UNCHANGED <<owner, deviceVars, drained, faults, wasapiVars>>

(* GetBuffer, the conversion and ReleaseBuffer.  A GetBuffer that fails, and
   it does when there is less room, loses what was taken. *)
ThreadRenders ==
    /\ Thread("render")
    /\ \/ /\ device' = IF needed <= Room THEN device \o held ELSE device
          /\ UNCHANGED <<gone, faults>>
       \/ /\ Fault
          /\ gone' = gone \cup Frames(held)
          /\ UNCHANGED device
    /\ held' = << >>
    /\ worker' = "wait"
    /\ UNCHANGED <<vars, owner, running, heard, drained, wasapiVars>>

ThreadStep ==
    \/ ThreadBegin \/ ThreadStops \/ ThreadWakes
    \/ ThreadNeeds \/ ThreadReads \/ ThreadRenders

(* The audio engine plays and sets the event. *)
EnginePeriod ==
    /\ IsWasapi /\ running
    /\ IF kind = "wasapi exclusive"
       THEN Plays(DeviceFrames)
       ELSE \E n \in 1 .. DeviceFrames : Plays(n)
    /\ event' = TRUE
    /\ UNCHANGED <<vars, owner, running, gone, workerVars, drained, faults,
                   stop_event, needed, stranded>>
-----------------------------------------------------------------------------
WasapiOwner ==
    \/ WasapiCreate \/ WasapiStart \/ WasapiStarted \/ WasapiPause \/ WasapiResume
    \/ WasapiStop \/ WasapiCancel \/ WasapiJoin \/ WasapiClose

WasapiNext == WasapiOwner \/ ThreadStep \/ EnginePeriod
=============================================================================
