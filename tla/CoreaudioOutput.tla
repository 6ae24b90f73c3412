-------------------------- MODULE CoreaudioOutput ---------------------------
(***************************************************************************)
(* src/audio_output/coreaudio_output.c: CoreAudio calls back on its own    *)
(* real-time thread, through an audio unit in shared mode and through an   *)
(* IOProc of the device in hog mode; the callback takes what it is asked   *)
(* for from the ring.  In hog mode the output owns the device alone, turns *)
(* its mixer off and has a conversion buffer of a fixed size.              *)
(*                                                                         *)
(* External: a unit or device that is stopped, disposed of or whose IOProc *)
(* is destroyed answers when no callback runs any more; what a callback    *)
(* rendered is played while the next one runs.                             *)
(***************************************************************************)
EXTENDS RingDevice

VARIABLE
    oversize   \* the device's buffer is larger than conv_buf: its size could
               \* not be set (453, the answer is ignored)

IsCoreaudio == kind \in {"coreaudio shared", "coreaudio hog"}

CoreaudioInit == oversize = FALSE
-----------------------------------------------------------------------------
(* A form of the last action as a plausible mistake would leave it. *)
CoreaudioFreeForgetsMixer ==
    /\ IsCoreaudio /\ call = "free"
    /\ res' = res \ {"hog", "conversion", "ring"}
    /\ call' = "closed"
    /\ UNCHANGED <<vars, kind, state, deviceVars, workerVars, drained, faults, oversize>>
-----------------------------------------------------------------------------
(* What create_hog and create_shared acquire, in this order. *)
CoreaudioSteps ==
    IF kind = "coreaudio hog"
    THEN <<"hog", "mixing", "conversion", "ring", "ioproc">>
    ELSE <<"ring", "unit">>

(* Each step may fail, for the mixer without consequence, and so may setting up
   the unit that was instantiated; then close takes back what there is.  Negotiation and the physical format fail before the
   conversion buffer is made. *)
CoreaudioCreate ==
    /\ IsCoreaudio /\ call = "new"
    /\ \E k \in 0 .. Len(CoreaudioSteps) :
          LET got == Got(CoreaudioSteps, k)
          IN  \/ /\ k = Len(CoreaudioSteps)
                 /\ call' = "created" /\ worker' = "idle"
                 /\ \/ res' = got /\ UNCHANGED <<faults, oversize>>
                    \/ /\ kind = "coreaudio hog" /\ Fault
                       /\ \/ res' = got \ {"mixing"} /\ UNCHANGED oversize
                          \/ res' = got /\ oversize' = TRUE
              \/ /\ k < Len(CoreaudioSteps) \/ kind = "coreaudio shared"
                 /\ Fault
                 /\ call' = "stopped"
                 /\ res' = got
                 /\ UNCHANGED <<worker, oversize>>
    /\ UNCHANGED <<vars, kind, state, deviceVars, held, drained>>

CoreaudioStart ==
    /\ IsCoreaudio /\ call = "created"
    /\ \/ /\ running' = TRUE /\ state' = "PLAYING" /\ call' = "ready"
          /\ UNCHANGED faults
       \/ Fault /\ call' = "failed" /\ UNCHANGED <<running, state>>
    /\ UNCHANGED <<vars, kind, res, device, heard, gone, workerVars, drained, oversize>>

CoreaudioPause == IsCoreaudio /\ PauseClock(worker = "idle") /\ UNCHANGED oversize

CoreaudioResume == IsCoreaudio /\ ResumeClock /\ UNCHANGED oversize

(* audio_output_stop cancels the ring first. *)
CoreaudioStop ==
    /\ IsCoreaudio /\ call \in {"ready", "failed"} /\ pc = "idle"
    /\ IF state = "STOPPED"
       THEN call' = "stopped" /\ UNCHANGED vars
       ELSE call' = "halt" /\ Cancel
    /\ UNCHANGED <<kind, state, res, deviceVars, workerVars, drained, faults, oversize>>

(* Then it stops the device or unit, whatever that answers, and resets the
   unit, which drops what it holds. *)
CoreaudioHalt ==
    /\ IsCoreaudio /\ call = "halt"
    /\ \/ worker = "idle" /\ running' = FALSE /\ UNCHANGED faults
       \/ Fault /\ UNCHANGED running
    /\ IF kind = "coreaudio shared" THEN Drops ELSE UNCHANGED <<device, heard, gone>>
    /\ state' = "STOPPED"
    /\ call' = "stopped"
    /\ UNCHANGED <<vars, kind, res, workerVars, drained, oversize>>

(* audio_output_close: no callback comes after the unit or the IOProc. *)
CoreaudioDispose ==
    /\ IsCoreaudio /\ call = "stopped"
    /\ worker \in {"none", "idle"}
    /\ res' = res \ {"ioproc", "unit"}
    /\ running' = FALSE
    /\ Drops
    /\ call' = "free"
    /\ UNCHANGED <<vars, kind, state, workerVars, drained, faults, oversize>>

CoreaudioFree ==
    /\ IsCoreaudio /\ call = "free"
    /\ res' = res \ {"mixing", "hog", "conversion", "ring"}
    /\ call' = "closed"
    /\ UNCHANGED <<vars, kind, state, deviceVars, workerVars, drained, faults, oversize>>
-----------------------------------------------------------------------------
(* shared_render_cb, hog_io_proc: entered, while the last buffer is played. *)
CallbackBegins ==
    /\ IsCoreaudio /\ running /\ worker = "idle"
    /\ Plays(Len(device))
    /\ worker' = "in"
    /\ UNCHANGED <<vars, owner, running, gone, held, drained, faults, oversize>>

(* An audio unit may ask for less than a buffer. *)
CallbackReads ==
    /\ IsCoreaudio /\ worker = "in" /\ ~oversize
    /\ \E n \in 1 .. DeviceFrames :
          /\ kind = "coreaudio hog" => n = DeviceFrames
          /\ Read(n)
          /\ device' = Padded(output', n)
    /\ worker' = "idle"
    /\ UNCHANGED <<owner, running, heard, gone, held, drained, faults, oversize>>

(* hog_io_proc renders silence when its buffer is too small, and leaves the
   ring alone. *)
CallbackSilent ==
    /\ IsCoreaudio /\ worker = "in" /\ oversize
    /\ device' = Silence(DeviceFrames)
    /\ worker' = "idle"
    /\ UNCHANGED <<vars, owner, running, heard, gone, held, drained, faults, oversize>>

CallbackReturns == CallbackReads \/ CallbackSilent
-----------------------------------------------------------------------------
CoreaudioOwner ==
    \/ CoreaudioCreate \/ CoreaudioStart \/ CoreaudioPause \/ CoreaudioResume
    \/ CoreaudioStop \/ CoreaudioHalt \/ CoreaudioDispose \/ CoreaudioFree

CoreaudioNext == CoreaudioOwner \/ CallbackBegins \/ CallbackReturns
=============================================================================
