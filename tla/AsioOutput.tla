----------------------------- MODULE AsioOutput -----------------------------
(***************************************************************************)
(* src/audio_output/asio_output.c: an ASIO driver calls back each time one *)
(* half of its double buffer has been played, to have that half filled     *)
(* again.  ASIO passes no context to a callback, so the output it is for   *)
(* is found in the global g_active_output.                                 *)
(*                                                                         *)
(* External: stop answers when no callback runs any more, and so does      *)
(* disposeBuffers, which implies it.                                       *)
(***************************************************************************)
EXTENDS RingDevice

IsAsio == kind = "asio"
-----------------------------------------------------------------------------
(* What asio_output_create acquires, in this order. *)
AsioSteps == <<"com", "driver", "conversion", "ring", "g_active_output", "buffers">>

(* Each step may fail, and then close takes back what there is; a failed
   createBuffers has taken g_active_output back before. *)
AsioCreate ==
    /\ IsAsio /\ call = "new"
    /\ \E k \in 0 .. Len(AsioSteps) :
          IF k = Len(AsioSteps)
          THEN /\ call' = "created" /\ worker' = "idle"
               /\ res' = Got(AsioSteps, k)
               /\ UNCHANGED faults
          ELSE /\ Fault
               /\ call' = "stopped"
               /\ res' = Got(AsioSteps, k) \ {"g_active_output"}
               /\ UNCHANGED worker
    /\ UNCHANGED <<vars, kind, state, deviceVars, held, drained>>

(* asio_output_start: both halves are cleared. *)
AsioStart ==
    /\ IsAsio /\ call = "created"
    /\ device' = Silence(2 * DeviceFrames)
    /\ \/ /\ running' = TRUE /\ state' = "PLAYING" /\ call' = "ready"
          /\ UNCHANGED faults
       \/ Fault /\ call' = "failed" /\ UNCHANGED <<running, state>>
    /\ UNCHANGED <<vars, kind, res, heard, gone, workerVars, drained>>

AsioPause == IsAsio /\ PauseClock(worker = "idle")

AsioResume == IsAsio /\ ResumeClock

(* asio_output_stop: the driver first, unless it is paused, then the ring;
   STOPPED whatever the driver says. *)
AsioStop ==
    /\ IsAsio /\ call \in {"ready", "failed"} /\ pc = "idle"
    /\ \/ state = "STOPPED" /\ call' = "stopped" /\ UNCHANGED <<running, faults>>
       \/ state = "PAUSED" /\ call' = "cancel" /\ UNCHANGED <<running, faults>>
       \/ /\ state = "PLAYING" /\ call' = "cancel"
          /\ \/ worker = "idle" /\ running' = FALSE /\ UNCHANGED faults
             \/ Fault /\ UNCHANGED running
    /\ UNCHANGED <<vars, kind, state, res, device, heard, gone, workerVars, drained>>

AsioCancel ==
    /\ IsAsio /\ call = "cancel"
    /\ Cancel
    /\ state' = "STOPPED"
    /\ call' = "stopped"
    /\ UNCHANGED <<kind, res, deviceVars, workerVars, drained, faults>>

(* asio_output_close: first no callback finds the output any more. *)
AsioDeactivate ==
    /\ IsAsio /\ call = "stopped"
    /\ res' = res \ {"g_active_output"}
    /\ call' = "dispose"
    /\ UNCHANGED <<vars, kind, state, deviceVars, workerVars, drained, faults>>

AsioDispose ==
    /\ IsAsio /\ call = "dispose"
    /\ IF "buffers" \in res
       THEN /\ worker = "idle"
            /\ res' = res \ {"buffers"}
            /\ running' = FALSE
            /\ Drops
       ELSE UNCHANGED <<res, running, device, heard, gone>>
    /\ call' = "free"
    /\ UNCHANGED <<vars, kind, state, workerVars, drained, faults>>

AsioFree ==
    /\ IsAsio /\ call = "free"
    /\ res' = res \ {"driver", "ring", "conversion", "com"}
    /\ call' = "closed"
    /\ UNCHANGED <<vars, kind, state, deviceVars, workerVars, drained, faults>>
-----------------------------------------------------------------------------
(* The driver has played a half and switches; asio_buffer_switch looks for
   the output, and returns at once if there is none. *)
SwitchBegins ==
    /\ IsAsio /\ running /\ worker = "idle"
    /\ Plays(DeviceFrames)
    /\ worker' = IF "g_active_output" \in res THEN "in" ELSE "idle"
    /\ UNCHANGED <<vars, owner, running, gone, held, drained, faults>>

SwitchRenders ==
    /\ IsAsio /\ worker = "in"
    /\ Read(DeviceFrames)
    /\ device' = device \o Padded(output', DeviceFrames)
    /\ worker' = "ready"
    /\ UNCHANGED <<owner, running, heard, gone, held, drained, faults>>

(* outputReady, which goes through output->driver. *)
SwitchReturns ==
    /\ IsAsio /\ worker = "ready"
    /\ worker' = "idle"
    /\ UNCHANGED <<vars, owner, deviceVars, held, drained, faults>>
-----------------------------------------------------------------------------
AsioOwner ==
    \/ AsioCreate \/ AsioStart \/ AsioPause \/ AsioResume \/ AsioStop \/ AsioCancel
    \/ AsioDeactivate \/ AsioDispose \/ AsioFree

AsioNext == AsioOwner \/ SwitchBegins \/ SwitchRenders \/ SwitchReturns
=============================================================================
