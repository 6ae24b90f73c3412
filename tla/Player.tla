------------------------------- MODULE Player -------------------------------
(***************************************************************************)
(* src/main.c, play_audio_file: one thread reads the decoder and feeds the *)
(* output, while Ctrl+C may arrive at any time and a key be pressed at     *)
(* every turn of the loop.  The output is what audio_output.h promises of  *)
(* every back end: a bounded queue before a device that plays while        *)
(* PLAYING, keeps its frames while PAUSED and may be lost.  Writes of the  *)
(* Linux back ends are partial and report a lost device, and a drain waits *)
(* for what the device holds.  Behind a RingBuffer, a write returns when   *)
(* everything is in it, and a drain looks at the ring alone: it does not   *)
(* see what the device has taken and not played.                           *)
(***************************************************************************)
EXTENDS Decoder

CONSTANTS
    Kinds,       \* decoders played
    LoopKinds,   \* those that may be played with --loop
    Backends,    \* which sort of writes: a set of values of out.blocking
    Losable,     \* those of them whose device may be lost
    Chunk,       \* buffer_frames: frames read at once
    QueueSize,   \* frames the queue of the output holds
    DeviceSize,  \* frames its device takes ahead of playing them
    MaxKeys      \* bound: keys pressed

ASSUME PlayerAssumption ==
    /\ Kinds \subseteq {"WAVE", "MP3", "FLAC"} /\ LoopKinds \subseteq Kinds
    /\ Backends \subseteq BOOLEAN /\ Losable \subseteq Backends
    /\ Chunk \in Nat \ {0} /\ QueueSize \in Nat \ {0} /\ DeviceSize \in Nat \ {0}
    /\ MaxKeys \in Nat

VARIABLES
    pc,
    g_running, loop_mode,
    is_paused, is_draining, playback_failed, result,
    pending,    \* the frames of buffer from pending_offset to samples_read
    out,        \* the output: [state, queue, device, blocking, lost]
    keys,       \* keys pressed
    heard       \* history: the last frame that was heard, 0 before the first

settings == <<loop_mode, keys>>
control  == <<is_paused, is_draining, playback_failed, result>>
vars     == <<decoderVars, pc, g_running, settings, control, pending, out, heard>>

Init ==
    /\ kind \in Kinds /\ DecoderInit
    /\ pc = "open" /\ g_running = TRUE
    /\ loop_mode \in BOOLEAN /\ (loop_mode => kind \in LoopKinds)
    /\ is_paused = FALSE /\ is_draining = FALSE
    /\ playback_failed = FALSE /\ result = -1
    /\ pending = << >>
    /\ out \in [state : {"STOPPED"}, queue : {<< >>}, device : {<< >>},
                blocking : Backends, lost : {FALSE}]
    /\ keys = 0 /\ heard = 0

GoTo(label) == pc' = label
-----------------------------------------------------------------------------
(* Open the decoder, create the output, start it. *)
OpenDecoder ==
    /\ pc = "open"
    /\ GoTo("init") \/ GoTo("closed")
    /\ UNCHANGED <<decoderVars, g_running, settings, control, pending, out, heard>>

InitOutput ==
    /\ pc = "init"
    /\ GoTo("start") \/ GoTo("cleanup")
    /\ UNCHANGED <<decoderVars, g_running, settings, control, pending, out, heard>>

StartOutput ==
    /\ pc = "start"
    /\ \/ ~out.lost /\ out' = [out EXCEPT !.state = "PLAYING"] /\ GoTo("top")
       \/ UNCHANGED out /\ GoTo("cleanup")
    /\ UNCHANGED <<decoderVars, g_running, settings, control, pending, heard>>

(* The loop ends with the outcome noted so far. *)
Leave(failed) ==
    /\ playback_failed' = failed
    /\ result' = IF failed THEN -1 ELSE 0
    /\ GoTo("cleanup")

(* One turn begins: Ctrl+C, or no key, or pause and resume.  Paused, the turn
   ends here. *)
InterruptedUnlessPaused ==    \* mistake: a paused turn looks at the keys only
    /\ pc = "top" /\ ~g_running /\ ~is_paused
    /\ Leave(playback_failed)
    /\ UNCHANGED <<decoderVars, g_running, settings, is_paused, is_draining, pending, out,
                   heard>>

Interrupted ==
    /\ pc = "top" /\ ~g_running
    /\ Leave(playback_failed)
    /\ UNCHANGED <<decoderVars, g_running, settings, is_paused, is_draining, pending, out,
                   heard>>

NoKey ==
    /\ pc = "top" /\ g_running
    /\ GoTo(IF is_paused THEN "top" ELSE "fill")
    /\ UNCHANGED <<decoderVars, g_running, settings, control, pending, out, heard>>

(* The output may refuse, and playback continues as it was. *)
ToggleKey(works) ==
    /\ pc = "top" /\ g_running
    /\ keys < MaxKeys /\ keys' = keys + 1
    /\ works => ~out.lost
    /\ is_paused' = IF works THEN ~is_paused ELSE is_paused
    /\ out' = IF works THEN [out EXCEPT !.state = IF is_paused THEN "PLAYING" ELSE "PAUSED"]
              ELSE out
    /\ GoTo(IF is_paused' THEN "top" ELSE "fill")
    /\ UNCHANGED <<decoderVars, g_running, loop_mode, is_draining, playback_failed, result,
                   pending, heard>>

(* Read on when everything read before is written. *)
Fill ==
    /\ pc = "fill"
    /\ IF ~is_draining /\ pending = << >>
       THEN ReadCall(Chunk) /\ GoTo("read")
       ELSE UNCHANGED decoderVars /\ GoTo("write")
    /\ UNCHANGED <<g_running, settings, control, pending, out, heard>>

ReadOn ==
    /\ pc = "read"
    /\ Reading
    /\ UNCHANGED <<pc, g_running, settings, control, pending, out, heard>>

(* Nothing read is the end of the input. *)
ReadDone ==
    /\ pc = "read"
    /\ \/ /\ reading.status = "done"
          /\ pending' = reading.got
          /\ is_draining' = (reading.got = << >>)
          /\ GoTo("write")
          /\ UNCHANGED <<playback_failed, result>>
       \/ /\ reading.status = "failed"
          /\ Leave(TRUE)
          /\ UNCHANGED <<pending, is_draining>>
    /\ reading' = NoRead
    /\ UNCHANGED <<file, g_running, settings, is_paused, out, heard>>

(* Mistakes: take a partial write for a complete one; count on an empty queue. *)
RestForgotten(n) == << >>
RoomWhenEmpty == QueueSize

Room == QueueSize - Len(out.queue)

(* What is left to write when n frames were taken. *)
Rest(n) == SubSeq(pending, n + 1, Len(pending))

WriteOut ==
    /\ pc = "write"
    /\ LET n == Lower(Len(pending), Room)
       IN  \/ /\ pending = << >>
              /\ GoTo("drain")
              /\ UNCHANGED <<pending, out, playback_failed, result>>
           \/ /\ pending # << >> /\ out.lost /\ ~out.blocking
              /\ Leave(TRUE)
              /\ UNCHANGED <<pending, out>>
           \/ /\ pending # << >> /\ ~(out.lost /\ ~out.blocking)
              /\ out.blocking => n > 0
              /\ out' = [out EXCEPT !.queue = @ \o SubSeq(pending, 1, n)]
              /\ pending' = Rest(n)
              /\ GoTo(IF out.blocking /\ pending' # << >> THEN "write" ELSE "drain")
              /\ UNCHANGED <<playback_failed, result>>
    /\ UNCHANGED <<decoderVars, g_running, settings, is_paused, is_draining, heard>>

NotDraining ==
    /\ pc = "drain" /\ ~is_draining
    /\ GoTo("top")
    /\ UNCHANGED <<decoderVars, g_running, settings, control, pending, out, heard>>

DrainFailureIgnored ==    \* mistake: poll again
    /\ pc = "drain" /\ is_draining
    /\ out.lost /\ ~out.blocking
    /\ GoTo("top")
    /\ UNCHANGED <<decoderVars, g_running, settings, control, pending, out, heard>>

DrainFails ==
    /\ pc = "drain" /\ is_draining
    /\ out.lost /\ ~out.blocking
    /\ Leave(TRUE)
    /\ UNCHANGED <<decoderVars, g_running, settings, is_paused, is_draining, pending, out,
                   heard>>

(* Mistake: take the end of the input for the end of playback. *)
InputIsOver == TRUE

(* audio_output_drain: everything written has been played; a back end behind a
   RingBuffer counts the frames of the ring only (audio_output.c:53-57). *)
Drained == out.queue = << >> /\ (out.blocking \/ out.device = << >>)

DrainPending ==
    /\ pc = "drain" /\ is_draining
    /\ ~Drained /\ ~(out.lost /\ ~out.blocking)
    /\ GoTo("top")
    /\ UNCHANGED <<decoderVars, g_running, settings, control, pending, out, heard>>

DrainDone ==
    /\ pc = "drain" /\ is_draining
    /\ Drained /\ ~(out.lost /\ ~out.blocking)
    /\ \/ /\ loop_mode /\ g_running
          /\ Seek(0)
          /\ is_draining' = FALSE
          /\ GoTo("top")
          /\ UNCHANGED <<playback_failed, result>>
       \/ /\ loop_mode /\ g_running /\ Faults
          /\ Leave(TRUE)
          /\ UNCHANGED <<decoderVars, is_draining>>
       \/ /\ ~(loop_mode /\ g_running)
          /\ Leave(FALSE)
          /\ UNCHANGED <<decoderVars, is_draining>>
    /\ UNCHANGED <<g_running, settings, is_paused, pending, out, heard>>

(* Stop and close the output, which drops what it holds; close the decoder. *)
Cleanup ==
    /\ pc = "cleanup"
    /\ out' = [out EXCEPT !.state = "STOPPED", !.queue = << >>, !.device = << >>]
    /\ GoTo("closed")
    /\ UNCHANGED <<decoderVars, g_running, settings, control, pending, heard>>
-----------------------------------------------------------------------------
(* signal_handler *)
SignalHandler ==
    /\ g_running /\ pc # "closed"
    /\ g_running' = FALSE
    /\ UNCHANGED <<decoderVars, pc, settings, control, pending, out, heard>>

(* The device takes a frame, also for a worker that a pause found under way... *)
Take ==
    /\ out.state = "PLAYING" \/ (out.blocking /\ out.state = "PAUSED")
    /\ ~out.lost /\ out.queue # << >> /\ Len(out.device) < DeviceSize
    /\ out' = [out EXCEPT !.queue = Tail(@), !.device = Append(@, Head(out.queue))]
    /\ UNCHANGED <<decoderVars, pc, g_running, settings, control, pending, heard>>

(* ... plays it... *)
Play ==
    /\ out.state = "PLAYING" /\ ~out.lost /\ out.device # << >>
    /\ heard' = Head(out.device)
    /\ out' = [out EXCEPT !.device = Tail(@)]
    /\ UNCHANGED <<decoderVars, pc, g_running, settings, control, pending>>

(* ... or goes away for good. *)
LoseDevice ==
    /\ out.blocking \in Losable /\ ~out.lost /\ pc # "closed"
    /\ out' = [out EXCEPT !.lost = TRUE]
    /\ UNCHANGED <<decoderVars, pc, g_running, settings, control, pending, heard>>

SetUp == OpenDecoder \/ InitOutput \/ StartOutput

Turn ==
    \/ Interrupted \/ NoKey \/ (\E works \in BOOLEAN : ToggleKey(works))
    \/ Fill \/ ReadOn \/ ReadDone \/ WriteOut
    \/ NotDraining \/ DrainFails \/ DrainPending \/ DrainDone

PlayerStep == SetUp \/ Turn \/ Cleanup

Device == Take \/ Play

Next == PlayerStep \/ SignalHandler \/ Device \/ LoseDevice

Spec == Init /\ [][Next]_vars

(* The thread runs, and a device that is not lost plays. *)
FairSpec == Spec /\ WF_vars(PlayerStep) /\ WF_vars(Device)
-----------------------------------------------------------------------------
TypeOK ==
    /\ kind \in Kinds /\ position \in 0 .. Length
    /\ pc \in {"open", "init", "start", "top", "fill", "read", "write", "drain",
               "cleanup", "closed"}
    /\ {g_running, loop_mode, is_paused, is_draining, playback_failed, eof, broken}
          \subseteq BOOLEAN
    /\ result \in {-1, 0}
    /\ Len(pending) <= Chunk /\ Len(out.queue) <= QueueSize
    /\ Len(out.device) <= DeviceSize
    /\ out.state \in {"STOPPED", "PLAYING", "PAUSED"}
    /\ heard \in 0 .. Length

(* The file is heard frame by frame from the first to the last, and from the
   first again when looping: partial writes, pauses, refused keys, the change
   from draining to the next pass lose and repeat nothing, as long as the file
   can be read (lines 409-499). *)
HeardInOrder == [][heard' # heard => heard' = (heard % Length) + 1 \/ broken]_heard

(* Playback that ends well, and not by Ctrl+C, has played the file to its end,
   but for what the device of a RingBuffer's back end had taken: drain does not
   see it and the stop that follows cuts it (lines 439-496, 524-529;
   audio_output.c:53-57).  A stop that cut more, an output that drops frames on
   the way, or a drain asked too early would break it. *)
EndMeansHeard ==
    pc = "closed" /\ result = 0 /\ g_running /\ ~broken =>
        Length - heard <= (IF out.blocking THEN DeviceSize ELSE 0)

(* drain tells the output that no more input comes: by then all that was read
   is written and nothing is left to read (lines 439-469). *)
DrainIsLast ==
    pc = "drain" /\ is_draining => pending = << >> /\ (position = Length \/ broken)

(* Ctrl+C ends the program, in whatever state it finds it (lines 143-152, 409;
   README.md:196). *)
InterruptStops == ~g_running ~> pc = "closed"

(* Without --loop the program ends by itself unless it is left paused, be the
   device lost or the file damaged (lines 409-521). *)
PlaybackEnds == ~loop_mode => <>(pc = "closed" \/ [](is_paused /\ g_running))
=============================================================================
