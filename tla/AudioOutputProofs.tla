------------------------- MODULE AudioOutputProofs --------------------------
(***************************************************************************)
(* Proofs about the outputs behind the ring buffer, for every capacity,    *)
(* buffer size, number of frames and number of refused calls.              *)
(*                                                                         *)
(* Two invariants are inductive.  Queues is about the data: the invariant  *)
(* of the ring, types, EveryFrameOnce, and Shape, which says how much a    *)
(* device holds at each point of its worker's round; without the latter a  *)
(* hand-over could not be shown to fit.  Life is about the calls: what the *)
(* output owns, and where its worker may be, at each point of the life of  *)
(* an output; FreedLast and CloseGivesBack are read off it.                *)
(*                                                                         *)
(* Each is proved back end by back end.  Because every step of the         *)
(* composition is a step of the ring or leaves the ring alone, what was    *)
(* proved of the ring holds of the composition.                            *)
(***************************************************************************)
EXTENDS AudioOutput, FrameProofs, FiniteSetTheorems

(* All kinds of output, and what each has acquired when create succeeds. *)
AllKinds == {"wasapi shared", "wasapi exclusive", "coreaudio shared", "coreaudio hog", "asio"}
WasapiAll == {"ring", "com", "enumerator", "endpoint", "client", "event", "conversion", "render"}
CoreaudioAll ==
    IF kind = "coreaudio hog" THEN {"hog", "mixing", "conversion", "ring", "ioproc"}
    ELSE {"ring", "unit"}
AsioAll == {"com", "driver", "conversion", "ring", "g_active_output", "buffers"}

(* What create has acquired when it has come to the end, and before. *)
LEMMA StepsGot ==
    /\ Range(WasapiSteps) = WasapiAll /\ Len(WasapiSteps) = 8
    /\ \A k \in 0 .. 8 : Got(WasapiSteps, k) \subseteq WasapiAll
    /\ Got(WasapiSteps, 8) = WasapiAll
    /\ Len(AsioSteps) = 6
    /\ \A k \in 0 .. 5 : Got(AsioSteps, k) \subseteq AsioAll \ {"buffers"}
    /\ Got(AsioSteps, 6) = AsioAll
<1>1. /\ Range(WasapiSteps) = WasapiAll /\ Len(WasapiSteps) = 8
      /\ \A i \in 1 .. 8 : WasapiSteps[i] \in WasapiAll
  BY DEF Range, WasapiSteps, WasapiAll
<1>2. Len(AsioSteps) = 6 /\ \A i \in 1 .. 5 : AsioSteps[i] \in AsioAll \ {"buffers"}
  BY DEF AsioSteps, AsioAll
<1>3. \A k \in 0 .. 8 : Got(WasapiSteps, k) \subseteq WasapiAll
  BY <1>1 DEF Got
<1>4. Got(WasapiSteps, 8) = WasapiAll
  BY DEF Got, WasapiSteps, WasapiAll
<1>5. \A k \in 0 .. 5 : Got(AsioSteps, k) \subseteq AsioAll \ {"buffers"}
  BY <1>2 DEF Got
<1>6. Got(AsioSteps, 6) = AsioAll
  BY DEF Got, AsioSteps, AsioAll
<1> QED
  BY <1>1, <1>2, <1>3, <1>4, <1>5, <1>6

(* The same for CoreAudio, in both modes. *)
LEMMA CoreaudioStepsGot ==
    /\ Len(CoreaudioSteps) \in Nat
    /\ \A k \in 0 .. Len(CoreaudioSteps) : Got(CoreaudioSteps, k) \subseteq CoreaudioAll
    /\ Got(CoreaudioSteps, Len(CoreaudioSteps)) = CoreaudioAll
<1>1. CASE kind = "coreaudio hog"
  <2>1. CoreaudioSteps = <<"hog", "mixing", "conversion", "ring", "ioproc">>
    BY <1>1 DEF CoreaudioSteps
  <2>2. CoreaudioAll = {"hog", "mixing", "conversion", "ring", "ioproc"}
    BY <1>1 DEF CoreaudioAll
  <2>3. /\ Len(CoreaudioSteps) = 5
        /\ \A i \in 1 .. 5 : CoreaudioSteps[i] \in CoreaudioAll
    BY <2>1, <2>2
  <2>4. Got(CoreaudioSteps, 5) = CoreaudioAll
    BY <2>1, <2>2 DEF Got
  <2>5. \A k \in 0 .. 5 : Got(CoreaudioSteps, k) \subseteq CoreaudioAll
    BY <2>3 DEF Got
  <2> QED
    BY <2>3, <2>4, <2>5
<1>2. CASE kind # "coreaudio hog"
  <2>1. CoreaudioSteps = <<"ring", "unit">> /\ CoreaudioAll = {"ring", "unit"}
    BY <1>2 DEF CoreaudioSteps, CoreaudioAll
  <2>2. /\ Len(CoreaudioSteps) = 2
        /\ \A i \in 1 .. 2 : CoreaudioSteps[i] \in CoreaudioAll
    BY <2>1
  <2>3. Got(CoreaudioSteps, 2) = CoreaudioAll
    BY <2>1 DEF Got
  <2>4. \A k \in 0 .. 2 : Got(CoreaudioSteps, k) \subseteq CoreaudioAll
    BY <2>2 DEF Got
  <2> QED
    BY <2>2, <2>3, <2>4
<1> QED
  BY <1>1, <1>2

-----------------------------------------------------------------------------
(* The types of what is not a queue. *)
Types ==
    /\ kind \in AllKinds
    /\ call \in {"new", "created", "starting", "ready", "failed", "cancel", "join",
                 "halt", "stopped", "dispose", "free", "closed"}
    /\ state \in {"STOPPED", "PLAYING", "PAUSED"}
    /\ res \subseteq Resources
    /\ running \in BOOLEAN /\ drained \in BOOLEAN
    /\ worker \in {"none", "idle", "in", "ready", "begin", "wait", "room", "read",
                   "render", "dead"}
    /\ event \in BOOLEAN /\ stop_event \in BOOLEAN /\ stranded \in BOOLEAN
    /\ oversize \in BOOLEAN
    /\ call \in {"new", "created"} => ~running

(* Whatever create gets is a resource the model knows. *)
LEMMA WasapiGets == \A k \in 0 .. Len(WasapiSteps) : Got(WasapiSteps, k) \subseteq Resources
BY StepsGot DEF WasapiAll, Resources

(* The number of a step of create is the last or an earlier one. *)
LEMMA UpToSix == \A k \in 0 .. 6 : k \in 0 .. 5 \/ k = 6
OBVIOUS

(* As for WASAPI. *)
LEMMA AsioGets == \A k \in 0 .. Len(AsioSteps) : Got(AsioSteps, k) \subseteq Resources
BY UpToSix, StepsGot DEF AsioAll, Resources

(* As for WASAPI. *)
LEMMA CoreaudioGets ==
    \A k \in 0 .. Len(CoreaudioSteps) : Got(CoreaudioSteps, k) \subseteq Resources
<1>1. CoreaudioAll \subseteq Resources
  BY DEF CoreaudioAll, Resources
<1> QED
  BY <1>1, CoreaudioStepsGot

(* The types, step by step: WASAPI. *)
LEMMA WasapiTypes ==
    ASSUME Types, WasapiNext, UNCHANGED oversize
    PROVE  Types'
<1> USE DEF Types, commonVars, owner, deviceVars, workerVars, wasapiVars
<1>1. CASE WasapiCreate
  BY <1>1, WasapiGets DEF WasapiCreate
<1>2. CASE WasapiStart
  BY <1>2 DEF WasapiStart, Resources
<1>3. CASE WasapiStarted
  BY <1>3 DEF WasapiStarted
<1>4. CASE WasapiPause
  BY <1>4 DEF WasapiPause, PauseClock, Owner
<1>5. CASE WasapiResume
  BY <1>5 DEF WasapiResume, ResumeClock, Owner
<1>6. CASE WasapiStop
  BY <1>6 DEF WasapiStop
<1>7. CASE WasapiCancel
  BY <1>7 DEF WasapiCancel
<1>8. CASE WasapiJoin
  BY <1>8 DEF WasapiJoin
<1>9. CASE WasapiClose
  BY <1>9 DEF WasapiClose
<1>10. CASE ThreadBegin
  BY <1>10 DEF ThreadBegin
<1>11. CASE ThreadStops
  BY <1>11 DEF ThreadStops
<1>12. CASE ThreadWakes
  BY <1>12 DEF ThreadWakes
<1>13. CASE ThreadNeeds
  BY <1>13 DEF ThreadNeeds
<1>14. CASE ThreadReads
  BY <1>14 DEF ThreadReads
<1>15. CASE ThreadRenders
  BY <1>15 DEF ThreadRenders
<1>16. CASE EnginePeriod
  BY <1>16 DEF EnginePeriod
<1> QED
  BY <1>1, <1>2, <1>3, <1>4, <1>5, <1>6, <1>7, <1>8, <1>9, <1>10, <1>11, <1>12,
     <1>13, <1>14, <1>15, <1>16 DEF WasapiNext, WasapiOwner, ThreadStep

(* CoreAudio. *)
LEMMA CoreaudioTypes ==
    ASSUME Types, CoreaudioNext, UNCHANGED wasapiVars
    PROVE  Types'
<1> USE DEF Types, commonVars, owner, deviceVars, workerVars, wasapiVars
<1>1. CASE CoreaudioCreate
  BY <1>1, CoreaudioGets DEF CoreaudioCreate
<1>2. CASE CoreaudioStart
  BY <1>2 DEF CoreaudioStart
<1>3. CASE CoreaudioPause
  BY <1>3 DEF CoreaudioPause, PauseClock, Owner
<1>4. CASE CoreaudioResume
  BY <1>4 DEF CoreaudioResume, ResumeClock, Owner
<1>5. CASE CoreaudioStop
  BY <1>5 DEF CoreaudioStop
<1>6. CASE CoreaudioHalt
  BY <1>6 DEF CoreaudioHalt
<1>7. CASE CoreaudioDispose
  BY <1>7 DEF CoreaudioDispose
<1>8. CASE CoreaudioFree
  BY <1>8 DEF CoreaudioFree
<1>9. CASE CallbackBegins
  BY <1>9 DEF CallbackBegins
<1>10. CASE CallbackReads
  BY <1>10 DEF CallbackReads
<1>11. CASE CallbackSilent
  BY <1>11 DEF CallbackSilent
<1> QED
  BY <1>1, <1>2, <1>3, <1>4, <1>5, <1>6, <1>7, <1>8, <1>9, <1>10, <1>11 DEF
     CoreaudioNext, CoreaudioOwner, CallbackReturns

(* ASIO. *)
LEMMA AsioTypes ==
    ASSUME Types, AsioNext, UNCHANGED <<wasapiVars, oversize>>
    PROVE  Types'
<1> USE DEF Types, commonVars, owner, deviceVars, workerVars, wasapiVars
<1>1. CASE AsioCreate
  BY <1>1, AsioGets DEF AsioCreate
<1>2. CASE AsioStart
  BY <1>2 DEF AsioStart
<1>3. CASE AsioPause
  BY <1>3 DEF AsioPause, PauseClock, Owner
<1>4. CASE AsioResume
  BY <1>4 DEF AsioResume, ResumeClock, Owner
<1>5. CASE AsioStop
  BY <1>5 DEF AsioStop
<1>6. CASE AsioCancel
  BY <1>6 DEF AsioCancel
<1>7. CASE AsioDeactivate
  BY <1>7 DEF AsioDeactivate
<1>8. CASE AsioDispose
  BY <1>8 DEF AsioDispose
<1>9. CASE AsioFree
  BY <1>9 DEF AsioFree
<1>10. CASE SwitchBegins
  BY <1>10 DEF SwitchBegins
<1>11. CASE SwitchRenders
  BY <1>11 DEF SwitchRenders
<1>12. CASE SwitchReturns
  BY <1>12 DEF SwitchReturns
<1> QED
  BY <1>1, <1>2, <1>3, <1>4, <1>5, <1>6, <1>7, <1>8, <1>9, <1>10, <1>11, <1>12
     DEF AsioNext, AsioOwner

(* Every step of the composition keeps the types. *)
LEMMA TypesStep ==
    ASSUME Types, OutNext
    PROVE  Types'
<1> USE DEF Types, commonVars, owner, deviceVars, workerVars, wasapiVars
<1>1. ASSUME NEW n \in 1 .. MaxRequest, Write(n), UNCHANGED <<wasapiVars, oversize>>
      PROVE  Types'
  BY <1>1 DEF Write, Owner
<1>2. CASE Writing /\ UNCHANGED <<wasapiVars, oversize>>
  BY <1>2 DEF Writing
<1>3. CASE Drain /\ UNCHANGED <<wasapiVars, oversize>>
  <2>1. drained' \in BOOLEAN
    BY <1>3 DEF Drain
  <2> QED
    BY <1>3, <2>1 DEF Drain, Owner
<1> QED
  BY <1>1, <1>2, <1>3, WasapiTypes, CoreaudioTypes, AsioTypes DEF OutNext

(* No more calls are refused than the bound allows. *)
LEMMA FaultsCounted ==
    ASSUME faults \in 0 .. MaxFaults, OutNext
    PROVE  faults' \in 0 .. MaxFaults
<1> USE DEF commonVars, owner, deviceVars, workerVars, wasapiVars
<1>1. WasapiOwner => Fault \/ UNCHANGED faults
  BY DEF WasapiOwner, WasapiCreate, WasapiStart, WasapiStarted, WasapiPause,
     WasapiResume, PauseClock, ResumeClock, WasapiStop, WasapiCancel, WasapiJoin,
     WasapiClose
<1>2. ThreadStep \/ EnginePeriod => Fault \/ UNCHANGED faults
  BY DEF ThreadStep, ThreadBegin, ThreadStops, ThreadWakes, ThreadNeeds,
     ThreadReads, ThreadRenders, EnginePeriod
<1>3. CoreaudioNext => Fault \/ UNCHANGED faults
  BY DEF CoreaudioNext, CoreaudioOwner, CoreaudioCreate, CoreaudioStart,
     CoreaudioPause, CoreaudioResume, PauseClock, ResumeClock, CoreaudioStop,
     CoreaudioHalt, CoreaudioDispose, CoreaudioFree, CallbackBegins,
     CallbackReturns, CallbackReads, CallbackSilent
<1>4. AsioNext => Fault \/ UNCHANGED faults
  BY DEF AsioNext, AsioOwner, AsioCreate, AsioStart, AsioPause, AsioResume,
     PauseClock, ResumeClock, AsioStop, AsioCancel, AsioDeactivate, AsioDispose,
     AsioFree, SwitchBegins, SwitchRenders, SwitchReturns
<1>5. (\E n \in 1 .. MaxRequest : Write(n)) \/ Writing \/ Drain => UNCHANGED faults
  BY DEF Write, Writing, Drain
<1>6. Fault \/ UNCHANGED faults
  BY <1>1, <1>2, <1>3, <1>4, <1>5 DEF OutNext, WasapiNext
<1>7. MaxFaults \in Nat
  BY DeviceAssumption
<1> QED
  BY <1>6, <1>7 DEF Fault
-----------------------------------------------------------------------------
(* The queues after the ring: a device is never handed more than it has room
   for.  In exclusive mode nobody asks; there an event not yet seen, or a
   round of the thread it began, stands for one buffer the engine has played. *)
InRound == worker \in {"room", "read", "render"}

FitsShared ==
    /\ Len(device) <= DeviceFrames
    /\ worker \in {"read", "render"} => needed <= DeviceFrames - Len(device)

FitsExclusive ==
    /\ Len(device) <= 2 * DeviceFrames
    /\ event \/ InRound => Len(device) <= DeviceFrames
    /\ event /\ InRound => Len(device) = 0
    /\ worker \in {"read", "render"} => needed = DeviceFrames

FitsCoreaudio ==
    /\ Len(device) <= DeviceFrames
    /\ worker = "in" => device = << >>

FitsAsio ==
    /\ Len(device) <= 2 * DeviceFrames
    /\ worker = "in" => Len(device) <= DeviceFrames

Fits ==
    /\ kind = "wasapi shared" => FitsShared
    /\ kind = "wasapi exclusive" => FitsExclusive
    /\ IsCoreaudio => FitsCoreaudio
    /\ IsAsio => FitsAsio

(* The queues outside the ring, and where they may hold something. *)
Shape ==
    /\ device \in Seq(Nat) /\ held \in Seq(Nat)
    /\ needed \in 0 .. DeviceFrames
    /\ call \in {"new", "created"} => device = << >> /\ worker \in {"none", "idle"}
    /\ worker # "render" => held = << >>
    /\ worker = "render" => Len(held) = needed
    /\ worker \in {"room", "read", "render"} => IsWasapi
    /\ Fits

(* The invariant about the data. *)
Queues == RingInv /\ Types /\ Shape /\ EveryFrameOnce

(* What the assumptions say of the sizes. *)
LEMMA Sizes ==
    /\ DeviceFrames \in Nat \ {0} /\ MaxRequest \in Nat /\ DeviceFrames <= MaxRequest
    /\ 2 * DeviceFrames \in Nat
BY DeviceAssumption, RingAssumption

(* EveryFrameOnce looks at the queues after the ring only. *)
LEMMA QuietKeeps ==
    ASSUME EveryFrameOnce, UNCHANGED <<device, held, heard, gone, delivered>>
    PROVE  EveryFrameOnce'
BY DEF EveryFrameOnce

(* The lemmas about the queues ask for no more than their types. *)
LEMMA QueuesTyped == Queues => QueueType
BY DEF Queues, QueueType, Shape, RingInv, TypeOK

(* Nothing is held, nothing is counted. *)
LEMMA LenOfNone == Len(<< >>) = 0
BY EmptySeq

(* With less in the device, what fitted fits. *)
LEMMA LessFits ==
    ASSUME Queues, UNCHANGED <<kind, needed, event, worker>>,
           device' = device \/ device' = << >>
    PROVE  Fits'
<1>1. Len(device) \in Nat /\ Len(device') \in Nat /\ Len(device') <= Len(device)
  BY LenOfNone, LenProperties DEF Queues, Shape
<1>2. /\ FitsShared /\ needed \in Nat => FitsShared'
      /\ FitsCoreaudio => FitsCoreaudio'
      /\ FitsAsio => FitsAsio'
  BY <1>1, Sizes DEF FitsShared, FitsCoreaudio, FitsAsio
<1>4. /\ Len(device) <= 2 * DeviceFrames => Len(device') <= 2 * DeviceFrames
      /\ Len(device) <= DeviceFrames => Len(device') <= DeviceFrames
      /\ Len(device) = 0 => Len(device') = 0
  BY <1>1, Sizes
<1>3. FitsExclusive => FitsExclusive'
  BY <1>4 DEF FitsExclusive, InRound
<1>5. needed \in Nat
  BY Sizes DEF Queues, Shape
<1> QED
  BY <1>2, <1>3, <1>5 DEF Queues, Shape, Fits, IsCoreaudio, IsAsio

(* The device holds no more than it has space for. *)
LEMMA DeviceFits == Queues => Len(device) <= DeviceSpace
<1> SUFFICES ASSUME Queues PROVE Len(device) <= DeviceSpace
  OBVIOUS
<1>1. CASE kind = "wasapi shared"
  <2>1. DeviceSpace = DeviceFrames
    BY <1>1 DEF DeviceSpace
  <2> QED
    BY <1>1, <2>1 DEF Queues, Shape, Fits, FitsShared
<1>2. CASE kind = "wasapi exclusive"
  BY <1>2 DEF Queues, Shape, Fits, FitsExclusive, DeviceSpace
<1>3. CASE IsCoreaudio
  <2>1. DeviceSpace = DeviceFrames
    BY <1>3 DEF DeviceSpace, IsCoreaudio
  <2> QED
    BY <1>3, <2>1 DEF Queues, Shape, Fits, FitsCoreaudio
<1>4. CASE IsAsio
  BY <1>4 DEF Queues, Shape, Fits, FitsAsio, DeviceSpace, IsAsio
<1> QED
  BY <1>1, <1>2, <1>3, <1>4 DEF Queues, Types, AllKinds, IsCoreaudio, IsAsio

(* Nor would it with what the thread is about to hand over. *)
LEMMA HeldFits == Queues => Len(device) + Len(held) <= DeviceSpace
<1> SUFFICES ASSUME Queues PROVE Len(device) + Len(held) <= DeviceSpace
  OBVIOUS
<1>1. Len(device) \in Nat /\ Len(held) \in Nat
  BY LenProperties DEF Queues, Shape
<1>2. CASE worker # "render"
  <2>1. Len(held) = 0
    BY <1>2, LenOfNone DEF Queues, Shape
  <2> QED
    BY <1>1, <2>1, DeviceFits
<1>3. CASE worker = "render" /\ kind = "wasapi shared"
  <2>1. DeviceSpace = DeviceFrames
    BY <1>3 DEF DeviceSpace
  <2>2. Len(held) = needed /\ FitsShared
    BY <1>3 DEF Queues, Shape, Fits
  <2>3. needed <= DeviceFrames - Len(device)
    BY <1>3, <2>2 DEF FitsShared
  <2> QED
    BY <1>1, <2>1, <2>2, <2>3, Sizes
<1>4. CASE worker = "render" /\ kind = "wasapi exclusive"
  <2>1. DeviceSpace = 2 * DeviceFrames
    BY <1>4 DEF DeviceSpace
  <2>2. Len(held) = needed /\ FitsExclusive
    BY <1>4 DEF Queues, Shape, Fits
  <2>3. needed = DeviceFrames /\ Len(device) <= DeviceFrames
    BY <1>4, <2>2 DEF FitsExclusive, InRound
  <2> QED
    BY <1>1, <2>1, <2>2, <2>3, Sizes
<1>5. worker = "render" => kind \in {"wasapi shared", "wasapi exclusive"}
  BY DEF Queues, Shape, IsWasapi
<1> QED
  BY <1>2, <1>3, <1>4, <1>5

(* What the control functions leave alone. *)
LEMMA OwnerQuiet ==
    ASSUME \/ WasapiCreate \/ WasapiStarted \/ WasapiPause \/ WasapiResume
           \/ WasapiStop \/ WasapiCancel
           \/ CoreaudioCreate \/ CoreaudioStart \/ CoreaudioPause \/ CoreaudioResume
           \/ CoreaudioStop \/ CoreaudioFree
           \/ AsioCreate \/ AsioPause \/ AsioResume \/ AsioStop \/ AsioCancel
           \/ AsioDeactivate \/ AsioFree
    PROVE  UNCHANGED <<kind, device, held, heard, gone, delivered>>
<1> USE DEF commonVars, owner, deviceVars, workerVars, wasapiVars, vars, Cancel
<1>1. CASE \/ WasapiCreate \/ WasapiStarted \/ WasapiPause \/ WasapiResume
           \/ WasapiStop \/ WasapiCancel
  BY <1>1 DEF WasapiCreate, WasapiStarted, WasapiPause, WasapiResume, PauseClock,
              ResumeClock, WasapiStop, WasapiCancel
<1>2. CASE \/ CoreaudioCreate \/ CoreaudioStart \/ CoreaudioPause \/ CoreaudioResume
           \/ CoreaudioStop \/ CoreaudioFree
  BY <1>2 DEF CoreaudioCreate, CoreaudioStart, CoreaudioPause, CoreaudioResume,
              PauseClock, ResumeClock, CoreaudioStop, CoreaudioFree
<1>3. CASE \/ AsioCreate \/ AsioPause \/ AsioResume \/ AsioStop \/ AsioCancel
           \/ AsioDeactivate \/ AsioFree
  BY <1>3 DEF AsioCreate, AsioPause, AsioResume, PauseClock, ResumeClock, AsioStop,
              AsioCancel, AsioDeactivate, AsioFree
<1> QED
  BY <1>1, <1>2, <1>3

(* The control functions of WASAPI. *)
LEMMA WasapiOwnerQueues ==
    ASSUME Queues, WasapiOwner
    PROVE  Shape' /\ EveryFrameOnce'
<1> USE DEF commonVars, owner, deviceVars, workerVars, wasapiVars
<1>1. CASE \/ WasapiCreate \/ WasapiStarted \/ WasapiPause \/ WasapiResume
           \/ WasapiStop \/ WasapiCancel
  <2>1. UNCHANGED <<kind, device, held, heard, gone, delivered>>
    BY <1>1, OwnerQuiet
  <2>2. /\ UNCHANGED <<worker, needed, event>>
        /\ call' \in {"new", "created"} => call \in {"new", "created"}
    BY <1>1 DEF WasapiCreate, WasapiStarted, WasapiPause, WasapiResume, PauseClock,
                ResumeClock, WasapiStop, WasapiCancel
  <2>3. Shape'
    BY <2>1, <2>2 DEF Queues, Shape, Fits, FitsShared, FitsExclusive, FitsCoreaudio,
                      FitsAsio, InRound, IsWasapi, IsCoreaudio, IsAsio
  <2> QED
    BY <2>1, <2>3, QuietKeeps DEF Queues
<1>2. CASE WasapiStart
  <2>1. /\ UNCHANGED <<kind, held, heard, gone, delivered, needed, event>>
        /\ device = << >> /\ worker \in {"none", "idle"}
        /\ call' \notin {"new", "created"}
        /\ \/ UNCHANGED <<worker, device>>
           \/ /\ worker' = "begin"
              /\ kind = "wasapi exclusive" => device' = Silence(DeviceFrames)
              /\ kind # "wasapi exclusive" => UNCHANGED device
    BY <1>2 DEF WasapiStart, Queues, Shape, vars
  <2>2. CASE UNCHANGED device
    <3>1. Shape'
      BY <2>1, <2>2 DEF Queues, Shape, Fits, FitsShared, FitsExclusive, FitsCoreaudio,
                        FitsAsio, InRound, IsWasapi, IsCoreaudio, IsAsio
    <3> QED
      BY <2>1, <2>2, <3>1, QuietKeeps DEF Queues
  <2>3. CASE device' = Silence(DeviceFrames) /\ worker' = "begin" /\ kind = "wasapi exclusive"
    <3>1. /\ device' \in Seq(Nat) /\ Len(device') = DeviceFrames
          /\ EveryFrameOnce'
      BY <2>1, <2>3, Sizes, QueuesTyped, SilenceKeeps DEF Queues
    <3>4. Len(device') <= DeviceFrames /\ Len(device') <= 2 * DeviceFrames
      BY <3>1, Sizes
    <3>2. FitsExclusive'
      BY <2>3, <3>4 DEF FitsExclusive, InRound
    <3>3. Shape'
      BY <2>1, <2>3, <3>1, <3>2
      DEF Queues, Shape, Fits, IsWasapi, IsCoreaudio, IsAsio
    <3> QED
      BY <3>1, <3>3
  <2> QED
    BY <2>1, <2>2, <2>3
<1>3. CASE WasapiJoin \/ WasapiClose
  <2>1. /\ UNCHANGED <<kind, held, delivered, needed, event, worker>>
        /\ call' \notin {"new", "created"}
        /\ Drops \/ UNCHANGED <<device, heard, gone>>
    BY <1>3 DEF WasapiJoin, WasapiClose, vars
  <2>2. EveryFrameOnce' /\ (device' = device \/ device' = << >>)
    BY <2>1, QueuesTyped, DropsKeeps, QuietKeeps DEF Queues
  <2>5. Fits'
    BY <2>1, <2>2, LessFits
  <2>6. Shape'
    BY <2>1, <2>2, <2>5, EmptySeq DEF Queues, Shape, IsWasapi
  <2> QED
    BY <2>2, <2>6
<1> QED
  BY <1>1, <1>2, <1>3 DEF WasapiOwner

(* The consumer thread and the audio engine. *)
LEMMA ThreadQueues ==
    ASSUME Queues, ThreadStep \/ EnginePeriod
    PROVE  Shape' /\ EveryFrameOnce'
<1> USE DEF commonVars, owner, deviceVars, workerVars, wasapiVars
<1>1. CASE ThreadBegin \/ ThreadStops \/ ThreadWakes \/ ThreadNeeds
  <2>1. UNCHANGED <<kind, call, device, held, heard, gone, delivered>>
    BY <1>1 DEF ThreadBegin, ThreadStops, ThreadWakes, ThreadNeeds, vars
  <2>2. CASE ThreadBegin \/ ThreadStops \/ ThreadWakes
    <3>1. /\ UNCHANGED needed
          /\ worker \in {"begin", "wait"} /\ IsWasapi
          /\ \/ worker' \in {"wait", "dead"} /\ UNCHANGED event
             \/ worker' = "room" /\ event = TRUE /\ event' = FALSE
      BY <2>2 DEF ThreadBegin, ThreadStops, ThreadWakes, Thread, Queues, Types
    <3>4. FitsShared => FitsShared'
      BY <2>1, <3>1 DEF FitsShared
    <3>5. FitsExclusive => FitsExclusive'
      BY <2>1, <3>1 DEF FitsExclusive, InRound
    <3>2. Fits'
      BY <2>1, <3>1, <3>4, <3>5 DEF Queues, Shape, Fits, IsWasapi, IsCoreaudio, IsAsio
    <3>3. Shape'
      BY <2>1, <3>1, <3>2 DEF Queues, Shape, IsWasapi
    <3> QED
      BY <2>1, <3>3, QuietKeeps DEF Queues
  <2>3. CASE ThreadNeeds
    <3>1. /\ UNCHANGED event
          /\ worker = "room" /\ IsWasapi
          /\ worker' = (IF needed' = 0 THEN "wait" ELSE "read")
          /\ needed' = FramesNeeded \/ (kind = "wasapi shared" /\ needed' = 0)
      BY <2>3 DEF ThreadNeeds, Thread
    <3>2. Len(device) \in Nat
      BY LenProperties DEF Queues, Shape
    <3>3. /\ needed' \in 0 .. DeviceFrames
          /\ kind = "wasapi shared" => needed' <= DeviceFrames - Len(device)
          /\ kind = "wasapi exclusive" => needed' = DeviceFrames
      <4>1. kind = "wasapi shared" => Len(device) <= DeviceFrames
        BY DEF Queues, Shape, Fits, FitsShared
      <4>2. CASE kind = "wasapi shared"
        <5>1. FramesNeeded = DeviceFrames - Len(device)
          BY <4>2 DEF FramesNeeded
        <5>2. FramesNeeded \in 0 .. DeviceFrames /\ 0 \in 0 .. DeviceFrames
              /\ 0 <= DeviceFrames - Len(device)
          <6>1. Len(device) <= DeviceFrames
            BY <4>1, <4>2
          <6> QED
            BY <3>2, <5>1, <6>1, Sizes
        <5>3. FramesNeeded <= DeviceFrames - Len(device)
          BY <3>2, <5>1, Sizes
        <5> QED
          BY <3>1, <4>2, <5>2, <5>3
      <4>3. CASE kind = "wasapi exclusive"
        <5>1. FramesNeeded = DeviceFrames
          BY <4>3 DEF FramesNeeded
        <5>2. needed' = DeviceFrames
          BY <3>1, <4>3, <5>1
        <5>3. DeviceFrames \in 0 .. DeviceFrames
          BY Sizes
        <5> QED
          BY <4>3, <5>2, <5>3
      <4> QED
        BY <3>1, <4>2, <4>3 DEF IsWasapi
    <3>6. Fits'
      BY <2>1, <3>1, <3>3 DEF Queues, Shape, Fits, FitsShared, FitsExclusive, InRound,
                              IsWasapi, IsCoreaudio, IsAsio
    <3>7. Shape'
      BY <2>1, <3>1, <3>3, <3>6 DEF Queues, Shape, IsWasapi
    <3> QED
      BY <2>1, <3>7, QuietKeeps DEF Queues
  <2> QED
    BY <1>1, <2>2, <2>3
<1>2. CASE ThreadReads
  <2>1. /\ UNCHANGED <<kind, call, device, heard, gone, needed, event>>
        /\ worker = "read" /\ worker' = "render" /\ IsWasapi
        /\ held = << >>
        /\ Read(needed) /\ held' = Padded(output', needed)
    BY <1>2 DEF ThreadReads, Thread, Queues, Shape
  <2>2. needed \in 0 .. MaxRequest
    BY Sizes DEF Queues, Shape
  <2>3. held' \in Seq(Nat) /\ Len(held') = needed /\ EveryFrameOnce'
    BY <2>1, <2>2, QueuesTyped, ReadKeepsHeld DEF Queues
  <2>4. Shape'
    BY <2>1, <2>3 DEF Queues, Shape, Fits, FitsShared, FitsExclusive, InRound,
                      IsWasapi, IsCoreaudio, IsAsio
  <2> QED
    BY <2>3, <2>4
<1>3. CASE ThreadRenders
  <2>1. /\ UNCHANGED <<kind, call, heard, delivered, needed, event>>
        /\ worker = "render" /\ worker' = "wait" /\ IsWasapi
        /\ held' = << >>
        /\ \/ /\ device' = IF needed <= Room THEN device \o held ELSE device
              /\ UNCHANGED gone
           \/ gone' = gone \cup Frames(held) /\ UNCHANGED device
    BY <1>3 DEF ThreadRenders, Thread, vars
  <2>2. /\ Len(device) \in Nat /\ Len(held) = needed /\ needed \in Nat
        /\ kind = "wasapi shared" => needed <= DeviceFrames - Len(device)
        /\ kind = "wasapi exclusive" => needed = DeviceFrames /\ Len(device) <= DeviceFrames
        /\ kind = "wasapi exclusive" /\ event => Len(device) = 0
    BY <2>1, LenProperties, Sizes DEF Queues, Shape, Fits, FitsShared, FitsExclusive, InRound
  <2>3. needed <= Room
    <3>1. CASE kind = "wasapi shared"
      BY <2>2, <3>1, Sizes DEF Room, DeviceSpace
    <3>2. CASE kind = "wasapi exclusive"
      <4>1. Room = 2 * DeviceFrames - Len(device)
        BY <3>2 DEF Room, DeviceSpace
      <4>2. Len(device) \in Nat /\ needed = DeviceFrames /\ Len(device) <= DeviceFrames
        BY <2>2, <3>2
      <4> QED
        BY <4>1, <4>2, Sizes
    <3> QED
      BY <2>1, <3>1, <3>2 DEF IsWasapi
  <2>4. CASE device' = device \o held /\ UNCHANGED gone
    <3>1. /\ device' \in Seq(Nat) /\ Len(device') = Len(device) + Len(held)
          /\ EveryFrameOnce'
      BY <2>1, <2>4, QueuesTyped, HandsOverKeeps DEF Queues
    <3>2. ASSUME kind = "wasapi shared" PROVE Fits'
      <4>1. FitsShared'
        <5>1. Len(device) \in Nat /\ needed <= DeviceFrames - Len(device) /\ needed \in Nat
          BY <2>2, <3>2
        <5>2. Len(device') <= DeviceFrames
          <6>1. Len(device') = Len(device) + needed
            BY <2>2, <3>1
          <6> QED
            BY <5>1, <6>1, Sizes
        <5> QED
          BY <2>1, <5>2 DEF FitsShared
      <4> QED
        BY <2>1, <3>2, <4>1 DEF Fits, IsCoreaudio, IsAsio
    <3>5. ASSUME kind = "wasapi exclusive" PROVE Fits'
      <4>1. Len(device') <= 2 * DeviceFrames /\ (event => Len(device') <= DeviceFrames)
        <5>1. needed = DeviceFrames /\ Len(device) <= DeviceFrames /\ Len(device) \in Nat
          BY <2>2, <3>5
        <5>2. Len(device') = Len(device) + DeviceFrames
          BY <2>2, <3>1, <5>1
        <5>3. Len(device') <= 2 * DeviceFrames
          BY <5>1, <5>2, Sizes
        <5>4. Len(device) = 0 => Len(device') <= DeviceFrames
          BY <5>2, Sizes
        <5> QED
          BY <2>2, <3>5, <5>3, <5>4
      <4>2. FitsExclusive'
        BY <2>1, <4>1 DEF FitsExclusive, InRound
      <4> QED
        BY <2>1, <3>5, <4>2 DEF Fits, IsCoreaudio, IsAsio
    <3>3. Fits'
      BY <2>1, <3>2, <3>5 DEF IsWasapi
    <3>4. Shape'
      BY <2>1, <3>1, <3>3 DEF Queues, Shape
    <3> QED
      BY <3>1, <3>4
  <2>5. CASE gone' = gone \cup Frames(held) /\ UNCHANGED device
    <3>1. EveryFrameOnce'
      BY <2>1, <2>5, QueuesTyped, LosesKeeps DEF Queues
    <3>3. Fits'
      BY <2>1, <2>5 DEF Queues, Shape, Fits, FitsShared, FitsExclusive, InRound,
                        IsWasapi, IsCoreaudio, IsAsio
    <3>4. Shape'
      BY <2>1, <2>5, <3>3, EmptySeq DEF Queues, Shape
    <3> QED
      BY <3>1, <3>4
  <2> QED
    BY <2>1, <2>3, <2>4, <2>5
<1>4. CASE EnginePeriod
  <2>1. /\ UNCHANGED <<kind, call, held, gone, delivered, needed, worker>>
        /\ event' = TRUE /\ IsWasapi
        /\ \E n \in 1 .. DeviceFrames :
              /\ Plays(n)
              /\ kind = "wasapi exclusive" => n = DeviceFrames
    <3>1. DeviceFrames \in 1 .. DeviceFrames
      BY Sizes
    <3> QED
      BY <1>4, <3>1 DEF EnginePeriod, vars
  <2>2. PICK n \in 1 .. DeviceFrames :
              Plays(n) /\ (kind = "wasapi exclusive" => n = DeviceFrames)
    BY <2>1
  <2>3. /\ device' \in Seq(Nat)
        /\ Len(device') = Len(device) - Smaller(n, Len(device))
        /\ EveryFrameOnce'
    <3>1. QueueType /\ EveryFrameOnce /\ n \in Nat
      BY QueuesTyped, Sizes DEF Queues
    <3>2. UNCHANGED <<held, gone, delivered>>
      BY <2>1
    <3> QED
      BY <2>2, <3>1, <3>2, PlaysKeeps
  <2>4. Len(device) \in Nat /\ Len(device') \in Nat /\ Len(device') <= Len(device)
    BY <2>3, LenProperties, Sizes DEF Queues, Shape, Smaller
  <2>5. ASSUME kind = "wasapi exclusive" PROVE Fits'
    <3>1. FitsExclusive /\ n = DeviceFrames
      BY <2>2, <2>5 DEF Queues, Shape, Fits
    <3>2. /\ Len(device) <= DeviceFrames => Len(device') = 0
          /\ Len(device) <= 2 * DeviceFrames => Len(device') <= DeviceFrames
      BY <2>3, <2>4, <3>1, Sizes DEF Smaller
    <3>4. Len(device') <= DeviceFrames /\ Len(device') <= 2 * DeviceFrames
      BY <2>4, <3>1, <3>2, Sizes DEF FitsExclusive
    <3>3. FitsExclusive'
      BY <2>1, <3>1, <3>2, <3>4 DEF FitsExclusive, InRound
    <3> QED
      BY <2>1, <2>5, <3>3 DEF Fits, IsCoreaudio, IsAsio
  <2>9. ASSUME kind = "wasapi shared" PROVE Fits'
    <3>2. FitsShared
      BY <2>9 DEF Queues, Shape, Fits
    <3>3. needed \in Nat
      BY Sizes DEF Queues, Shape
    <3>4. /\ Len(device) <= DeviceFrames => Len(device') <= DeviceFrames
          /\ needed <= DeviceFrames - Len(device) => needed <= DeviceFrames - Len(device')
      BY <2>4, <3>3, Sizes
    <3>1. FitsShared'
      BY <2>1, <3>2, <3>4 DEF FitsShared
    <3> QED
      BY <2>1, <2>9, <3>1 DEF Fits, IsCoreaudio, IsAsio
  <2>6. Fits'
    BY <2>1, <2>5, <2>9 DEF IsWasapi
  <2>7. call \notin {"new", "created"} \/ device' = << >>
    <3>1. CASE call \in {"new", "created"}
      <4>1. Len(device) = 0
        BY <3>1, LenOfNone DEF Queues, Shape
      <4>2. Len(device') = 0
        BY <2>4, <4>1
      <4> QED
        BY <2>3, <4>2, EmptySeq
    <3> QED
      BY <3>1
  <2>8. Shape'
    BY <2>1, <2>3, <2>6, <2>7 DEF Queues, Shape, IsWasapi
  <2> QED
    BY <2>3, <2>8
<1> QED
  BY <1>1, <1>2, <1>3, <1>4 DEF ThreadStep

(* Where the callbacks of CoreAudio and of ASIO leave their device. *)
LEMMA CoreaudioQueues ==
    ASSUME Queues, CoreaudioNext, UNCHANGED wasapiVars
    PROVE  Shape' /\ EveryFrameOnce'
<1> USE DEF commonVars, owner, deviceVars, workerVars, wasapiVars
<1>1. IsCoreaudio
  BY DEF CoreaudioNext, CoreaudioOwner, CoreaudioCreate, CoreaudioStart, CoreaudioPause,
         CoreaudioResume, CoreaudioStop, CoreaudioHalt, CoreaudioDispose, CoreaudioFree,
         CallbackBegins, CallbackReturns, CallbackReads, CallbackSilent
<1>2. worker \notin {"room", "read", "render"} /\ held = << >> /\ FitsCoreaudio
  BY <1>1 DEF Queues, Shape, Fits, IsCoreaudio, IsWasapi
<1>3. ASSUME UNCHANGED <<kind, held, needed, event>>, device' \in Seq(Nat), FitsCoreaudio',
             worker' \notin {"room", "read", "render"},
             call' \in {"new", "created"} => device' = << >> /\ worker' \in {"none", "idle"}
      PROVE  Shape'
  BY <1>1, <1>2, <1>3 DEF Queues, Shape, Fits, IsCoreaudio, IsWasapi, IsAsio
<1>4. CASE \/ CoreaudioCreate \/ CoreaudioStart \/ CoreaudioPause \/ CoreaudioResume
           \/ CoreaudioStop \/ CoreaudioFree
  <2>1. UNCHANGED <<kind, device, held, heard, gone, delivered>>
    BY <1>4, OwnerQuiet
  <2>2. /\ UNCHANGED worker \/ worker' = "idle"
        /\ call' \in {"new", "created"} => call \in {"new", "created"}
    BY <1>4 DEF CoreaudioCreate, CoreaudioStart, CoreaudioPause, CoreaudioResume,
                PauseClock, ResumeClock, CoreaudioStop, CoreaudioFree
  <2>3. FitsCoreaudio'
    BY <1>2, <2>1, <2>2 DEF FitsCoreaudio
  <2>4. Shape'
    BY <1>2, <1>3, <2>1, <2>2, <2>3 DEF Queues, Shape
  <2> QED
    BY <2>1, <2>4, QuietKeeps DEF Queues
<1>5. CASE CoreaudioHalt \/ CoreaudioDispose
  <2>1. /\ UNCHANGED <<kind, held, delivered, worker>>
        /\ call' \notin {"new", "created"}
        /\ Drops \/ UNCHANGED <<device, heard, gone>>
    BY <1>5 DEF CoreaudioHalt, CoreaudioDispose, vars
  <2>2. EveryFrameOnce' /\ (device' = device \/ device' = << >>)
    BY <2>1, QueuesTyped, DropsKeeps, QuietKeeps DEF Queues
  <2>3. Fits' /\ IsCoreaudio'
    BY <1>1, <2>1, <2>2, LessFits DEF IsCoreaudio
  <2>4. FitsCoreaudio' /\ device' \in Seq(Nat)
    BY <2>2, <2>3, EmptySeq DEF Fits, Queues, Shape
  <2>5. Shape'
    BY <1>2, <1>3, <2>1, <2>4
  <2> QED
    BY <2>2, <2>5
<1>6. CASE CallbackBegins
  <2>1. /\ UNCHANGED <<kind, call, held, gone, delivered>>
        /\ Plays(Len(device)) /\ worker = "idle" /\ worker' = "in"
    BY <1>6 DEF CallbackBegins, vars
  <2>2. Len(device) \in Nat
    BY LenProperties DEF Queues, Shape
  <2>3. /\ device' \in Seq(Nat) /\ Len(device') = Len(device) - Smaller(Len(device), Len(device))
        /\ EveryFrameOnce'
    BY <2>1, <2>2, QueuesTyped, PlaysKeeps DEF Queues
  <2>4. Len(device') = 0
    BY <2>2, <2>3 DEF Smaller
  <2>5. device' = << >>
    BY <2>3, <2>4, EmptySeq
  <2>6. FitsCoreaudio'
    BY <2>4, <2>5, Sizes DEF FitsCoreaudio
  <2>7. call \notin {"new", "created"}
    BY <1>6 DEF CallbackBegins, Queues, Types
  <2>8. Shape'
    BY <1>3, <2>1, <2>3, <2>6, <2>7
  <2> QED
    BY <2>3, <2>8
<1>7. CASE CallbackReads
  <2>1. /\ UNCHANGED <<kind, call, held, heard, gone>>
        /\ worker = "in" /\ worker' = "idle"
        /\ \E n \in 1 .. DeviceFrames : Read(n) /\ device' = Padded(output', n)
    BY <1>7 DEF CallbackReads
  <2>2. PICK n \in 1 .. DeviceFrames : Read(n) /\ device' = Padded(output', n)
    BY <2>1
  <2>3. n \in 0 .. MaxRequest /\ n <= DeviceFrames /\ n \in Nat
    BY Sizes
  <2>4. device = << >>
    BY <1>2, <2>1 DEF FitsCoreaudio
  <2>5. Padded(output', n) \in Seq(Nat)
    BY <2>2, <2>3, ReadPads DEF Queues
  <2>6. device' = device \o Padded(output', n)
    BY <2>2, <2>4, <2>5, ConcatEmptySeq
  <2>7. /\ device' \in Seq(Nat) /\ Len(device') = Len(device) + n /\ EveryFrameOnce'
    BY <1>2, <2>1, <2>2, <2>3, <2>6, QueuesTyped, ReadKeepsDevice DEF Queues
  <2>8. Len(device') <= DeviceFrames
    BY <2>3, <2>4, <2>7, LenOfNone
  <2>9. FitsCoreaudio'
    BY <2>1, <2>8 DEF FitsCoreaudio
  <2>10. call \notin {"new", "created"}
    BY <2>1 DEF Queues, Shape
  <2>11. Shape'
    BY <1>3, <2>1, <2>7, <2>9, <2>10
  <2> QED
    BY <2>7, <2>11
<1>8. CASE CallbackSilent
  <2>1. /\ UNCHANGED <<kind, call, held, heard, gone, delivered>>
        /\ worker = "in" /\ worker' = "idle"
        /\ device' = Silence(DeviceFrames)
    BY <1>8 DEF CallbackSilent, vars
  <2>2. device = << >>
    BY <1>2, <2>1 DEF FitsCoreaudio
  <2>3. /\ device' \in Seq(Nat) /\ Len(device') = DeviceFrames /\ EveryFrameOnce'
    BY <2>1, <2>2, QueuesTyped, SilenceKeeps, Sizes DEF Queues
  <2>4. FitsCoreaudio'
    BY <2>1, <2>3, Sizes DEF FitsCoreaudio
  <2>5. call \notin {"new", "created"}
    BY <2>1 DEF Queues, Shape
  <2>6. Shape'
    BY <1>3, <2>1, <2>3, <2>4, <2>5
  <2> QED
    BY <2>3, <2>6
<1> QED
  BY <1>4, <1>5, <1>6, <1>7, <1>8 DEF CoreaudioNext, CoreaudioOwner, CallbackReturns

(* The same for ASIO, whose device holds two buffers. *)
LEMMA AsioQueues ==
    ASSUME Queues, AsioNext, UNCHANGED wasapiVars
    PROVE  Shape' /\ EveryFrameOnce'
<1> USE DEF commonVars, owner, deviceVars, workerVars, wasapiVars
<1>1. IsAsio
  BY DEF AsioNext, AsioOwner, AsioCreate, AsioStart, AsioPause, AsioResume, AsioStop,
         AsioCancel, AsioDeactivate, AsioDispose, AsioFree, SwitchBegins, SwitchRenders,
         SwitchReturns
<1>2. worker \notin {"room", "read", "render"} /\ held = << >> /\ FitsAsio
  BY <1>1 DEF Queues, Shape, Fits, IsAsio, IsWasapi
<1>3. ASSUME UNCHANGED <<kind, held, needed, event>>, device' \in Seq(Nat), FitsAsio',
             worker' \notin {"room", "read", "render"},
             call' \in {"new", "created"} => device' = << >> /\ worker' \in {"none", "idle"}
      PROVE  Shape'
  BY <1>1, <1>2, <1>3 DEF Queues, Shape, Fits, IsCoreaudio, IsWasapi, IsAsio
<1>4. CASE \/ AsioCreate \/ AsioPause \/ AsioResume \/ AsioStop \/ AsioCancel
           \/ AsioDeactivate \/ AsioFree
  <2>1. UNCHANGED <<kind, device, held, heard, gone, delivered>>
    BY <1>4, OwnerQuiet
  <2>2. /\ UNCHANGED worker \/ worker' = "idle"
        /\ call' \in {"new", "created"} => call \in {"new", "created"}
    BY <1>4 DEF AsioCreate, AsioPause, AsioResume, PauseClock, ResumeClock, AsioStop,
                AsioCancel, AsioDeactivate, AsioFree
  <2>3. FitsAsio'
    BY <1>2, <2>1, <2>2 DEF FitsAsio
  <2>4. Shape'
    BY <1>2, <1>3, <2>1, <2>2, <2>3 DEF Queues, Shape
  <2> QED
    BY <2>1, <2>4, QuietKeeps DEF Queues
<1>5. CASE AsioDispose \/ SwitchReturns
  <2>1. /\ UNCHANGED <<kind, held, delivered>>
        /\ UNCHANGED worker \/ worker' = "idle"
        /\ call' \in {"new", "created"} => call \in {"new", "created"} /\ UNCHANGED device
        /\ Drops \/ UNCHANGED <<device, heard, gone>>
    BY <1>5 DEF AsioDispose, SwitchReturns, vars
  <2>2. EveryFrameOnce' /\ (device' = device \/ device' = << >>)
    BY <2>1, QueuesTyped, DropsKeeps, QuietKeeps DEF Queues
  <2>3. Len(device) \in Nat /\ Len(device') <= Len(device) /\ Len(device') \in Nat
    BY <2>2, LenOfNone, LenProperties DEF Queues, Shape
  <2>6. /\ Len(device) <= 2 * DeviceFrames => Len(device') <= 2 * DeviceFrames
        /\ Len(device) <= DeviceFrames => Len(device') <= DeviceFrames
    BY <2>3, Sizes
  <2>7. FitsAsio'
    BY <1>2, <2>1, <2>6 DEF FitsAsio
  <2>4. FitsAsio' /\ device' \in Seq(Nat)
    BY <2>2, <2>7, EmptySeq DEF Queues, Shape
  <2>5. Shape'
    BY <1>2, <1>3, <2>1, <2>4 DEF Queues, Shape
  <2> QED
    BY <2>2, <2>5
<1>6. CASE AsioStart
  <2>1. /\ UNCHANGED <<kind, held, heard, gone, delivered, worker>>
        /\ device = << >> /\ worker \in {"none", "idle"}
        /\ call' \notin {"new", "created"}
        /\ device' = Silence(2 * DeviceFrames)
    BY <1>6 DEF AsioStart, vars, Queues, Shape
  <2>2. /\ device' \in Seq(Nat) /\ Len(device') = 2 * DeviceFrames /\ EveryFrameOnce'
    BY <2>1, QueuesTyped, SilenceKeeps, Sizes DEF Queues
  <2>3. FitsAsio'
    BY <2>1, <2>2, Sizes DEF FitsAsio
  <2>4. Shape'
    BY <1>3, <2>1, <2>2, <2>3
  <2> QED
    BY <2>2, <2>4
<1>7. CASE SwitchBegins
  <2>1. /\ UNCHANGED <<kind, call, held, gone, delivered>>
        /\ Plays(DeviceFrames) /\ worker = "idle"
        /\ worker' \in {"in", "idle"}
        /\ worker' = "in" => "g_active_output" \in res
    BY <1>7 DEF SwitchBegins, vars
  <2>2. Len(device) \in Nat
    BY LenProperties DEF Queues, Shape
  <2>3. /\ device' \in Seq(Nat) /\ Len(device') = Len(device) - Smaller(DeviceFrames, Len(device))
        /\ EveryFrameOnce'
    BY <2>1, QueuesTyped, PlaysKeeps, Sizes DEF Queues
  <2>4. Len(device') <= DeviceFrames /\ Len(device') <= Len(device) /\ Len(device') \in Nat
    BY <1>2, <2>2, <2>3, Sizes DEF FitsAsio, Smaller
  <2>5. FitsAsio'
    BY <2>4, Sizes DEF FitsAsio
  <2>6. call \notin {"new", "created"}
    BY <1>7 DEF SwitchBegins, Queues, Types
  <2>7. Shape'
    BY <1>3, <2>1, <2>3, <2>5, <2>6
  <2> QED
    BY <2>3, <2>7
<1>8. CASE SwitchRenders
  <2>1. /\ UNCHANGED <<kind, call, held, heard, gone>>
        /\ worker = "in" /\ worker' = "ready"
        /\ Read(DeviceFrames) /\ device' = device \o Padded(output', DeviceFrames)
    BY <1>8 DEF SwitchRenders
  <2>2. DeviceFrames \in 0 .. MaxRequest /\ Len(device) \in Nat /\ Len(device) <= DeviceFrames
    BY <1>2, <2>1, Sizes, LenProperties DEF FitsAsio, Queues, Shape
  <2>3. /\ device' \in Seq(Nat) /\ Len(device') = Len(device) + DeviceFrames
        /\ EveryFrameOnce'
    BY <1>2, <2>1, <2>2, QueuesTyped, ReadKeepsDevice DEF Queues
  <2>4. FitsAsio'
    BY <2>1, <2>2, <2>3, Sizes DEF FitsAsio
  <2>5. call \notin {"new", "created"}
    BY <2>1 DEF Queues, Shape
  <2>6. Shape'
    BY <1>3, <2>1, <2>3, <2>4, <2>5
  <2> QED
    BY <2>3, <2>6
<1> QED
  BY <1>4, <1>5, <1>6, <1>7, <1>8 DEF AsioNext, AsioOwner

(* The ring sees nothing but its own operations, with sizes it allows. *)
LEMMA StepIsRing ==
    ASSUME Queues, OutNext
    PROVE  [Next]_vars
<1> USE DEF commonVars, owner, deviceVars, workerVars, wasapiVars
<1>1. CASE WasapiOwner
  BY <1>1 DEF WasapiOwner, WasapiCreate, WasapiStart, WasapiStarted, WasapiPause,
     WasapiResume, PauseClock, ResumeClock, WasapiStop, WasapiCancel, WasapiJoin,
     WasapiClose, Next
<1>2. CASE ThreadStep \/ EnginePeriod
  <2>1. needed \in 0 .. MaxRequest
    BY Sizes DEF Queues, Shape
  <2> QED
    BY <1>2, <2>1 DEF ThreadStep, ThreadBegin, ThreadStops, ThreadWakes, ThreadNeeds,
       ThreadReads, ThreadRenders, EnginePeriod, Next
<1>3. CASE CoreaudioOwner \/ CallbackBegins \/ CallbackSilent
  BY <1>3 DEF CoreaudioOwner, CoreaudioCreate, CoreaudioStart, CoreaudioPause,
     CoreaudioResume, PauseClock, ResumeClock, CoreaudioStop, CoreaudioHalt,
     CoreaudioDispose, CoreaudioFree, CallbackBegins, CallbackSilent, Next
<1>4. CASE CallbackReads
  <2>1. \A n \in 1 .. DeviceFrames : n \in 0 .. MaxRequest
    BY Sizes
  <2> QED
    BY <1>4, <2>1 DEF CallbackReads, Next
<1>5. CASE AsioOwner \/ SwitchBegins \/ SwitchReturns
  BY <1>5 DEF AsioOwner, AsioCreate, AsioStart, AsioPause, AsioResume, PauseClock,
     ResumeClock, AsioStop, AsioCancel, AsioDeactivate, AsioDispose, AsioFree,
     SwitchBegins, SwitchReturns, Next
<1>6. CASE SwitchRenders
  <2>1. DeviceFrames \in 0 .. MaxRequest
    BY Sizes
  <2> QED
    BY <1>6, <2>1 DEF SwitchRenders, Next
<1>7. CASE (\E n \in 1 .. MaxRequest : Write(n)) \/ Writing \/ Drain
  <2>1. \A n \in 1 .. MaxRequest : n \in 0 .. MaxRequest
    BY Sizes
  <2> QED
    BY <1>7, <2>1 DEF Write, Writing, Drain, Next
<1> QED
  BY <1>1, <1>2, <1>3, <1>4, <1>5, <1>6, <1>7
  DEF OutNext, WasapiNext, CoreaudioNext, AsioNext, CallbackReturns

(* What the writer does within the ring moves no frame out of it. *)
LEMMA WriterQueues ==
    ASSUME Queues, (\E n \in 1 .. MaxRequest : Write(n)) \/ Writing \/ Drain,
           UNCHANGED <<wasapiVars, oversize>>
    PROVE  Shape' /\ EveryFrameOnce'
<1> USE DEF commonVars, owner, deviceVars, workerVars, wasapiVars
<1>1. /\ UNCHANGED <<kind, call, device, held, heard, gone, worker, needed, event>>
      /\ UNCHANGED delivered
  BY DEF Write, Writing, Drain, WriteCall, WriterStep, WriteLock, WriteReturn, WriteWait,
         WriteChunk, SpuriousWake, vars
<1>2. Fits'
  BY <1>1, LessFits
<1>3. Shape'
  BY <1>1, <1>2 DEF Queues, Shape, IsWasapi
<1> QED
  BY <1>1, <1>3, QuietKeeps DEF Queues

(* Queues is inductive. *)
LEMMA QueuesStep == Queues /\ [OutNext]_outVars => Queues'
<1> SUFFICES ASSUME Queues, [OutNext]_outVars
             PROVE  Queues'
  OBVIOUS
<1>1. CASE OutNext
  <2>1. RingInv'
    BY <1>1, StepIsRing, StepInv DEF Queues
  <2>2. Types'
    BY <1>1, TypesStep DEF Queues
  <2>3. Shape' /\ EveryFrameOnce'
    BY <1>1, WasapiOwnerQueues, ThreadQueues, CoreaudioQueues, AsioQueues, WriterQueues
    DEF OutNext, WasapiNext
  <2> QED
    BY <2>1, <2>2, <2>3 DEF Queues
<1>2. CASE UNCHANGED outVars
  <2> USE <1>2 DEF outVars, commonVars, wasapiVars
  <2>1. RingInv'
    BY StepInv DEF Queues
  <2>2. Types'
    BY DEF Queues, Types
  <2>3. Shape'
    BY DEF Queues, Shape, Fits, FitsShared, FitsExclusive, FitsCoreaudio, FitsAsio,
           InRound, IsWasapi, IsCoreaudio, IsAsio
  <2>4. EveryFrameOnce'
    <3>1. UNCHANGED <<device, held, heard, gone, delivered>>
      BY DEF vars
    <3> QED
      BY <3>1, QuietKeeps DEF Queues
  <2> QED
    BY <2>1, <2>2, <2>3, <2>4 DEF Queues
<1> QED
  BY <1>1, <1>2

(* It holds in the beginning. *)
LEMMA QueuesInit == OutInit => Queues
<1> SUFFICES ASSUME OutInit PROVE Queues
  OBVIOUS
<1> USE DEF OutInit, CommonInit, WasapiInit, CoreaudioInit
<1>1. RingInv
  BY InitInv
<1>2. Types
  BY KindsAssumption DEF Types, AllKinds
<1>3. Shape
  <2>1. << >> \in Seq(Nat) /\ Len(<< >>) = 0
    BY EmptySeq
  <2>2. 0 \in 0 .. DeviceFrames /\ 0 <= DeviceFrames /\ 0 <= 2 * DeviceFrames
    BY Sizes
  <2> QED
    BY <2>1, <2>2 DEF Shape, Fits, FitsShared, FitsExclusive, FitsCoreaudio, FitsAsio, InRound
<1>4. EveryFrameOnce
  <2>1. Frames(device) = {} /\ Frames(held) = {} /\ InOrder(device) /\ InOrder(held)
    BY FramesOfNone
  <2>2. heard = {} /\ gone = {} /\ delivered = 0
    BY DEF Init
  <2>3. 1 .. 0 = {}
    OBVIOUS
  <2> QED
    BY <2>1, <2>2, <2>3 DEF EveryFrameOnce
<1> QED
  BY <1>1, <1>2, <1>3, <1>4 DEF Queues

(* And so in every state. *)
LEMMA QueuesAlways == OutSpec => []Queues
BY QueuesInit, QueuesStep, PTL DEF OutSpec

(* Whichever back end is in use, what the ring is asked to do is what a ring
   buffer is for: the composition of ring, worker, device and player runs no
   operation of the ring that RingBuffer does not have, and with no size that
   RingBuffer does not allow. *)
THEOREM OutputUsesTheRing == OutSpec => Spec
<1>1. OutInit => Init
  BY DEF OutInit, CommonInit
<1>2. Queues /\ [OutNext]_outVars => [Next]_vars
  BY StepIsRing DEF outVars
<1> QED
  BY <1>1, <1>2, QueuesAlways, PTL DEF OutSpec, Spec

(* What was proved of the ring alone therefore holds of it here. *)
THEOREM OutputQueueIsFifo == OutSpec => ImplementsFifo
BY OutputUsesTheRing, RingImplementsFifo, PTL

(* A write of the player sleeps only while the ring is full. *)
THEOREM OutputLosesNoWakeup == OutSpec => []NoLostWakeup
BY OutputUsesTheRing, NoWakeupIsLost, PTL

(* Every frame taken from the ring is played once and in order, or was dropped
   by a stop or by a refusal of the system, for every size of the device's
   buffer, in both modes of WASAPI, both of CoreAudio and with ASIO. *)
THEOREM FramesOnce == OutSpec => []EveryFrameOnce
<1>1. Queues => EveryFrameOnce
  BY DEF Queues
<1> QED
  BY <1>1, QueuesAlways, PTL
-----------------------------------------------------------------------------
(* Where each function stands in the life of an output: what it owns then, and
   whether somebody may still be at work. *)
OwnerLife ==
    /\ call # "ready" => pc = "idle"
    /\ call = "ready" => state # "STOPPED"
    /\ call \in {"new", "created", "starting", "failed"} => state = "STOPPED"
    /\ worker = "none" => IsWasapi \/ ~running
    /\ call = "new" => worker = "none" /\ res = {} /\ ~running

Extra == {"stop_event", "thread"}

WasapiLife ==
    /\ worker \in {"none", "begin", "wait", "room", "read", "render", "dead"}
    /\ call \in {"new", "created", "starting", "ready", "failed", "cancel", "join",
                 "stopped", "closed"}
    /\ call \in {"new", "created"} => ~stranded /\ worker = "none"
    /\ call = "created" => res = WasapiAll
    /\ call \in {"starting", "ready", "cancel", "join"} => res = WasapiAll \cup Extra
    /\ call \in {"failed", "stopped", "closed"} =>
          /\ res \subseteq WasapiAll \cup (IF stranded THEN Extra ELSE {})
          /\ worker \in {"none", "dead"} \/ stranded
    /\ call = "closed" => ~running /\ res \cap WasapiAll = {}

CoreaudioLife ==
    /\ worker \in {"none", "idle", "in"}
    /\ call \in {"new", "created", "ready", "failed", "halt", "stopped", "free", "closed"}
    /\ res \subseteq CoreaudioAll
    /\ call \in {"created", "ready", "failed", "halt"} => worker # "none"
    /\ call \notin {"free", "closed"} /\ worker # "none" =>
          "ring" \in res /\ (kind = "coreaudio hog" => "conversion" \in res)
    /\ call \in {"free", "closed"} =>
          ~running /\ worker # "in" /\ res \cap {"ioproc", "unit"} = {}
    /\ call = "closed" => res = {}

AsioLife ==
    /\ worker \in {"none", "idle", "in", "ready"}
    /\ call \in {"new", "created", "ready", "failed", "cancel", "stopped", "dispose",
                 "free", "closed"}
    /\ res \subseteq AsioAll
    /\ call \in {"created", "ready", "failed", "cancel"} => worker # "none"
    /\ call \notin {"free", "closed"} /\ worker # "none" =>
          {"com", "driver", "conversion", "ring", "buffers"} \subseteq res
    /\ call = "dispose" => "g_active_output" \notin res
    /\ call \in {"free", "closed"} =>
          /\ ~running /\ worker \in {"none", "idle"}
          /\ res \cap {"buffers", "g_active_output"} = {}
    /\ call = "closed" => res = {}

(* The invariant about the calls. *)
Life ==
    /\ OwnerLife
    /\ IsWasapi => WasapiLife
    /\ IsCoreaudio => CoreaudioLife
    /\ IsAsio => AsioLife
    /\ ~IsWasapi => ~stranded

(* Life is inductive: the control functions and the thread of WASAPI. *)
LEMMA WasapiLives ==
    ASSUME Queues, Life, WasapiNext, UNCHANGED oversize
    PROVE  Life'
<1> USE DEF Life, OwnerLife, WasapiLife, IsWasapi, IsCoreaudio, IsAsio,
     commonVars, owner, deviceVars, workerVars, wasapiVars
<1>1. CASE WasapiCreate
  BY <1>1, StepsGot DEF WasapiCreate, vars
<1>2. CASE WasapiStart
  BY <1>2, StepsGot DEF WasapiStart, WasapiAll, Extra, vars
<1>3. CASE WasapiStarted
  BY <1>3 DEF WasapiStarted, vars
<1>4. CASE WasapiPause
  BY <1>4 DEF WasapiPause, PauseClock, Owner, vars
<1>5. CASE WasapiResume
  BY <1>5 DEF WasapiResume, ResumeClock, Owner, vars
<1>6. CASE WasapiStop
  BY <1>6 DEF WasapiStop, vars
<1>7. CASE WasapiCancel
  BY <1>7 DEF WasapiCancel, Cancel, Wake, vars
<1>8. CASE WasapiJoin
  BY <1>8, StepsGot DEF WasapiJoin, WasapiAll, Extra, vars
<1>9. CASE WasapiClose
  BY <1>9, StepsGot DEF WasapiClose, WasapiAll, Extra, vars
<1>10. CASE ThreadBegin
  BY <1>10 DEF ThreadBegin, Thread, vars
<1>11. CASE ThreadStops
  BY <1>11 DEF ThreadStops, Thread, vars
<1>12. CASE ThreadWakes
  BY <1>12 DEF ThreadWakes, Thread, vars
<1>13. CASE ThreadNeeds
  BY <1>13 DEF ThreadNeeds, Thread, vars
<1>14. CASE ThreadReads
  BY <1>14 DEF ThreadReads, Thread, Read, Wake
<1>15. CASE ThreadRenders
  BY <1>15 DEF ThreadRenders, Thread, vars
<1>16. CASE EnginePeriod
  BY <1>16 DEF EnginePeriod, vars
<1> QED
  BY <1>1, <1>2, <1>3, <1>4, <1>5, <1>6, <1>7, <1>8, <1>9, <1>10, <1>11, <1>12,
     <1>13, <1>14, <1>15, <1>16 DEF WasapiNext, WasapiOwner, ThreadStep

(* CoreAudio. *)
LEMMA CoreaudioLives ==
    ASSUME Queues, Life, CoreaudioNext, UNCHANGED wasapiVars
    PROVE  Life'
<1> USE DEF Life, OwnerLife, CoreaudioLife, CoreaudioAll, IsWasapi, IsCoreaudio, IsAsio,
     commonVars, owner, deviceVars, workerVars, wasapiVars
<1>1. CASE CoreaudioCreate
  BY <1>1, CoreaudioStepsGot DEF CoreaudioCreate, vars
<1>2. CASE CoreaudioStart
  BY <1>2 DEF CoreaudioStart, vars
<1>3. CASE CoreaudioPause
  BY <1>3 DEF CoreaudioPause, PauseClock, Owner, vars
<1>4. CASE CoreaudioResume
  BY <1>4 DEF CoreaudioResume, ResumeClock, Owner, vars
<1>5. CASE CoreaudioStop
  BY <1>5 DEF CoreaudioStop, Cancel, Wake, vars
<1>6. CASE CoreaudioHalt
  BY <1>6 DEF CoreaudioHalt, vars
<1>7. CASE CoreaudioDispose
  BY <1>7 DEF CoreaudioDispose, vars
<1>8. CASE CoreaudioFree
  BY <1>8 DEF CoreaudioFree, vars
<1>9. CASE CallbackBegins
  BY <1>9 DEF CallbackBegins, vars
<1>10. CASE CallbackReads
  BY <1>10 DEF CallbackReads, Read, Wake
<1>11. CASE CallbackSilent
  BY <1>11 DEF CallbackSilent, vars
<1> QED
  BY <1>1, <1>2, <1>3, <1>4, <1>5, <1>6, <1>7, <1>8, <1>9, <1>10, <1>11 DEF
     CoreaudioNext, CoreaudioOwner, CallbackReturns

(* ASIO. *)
LEMMA AsioLives ==
    ASSUME Queues, Life, AsioNext, UNCHANGED <<wasapiVars, oversize>>
    PROVE  Life'
<1> USE DEF Life, OwnerLife, AsioLife, IsWasapi, IsCoreaudio, IsAsio,
     commonVars, owner, deviceVars, workerVars, wasapiVars
<1>1. CASE AsioCreate
  <2>1. /\ call = "new" /\ worker = "none" /\ pc = "idle" /\ ~running /\ IsAsio
        /\ UNCHANGED <<kind, state, pc, running>> /\ state = "STOPPED" /\ ~stranded
        /\ \/ call' = "created" /\ worker' = "idle" /\ res' = AsioAll
           \/ /\ call' = "stopped" /\ worker' = "none"
              /\ res' \subseteq AsioAll \ {"buffers"}
    BY <1>1, StepsGot, UpToSix DEF AsioCreate, vars
  <2> QED
    BY <2>1 DEF AsioAll
<1>2. CASE AsioStart
  BY <1>2 DEF AsioStart, vars
<1>3. CASE AsioPause
  BY <1>3 DEF AsioPause, PauseClock, Owner, vars
<1>4. CASE AsioResume
  BY <1>4 DEF AsioResume, ResumeClock, Owner, vars
<1>5. CASE AsioStop
  BY <1>5 DEF AsioStop, vars
<1>6. CASE AsioCancel
  BY <1>6 DEF AsioCancel, Cancel, Wake, vars
<1>7. CASE AsioDeactivate
  BY <1>7 DEF AsioDeactivate, vars
<1>8. CASE AsioDispose
  BY <1>8 DEF AsioDispose, vars
<1>9. CASE AsioFree
  BY <1>9 DEF AsioFree, AsioAll, vars
<1>10. CASE SwitchBegins
  BY <1>10 DEF SwitchBegins, vars
<1>11. CASE SwitchRenders
  BY <1>11 DEF SwitchRenders, Read, Wake
<1>12. CASE SwitchReturns
  BY <1>12 DEF SwitchReturns, vars
<1> QED
  BY <1>1, <1>2, <1>3, <1>4, <1>5, <1>6, <1>7, <1>8, <1>9, <1>10, <1>11, <1>12
     DEF AsioNext, AsioOwner

(* The writes and the drain of the player. *)
LEMMA WriterLives ==
    ASSUME Queues, Life, (\E n \in 1 .. MaxRequest : Write(n)) \/ Writing \/ Drain,
           UNCHANGED <<wasapiVars, oversize>>
    PROVE  Life'
<1>1. UNCHANGED <<kind, call, state, res, running, worker, stranded>>
  BY DEF Write, Writing, Drain, commonVars, owner, deviceVars, workerVars, wasapiVars
<1>2. call = "ready" \/ pc' = "idle"
  BY DEF Write, Writing, Drain, Owner, WriterStep, WriteLock, WriteReturn, WriteWait,
         WriteChunk, SpuriousWake, vars, Life, OwnerLife
<1>3. OwnerLife'
  BY <1>1, <1>2 DEF Life, OwnerLife, IsWasapi
<1>4. WasapiLife => WasapiLife'
  BY <1>1 DEF WasapiLife
<1>5. CoreaudioLife => CoreaudioLife'
  BY <1>1 DEF CoreaudioLife, CoreaudioAll
<1>6. AsioLife => AsioLife'
  BY <1>1 DEF AsioLife
<1> QED
  BY <1>1, <1>3, <1>4, <1>5, <1>6 DEF Life, IsWasapi, IsCoreaudio, IsAsio

(* Life holds in every state. *)
LEMMA LifeAlways == OutSpec => []Life
<1>1. OutInit => Life
  BY DEF OutInit, CommonInit, WasapiInit, CoreaudioInit, Init, Life, OwnerLife, WasapiLife,
         CoreaudioLife, AsioLife
<1>2. ASSUME Queues, Life, [OutNext]_outVars
      PROVE  Life'
  <2>1. CASE OutNext
    BY <1>2, <2>1, WasapiLives, CoreaudioLives, AsioLives, WriterLives DEF OutNext
  <2>2. CASE UNCHANGED outVars
    BY <1>2, <2>2 DEF outVars, vars, commonVars, wasapiVars, Life, OwnerLife, WasapiLife,
       CoreaudioLife, CoreaudioAll, AsioLife, IsWasapi, IsCoreaudio, IsAsio
  <2> QED
    BY <1>2, <2>1, <2>2
<1> QED
  BY <1>1, <1>2, QueuesAlways, PTL DEF OutSpec

(* What a thread or callback uses is freed after it, in every history of calls
   and refusals, save for the start that failed. *)
THEOREM UsedThenFreed == OutSpec => []FreedLast
<1>1. Queues /\ Life => FreedLast
  <2> SUFFICES ASSUME Queues, Life, worker \notin {"none", "idle", "dead"}, ~stranded
               PROVE  Uses \subseteq res
    BY DEF FreedLast
  <2>1. CASE IsWasapi
    BY <2>1 DEF Life, WasapiLife, WasapiAll, Uses, IsWasapi, IsAsio
  <2>2. CASE IsCoreaudio
    BY <2>2 DEF Life, CoreaudioLife, Uses, IsWasapi, IsAsio, IsCoreaudio
  <2>3. CASE IsAsio
    BY <2>3 DEF Life, AsioLife, Uses, IsWasapi, IsAsio
  <2> QED
    BY <2>1, <2>2, <2>3 DEF Queues, Types, AllKinds, IsWasapi, IsCoreaudio, IsAsio
<1> QED
  BY <1>1, QueuesAlways, LifeAlways, PTL

(* A closed output owns nothing any more. *)
THEOREM ClosedOwnsNothing == OutSpec => []CloseGivesBack
<1>1. Queues /\ Life => CloseGivesBack
  <2> SUFFICES ASSUME Queues, Life, call = "closed"
               PROVE  /\ ~running /\ lock = FALSE
                      /\ res \subseteq IF stranded THEN {"stop_event", "thread"} ELSE {}
    BY DEF CloseGivesBack
  <2>1. lock = FALSE
    BY DEF Life, OwnerLife, Queues, RingInv, TypeOK, LockHeld
  <2>2. CASE IsWasapi
    BY <2>1, <2>2 DEF Life, WasapiLife, Extra
  <2>3. CASE IsCoreaudio
    BY <2>1, <2>3 DEF Life, CoreaudioLife
  <2>4. CASE IsAsio
    BY <2>1, <2>4 DEF Life, AsioLife
  <2> QED
    BY <2>2, <2>3, <2>4 DEF Queues, Types, AllKinds, IsWasapi, IsCoreaudio, IsAsio
<1> QED
  BY <1>1, QueuesAlways, LifeAlways, PTL

(* The configuration is chosen once. *)
LEMMA KindStays == OutNext => kind' = kind
<1> USE DEF commonVars, owner, deviceVars, workerVars
<1>1. WasapiNext => kind' = kind
  BY DEF WasapiNext, WasapiOwner, WasapiCreate, WasapiStart, WasapiStarted,
     WasapiPause, WasapiResume, PauseClock, ResumeClock, WasapiStop, WasapiCancel,
     WasapiJoin, WasapiClose, ThreadStep, ThreadBegin, ThreadStops, ThreadWakes,
     ThreadNeeds, ThreadReads, ThreadRenders, EnginePeriod
<1>2. CoreaudioNext => kind' = kind
  BY DEF CoreaudioNext, CoreaudioOwner, CoreaudioCreate, CoreaudioStart,
     CoreaudioPause, CoreaudioResume, PauseClock, ResumeClock, CoreaudioStop,
     CoreaudioHalt, CoreaudioDispose, CoreaudioFree, CallbackBegins,
     CallbackReturns, CallbackReads, CallbackSilent
<1>3. AsioNext => kind' = kind
  BY DEF AsioNext, AsioOwner, AsioCreate, AsioStart, AsioPause, AsioResume,
     PauseClock, ResumeClock, AsioStop, AsioCancel, AsioDeactivate, AsioDispose,
     AsioFree, SwitchBegins, SwitchRenders, SwitchReturns
<1>4. (\E n \in 1 .. MaxRequest : Write(n)) \/ Writing \/ Drain => kind' = kind
  BY DEF Write, Writing, Drain
<1> QED
  BY <1>1, <1>2, <1>3, <1>4 DEF OutNext

(* The types of all variables, and that no queue is longer than what it models. *)
THEOREM OutputTypes == OutSpec => []OutTypeOK
<1>1. Queues /\ kind \in Kinds /\ faults \in 0 .. MaxFaults => OutTypeOK
  <2> SUFFICES ASSUME Queues, kind \in Kinds, faults \in 0 .. MaxFaults
               PROVE  OutTypeOK
    OBVIOUS
  <2>1. TypeOK /\ heard \subseteq 1 .. delivered /\ gone \subseteq 1 .. delivered
    BY DEF Queues, RingInv, EveryFrameOnce
  <2>2. Len(device) <= DeviceSpace
    BY DeviceFits
  <2>3. Len(held) <= DeviceFrames
    <3>1. CASE worker = "render"
      BY <3>1, Sizes DEF Queues, Shape
    <3>2. CASE worker # "render"
      BY <3>2, LenOfNone, Sizes DEF Queues, Shape
    <3> QED
      BY <3>1, <3>2
  <2>4. device \in Seq(Nat) /\ held \in Seq(Nat) /\ needed \in 0 .. DeviceFrames
    BY DEF Queues, Shape
  <2>5. Types
    BY DEF Queues
  <2> QED
    BY <2>1, <2>2, <2>3, <2>4, <2>5 DEF OutTypeOK, Types
<1>2. OutInit => kind \in Kinds /\ faults \in 0 .. MaxFaults
  BY DeviceAssumption DEF OutInit, CommonInit
<1>3. ASSUME kind \in Kinds, faults \in 0 .. MaxFaults, [OutNext]_outVars
      PROVE  (kind \in Kinds /\ faults \in 0 .. MaxFaults)'
  <2>1. CASE OutNext
    BY <1>3, <2>1, FaultsCounted, KindStays
  <2>2. CASE UNCHANGED outVars
    BY <1>3, <2>2 DEF outVars, commonVars
  <2> QED
    BY <1>3, <2>1, <2>2
<1> QED
  BY <1>1, <1>2, <1>3, QueuesAlways, PTL DEF OutSpec
-----------------------------------------------------------------------------
(* A drain that answered 1 left the ring empty, and until the next write it
   stays so. *)
Quiet == drained => pc = "idle" /\ fill_count = 0

(* What a step may do to the ring while nothing is written. *)
Reading == \E n \in 0 .. MaxRequest : Read(n)

(* A step of the ring that is no write call. *)
RingStep == UNCHANGED vars \/ Cancel \/ Reading \/ WriterStep \/ SpuriousWake

(* Only a drain finds an output drained, and what leaves it so is no write. *)
LEMMA DrainedByDrain ==
    ASSUME Queues, OutNext
    PROVE  drained' = FALSE \/ Drain \/ (drained' = drained /\ RingStep)
<1> USE DEF RingStep, commonVars, owner, deviceVars, workerVars, wasapiVars
<1>1. CASE WasapiOwner
  BY <1>1 DEF WasapiOwner, WasapiCreate, WasapiStart, WasapiStarted, WasapiPause,
     WasapiResume, PauseClock, ResumeClock, WasapiStop, WasapiCancel, WasapiJoin,
     WasapiClose
<1>2. CASE ThreadStep \/ EnginePeriod
  <2>1. needed \in 0 .. MaxRequest
    BY Sizes DEF Queues, Shape
  <2> QED
    BY <1>2, <2>1 DEF ThreadStep, ThreadBegin, ThreadStops, ThreadWakes, ThreadNeeds,
       ThreadReads, ThreadRenders, EnginePeriod, Reading
<1>3. CASE CoreaudioOwner \/ CallbackBegins \/ CallbackSilent
  BY <1>3 DEF CoreaudioOwner, CoreaudioCreate, CoreaudioStart, CoreaudioPause,
     CoreaudioResume, PauseClock, ResumeClock, CoreaudioStop, CoreaudioHalt,
     CoreaudioDispose, CoreaudioFree, CallbackBegins, CallbackSilent
<1>4. CASE CallbackReads
  <2>1. \A n \in 1 .. DeviceFrames : n \in 0 .. MaxRequest
    BY Sizes
  <2> QED
    BY <1>4, <2>1 DEF CallbackReads, Reading
<1>5. CASE AsioOwner \/ SwitchBegins \/ SwitchReturns
  BY <1>5 DEF AsioOwner, AsioCreate, AsioStart, AsioPause, AsioResume, PauseClock,
     ResumeClock, AsioStop, AsioCancel, AsioDeactivate, AsioDispose, AsioFree,
     SwitchBegins, SwitchReturns
<1>6. CASE SwitchRenders
  <2>1. DeviceFrames \in 0 .. MaxRequest
    BY Sizes
  <2> QED
    BY <1>6, <2>1 DEF SwitchRenders, Reading
<1>7. CASE (\E n \in 1 .. MaxRequest : Write(n)) \/ Writing \/ Drain
  BY <1>7 DEF Write, Writing
<1> QED
  BY <1>1, <1>2, <1>3, <1>4, <1>5, <1>6, <1>7
  DEF OutNext, WasapiNext, CoreaudioNext, AsioNext, CallbackReturns

(* Quiet is inductive, given the other two. *)
LEMMA QuietAlways == OutSpec => []Quiet
<1>1. OutInit => Quiet
  BY DEF OutInit, CommonInit, Quiet
<1>2. ASSUME Queues, Life, Quiet, [OutNext]_outVars
      PROVE  Quiet'
  <2>1. CASE drained' = FALSE
    BY <2>1 DEF Quiet
  <2>2. CASE Drain
    BY <2>2 DEF Drain, Owner, Available, Quiet, vars
  <2>3. ASSUME drained' = drained, RingStep, drained
        PROVE  pc' = "idle" /\ fill_count' = 0
    <3>1. pc = "idle" /\ fill_count = 0
      BY <1>2, <2>3 DEF Quiet
    <3>2. CASE Reading
      <4>1. PICK n \in 0 .. MaxRequest : Read(n)
        BY <3>2 DEF Reading
      <4>2. Smaller(n, fill_count) = 0
        BY <3>1, Sizes DEF Smaller
      <4> QED
        BY <3>1, <4>1, <4>2 DEF Read
    <3>3. CASE UNCHANGED vars \/ Cancel \/ WriterStep \/ SpuriousWake
      BY <3>1, <3>3 DEF vars, Cancel, Wake, WriterStep, WriteLock, WriteReturn, WriteWait,
                        WriteChunk, SpuriousWake
    <3> QED
      BY <2>3, <3>2, <3>3 DEF RingStep
  <2>4. CASE UNCHANGED outVars
    BY <1>2, <2>4 DEF outVars, commonVars, vars, Quiet
  <2> QED
    BY <1>2, <2>1, <2>2, <2>3, <2>4, DrainedByDrain DEF Quiet
<1> QED
  BY <1>1, <1>2, QueuesAlways, LifeAlways, PTL DEF OutSpec

(* No more different frames than places. *)
LEMMA FramesCounted ==
    ASSUME NEW s \in Seq(Nat)
    PROVE  IsFiniteSet(Frames(s)) /\ Cardinality(Frames(s)) <= Len(s)
<1>1. Len(s) \in Nat /\ s \in [1 .. Len(s) -> Nat] /\ DOMAIN s = 1 .. Len(s)
  BY LenProperties
<1>2. s \in Surjection(1 .. Len(s), Range(s))
  BY <1>1 DEF Surjection, Range
<1>3. IsFiniteSet(1 .. Len(s)) /\ Cardinality(1 .. Len(s)) = Len(s)
  <2>1. IsFiniteSet(1 .. Len(s))
        /\ Cardinality(1 .. Len(s)) = IF 1 > Len(s) THEN 0 ELSE Len(s) - 1 + 1
    BY <1>1, FS_Interval
  <2> QED
    BY <1>1, <2>1
<1>4. IsFiniteSet(Range(s)) /\ Cardinality(Range(s)) <= Len(s)
  BY <1>2, <1>3, FS_Surjection
<1>5. Frames(s) \in SUBSET Range(s)
  BY DEF Frames
<1>6. IsFiniteSet(Frames(s)) /\ Cardinality(Frames(s)) <= Cardinality(Range(s))
  BY <1>4, <1>5, FS_Subset
<1>7. Cardinality(Frames(s)) \in Nat /\ Cardinality(Range(s)) \in Nat
  BY <1>4, <1>6, FS_CardinalityType
<1> QED
  BY <1>1, <1>4, <1>6, <1>7

(* After a drain that answered 1 a stop cuts off no more than the device's
   buffer holds, although nothing asks the device. *)
THEOREM CutBounded == OutSpec => []CutIsBounded
<1>1. ASSUME Queues, Life, Quiet, drained
      PROVE  Cardinality((1 .. accepted) \ (heard \cup gone)) <= DeviceSpace
  <2> DEFINE left == (1 .. accepted) \ (heard \cup gone)
  <2>1. accepted = delivered
    BY <1>1 DEF Quiet, Queues, RingInv, Contents, TypeOK
  <2>2. left \subseteq Frames(device) \cup Frames(held)
    BY <1>1, <2>1 DEF Queues, EveryFrameOnce
  <2>3. /\ IsFiniteSet(Frames(device)) /\ Cardinality(Frames(device)) <= Len(device)
        /\ IsFiniteSet(Frames(held)) /\ Cardinality(Frames(held)) <= Len(held)
    BY <1>1, FramesCounted DEF Queues, Shape
  <2>4. Frames(device) \cap Frames(held) = {}
    <3>1. \A f \in Frames(device) : f \in Nat
      BY <1>1, FramesOf DEF Queues, Shape
    <3> QED
      BY <1>1, <3>1 DEF Queues, EveryFrameOnce
  <2> DEFINE all == Frames(device) \cup Frames(held)
  <2>5. /\ IsFiniteSet(all)
        /\ Cardinality(all) = Cardinality(Frames(device)) + Cardinality(Frames(held))
    <3>1. /\ IsFiniteSet(all)
          /\ Cardinality(all) = Cardinality(Frames(device)) + Cardinality(Frames(held))
                                  - Cardinality(Frames(device) \cap Frames(held))
      BY <2>3, FS_Union
    <3>2. Cardinality(Frames(device) \cap Frames(held)) = 0
      BY <2>4, FS_EmptySet
    <3>3. Cardinality(Frames(device)) \in Nat /\ Cardinality(Frames(held)) \in Nat
      BY <2>3, FS_CardinalityType
    <3> QED
      BY <3>1, <3>2, <3>3
  <2>6. Cardinality(left) <= Cardinality(all) /\ IsFiniteSet(left)
    BY <2>2, <2>5, FS_Subset
  <2>7. Len(device) + Len(held) <= DeviceSpace
    BY <1>1, HeldFits
  <2>8. /\ Cardinality(left) \in Nat /\ Cardinality(all) \in Nat
        /\ Cardinality(Frames(device)) \in Nat /\ Cardinality(Frames(held)) \in Nat
    BY <2>3, <2>5, <2>6, FS_CardinalityType
  <2>9. Len(device) \in Nat /\ Len(held) \in Nat /\ DeviceSpace \in Nat
    BY <1>1, LenProperties, Sizes DEF Queues, Shape, DeviceSpace
  <2> HIDE DEF left, all
  <2>10. Cardinality(left) <= DeviceSpace
    BY <2>3, <2>5, <2>6, <2>7, <2>8, <2>9
  <2> QED
    BY <2>10 DEF left
<1>2. Queues /\ Life /\ Quiet => CutIsBounded
  BY <1>1 DEF CutIsBounded
<1> QED
  BY <1>2, QueuesAlways, LifeAlways, QuietAlways, PTL
-----------------------------------------------------------------------------
(* Once the output has stopped, what it still held may have been dropped. *)
Ended == call \in {"stopped", "dispose", "free", "closed"}

(* Frames are dropped before the output has stopped, and something is left
   behind by start, only if the system refused a call. *)
LostByRefusal == faults = 0 => ~stranded /\ (gone = {} \/ Ended)

(* The step of an owner or worker that is refused nothing drops no frame, but by
   stopping. *)
LEMMA LossStep ==
    ASSUME faults \in 0 .. MaxFaults, LostByRefusal, OutNext
    PROVE  LostByRefusal'
<1> USE DEF LostByRefusal, Ended, Plays
<1>0. Fault => faults' # 0
  <2>1. MaxFaults \in Nat
    BY DeviceAssumption
  <2> QED
    BY <2>1 DEF Fault
<1>1. CASE WasapiOwner /\ UNCHANGED oversize
  <2> USE DEF commonVars, owner, deviceVars, workerVars, wasapiVars
  <2>1. CASE WasapiCreate
    BY <1>0, <2>1 DEF WasapiCreate
  <2>2. CASE WasapiStart \/ WasapiStarted
    <3>1. CASE WasapiStart
      BY <1>0, <3>1 DEF WasapiStart
    <3>2. CASE WasapiStarted
      BY <1>0, <3>2 DEF WasapiStarted
    <3> QED
      BY <2>2, <3>1, <3>2
  <2>3. CASE WasapiPause \/ WasapiResume \/ WasapiStop \/ WasapiCancel
    BY <1>0, <2>3 DEF WasapiPause, WasapiResume, PauseClock, ResumeClock, WasapiStop,
       WasapiCancel
  <2>4. CASE WasapiJoin \/ WasapiClose
    BY <1>0, <2>4 DEF WasapiJoin, WasapiClose
  <2> QED
    BY <1>1, <2>1, <2>2, <2>3, <2>4 DEF WasapiOwner
<1>2. CASE (ThreadStep \/ EnginePeriod) /\ UNCHANGED oversize
  BY <1>0, <1>2 DEF ThreadStep, ThreadBegin, ThreadStops, ThreadWakes, ThreadNeeds,
     ThreadReads, ThreadRenders, EnginePeriod, owner, deviceVars, workerVars, wasapiVars
<1>3. CASE CoreaudioNext /\ UNCHANGED wasapiVars
  <2> USE DEF commonVars, owner, deviceVars, workerVars, wasapiVars
  <2>1. CASE CoreaudioCreate
    BY <1>0, <1>3, <2>1 DEF CoreaudioCreate
  <2>2. CASE CoreaudioStart \/ CoreaudioPause \/ CoreaudioResume \/ CoreaudioStop
    BY <1>0, <1>3, <2>2 DEF CoreaudioStart, CoreaudioPause, CoreaudioResume, PauseClock,
       ResumeClock, CoreaudioStop
  <2>3. CASE CoreaudioHalt \/ CoreaudioDispose \/ CoreaudioFree
    BY <1>0, <1>3, <2>3 DEF CoreaudioHalt, CoreaudioDispose, CoreaudioFree
  <2>4. CASE CallbackBegins \/ CallbackReturns
    BY <1>0, <1>3, <2>4 DEF CallbackBegins, CallbackReturns, CallbackReads, CallbackSilent
  <2> QED
    BY <1>3, <2>1, <2>2, <2>3, <2>4 DEF CoreaudioNext, CoreaudioOwner
<1>4. CASE AsioNext /\ UNCHANGED <<wasapiVars, oversize>>
  <2> USE DEF commonVars, owner, deviceVars, workerVars, wasapiVars
  <2>1. CASE AsioCreate
    BY <1>0, <1>4, <2>1 DEF AsioCreate
  <2>2. CASE AsioStart \/ AsioPause \/ AsioResume \/ AsioStop \/ AsioCancel
    BY <1>0, <1>4, <2>2 DEF AsioStart, AsioPause, AsioResume, PauseClock, ResumeClock,
       AsioStop, AsioCancel
  <2>3. CASE AsioDeactivate \/ AsioDispose \/ AsioFree
    BY <1>0, <1>4, <2>3 DEF AsioDeactivate, AsioDispose, AsioFree
  <2>4. CASE SwitchBegins \/ SwitchRenders \/ SwitchReturns
    BY <1>0, <1>4, <2>4 DEF SwitchBegins, SwitchRenders, SwitchReturns
  <2> QED
    BY <1>4, <2>1, <2>2, <2>3, <2>4 DEF AsioNext, AsioOwner
<1>5. CASE /\ (\E n \in 1 .. MaxRequest : Write(n)) \/ Writing \/ Drain
           /\ UNCHANGED <<wasapiVars, oversize>>
  BY <1>5 DEF Write, Writing, Drain, commonVars, owner, deviceVars, workerVars, wasapiVars
<1> QED
  BY <1>1, <1>2, <1>3, <1>4, <1>5 DEF OutNext, WasapiNext

(* Whoever plays through WASAPI, CoreAudio or ASIO loses a frame, or leaves a
   thread or a handle behind, only where the system refused a call or by
   stopping; for every size of ring, buffer and request. *)
THEOREM LossNeedsRefusal == OutSpec => []LostByRefusal
<1>1. OutInit => LostByRefusal
  BY DEF OutInit, CommonInit, WasapiInit, LostByRefusal
<1>2. OutTypeOK /\ LostByRefusal /\ [OutNext]_outVars => LostByRefusal'
  <2>1. ASSUME OutTypeOK, LostByRefusal, OutNext PROVE LostByRefusal'
    BY <2>1, LossStep DEF OutTypeOK
  <2>2. ASSUME LostByRefusal, UNCHANGED outVars PROVE LostByRefusal'
    BY <2>2 DEF outVars, commonVars, wasapiVars, LostByRefusal, Ended
  <2> QED
    BY <2>1, <2>2
<1> QED
  BY <1>1, <1>2, OutputTypes, PTL DEF OutSpec

(* Without refusals the only frames that a drained output has not played are the
   last that fit into the device (audio_output.c:54-57). *)
DrainedIsAlmostHeard ==
    faults = 0 /\ drained /\ ~Ended =>
        Cardinality((1 .. accepted) \ heard) <= DeviceSpace

(* What a player that drained and was refused nothing can still miss. *)
THEOREM DrainHearsAllButABuffer == OutSpec => []DrainedIsAlmostHeard
<1>1. LostByRefusal /\ CutIsBounded => DrainedIsAlmostHeard
  <2> SUFFICES ASSUME LostByRefusal, CutIsBounded, faults = 0, drained, ~Ended
               PROVE  Cardinality((1 .. accepted) \ heard) <= DeviceSpace
    BY DEF DrainedIsAlmostHeard
  <2>1. heard \cup gone = heard
    BY DEF LostByRefusal
  <2> QED
    BY <2>1 DEF CutIsBounded
<1> QED
  BY <1>1, LossNeedsRefusal, CutBounded, PTL

(* Then close leaves nothing behind, without exception. *)
THEOREM UnrefusedClosesAll == OutSpec => [](faults = 0 /\ call = "closed" => res = {})
<1>1. LostByRefusal /\ CloseGivesBack => (faults = 0 /\ call = "closed" => res = {})
  BY DEF LostByRefusal, CloseGivesBack
<1> QED
  BY <1>1, LossNeedsRefusal, ClosedOwnsNothing, PTL
=============================================================================
