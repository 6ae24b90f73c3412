-------------------------- MODULE AlsaOutputProofs --------------------------
(***************************************************************************)
(* Proofs about AlsaOutput, for every buffer size, kind of hardware, write *)
(* size and number of faults.                                              *)
(*                                                                         *)
(* AlsaInv is inductive.  Beside the types it says what the queue holds    *)
(* (Held), in which states of the device it is empty (Dry), and how the    *)
(* state of the output follows that of the device although the two change  *)
(* at different times (Agree): a paused output never has a running device, *)
(* also not one that would run again after a suspension.                   *)
(***************************************************************************)
EXTENDS AlsaOutput, SequenceTheorems, TLAPS

PcmType == [status : Statuses, was : Statuses, asleep : BOOLEAN,
            can : Hardware, faults : 0 .. MaxFaults]

OwnType == [pc   : {"idle", "recover", "pause", "resume", "closed"},
            op   : {"none", "write", "drain", "available"},
            code : Statuses \cup {"none", "EPIPE", "ESTRPIPE", "EAGAIN", "other"}]

Types ==
    /\ state \in {"STOPPED", "PLAYING", "PAUSED"}
    /\ pcm \in PcmType
    /\ own \in OwnType
    /\ drain \in {"none", "pending", "done", "resumed", "failed"}

(* The queue holds the last frames written; all before them were played or
   dropped. *)
Held ==
    /\ queue \in Seq(Nat)
    /\ Len(queue) <= BufferFrames
    /\ sent \in 0 .. MaxFrames
    /\ heard \in Nat
    /\ heard + Len(queue) <= sent
    /\ \A i \in 1 .. Len(queue) : queue[i] = sent - Len(queue) + i

(* A device that is not started, has run dry or was stopped holds nothing. *)
Dry ==
    /\ pcm.status \in {"PREPARED", "XRUN", "SETUP"} => queue = << >>
    /\ pcm.status = "SUSPENDED" /\ pcm.was \in {"PREPARED", "XRUN", "SETUP"} => queue = << >>
    /\ state = "STOPPED" => queue = << >>

(* The device does not run while we are paused, nor would it when resumed;
   what a call saw of the device can still be told from it. *)
Agree ==
    /\ state = "PAUSED" =>
          /\ pcm.status # "RUNNING"
          /\ pcm.status = "SUSPENDED" => pcm.was # "RUNNING"
    /\ state = "STOPPED" => pcm.status # "RUNNING"
    /\ state = "STOPPED" /\ pcm.status = "SUSPENDED" => pcm.was # "RUNNING"
    /\ own.pc = "pause" => state = "PLAYING"
    /\ own.pc = "resume" => state = "PAUSED"
    /\ own.pc = "pause" /\ own.code = "PREPARED" =>
          \/ pcm.status \in {"PREPARED", "GONE"}
          \/ pcm.status = "SUSPENDED" /\ pcm.was # "RUNNING"
    /\ own.pc = "pause" /\ own.code = "XRUN" =>
          pcm.status \in {"XRUN", "SUSPENDED", "GONE"}
    /\ own.pc = "recover" => own.code \in {"EPIPE", "ESTRPIPE", "EAGAIN", "other"}
    /\ own.pc = "recover" /\ own.code = "EPIPE" =>
          pcm.status \in {"XRUN", "SUSPENDED", "GONE"}
    /\ own.pc = "recover" /\ own.code = "ESTRPIPE" =>
          pcm.status \in {"SUSPENDED", "GONE"}

AlsaInv == Types /\ Held /\ Dry /\ Agree /\ DrainMeansHeard

(* Every step keeps the types. *)
LEMMA TypesStep ==
    ASSUME Types, [Next]_vars
    PROVE  Types'
<1> USE DEF Types, PcmType, OwnType, Statuses
<1>1. CASE Play
  BY <1>1 DEF Play
<1>2. CASE Underrun
  BY <1>2 DEF Underrun
<1>3. CASE Suspend
  <2>1. pcm.faults \in Nat /\ pcm.faults < MaxFaults
    BY <1>3 DEF Suspend
  <2>2. pcm.faults + 1 \in 0 .. MaxFaults
    BY <2>1, AlsaAssumption
  <2>3. pcm' \in PcmType
    BY <1>3, <2>2 DEF Suspend
  <2> QED
    BY <1>3, <2>3 DEF Suspend
<1>4. CASE Wake
  <2>1. pcm' \in PcmType
    BY <1>4 DEF Wake
  <2> QED
    BY <1>4, <2>1 DEF Wake
<1>5. CASE Unplug
  <2>1. pcm.faults \in Nat /\ pcm.faults < MaxFaults
    BY <1>5 DEF Unplug
  <2>2. pcm.faults + 1 \in 0 .. MaxFaults
    BY <2>1, AlsaAssumption
  <2>3. pcm' \in PcmType
    BY <1>5, <2>2 DEF Unplug
  <2> QED
    BY <1>5, <2>3 DEF Unplug
<1>6. CASE Pause
  BY <1>6 DEF Pause, PauseHardware, Discarded, Untouched, Return, Idle
<1>7. CASE Resume
  BY <1>7 DEF Resume, Untouched, Return, Idle
<1>8. CASE Recover /\ (RecoverUnderrun \/ RecoverSuspended)
  <2>1. sent' = sent /\ heard' = heard /\ state' = state /\ own' = Idle
    BY <1>8
       DEF Recover, RecoverUnderrun, RecoverSuspended, Prepare, Recovered, WrittenAfter, Return
  <2>2. drain' \in {"none", "pending", "done", "resumed", "failed"}
    BY <1>8
       DEF Recover, RecoverUnderrun, RecoverSuspended, Prepare, Recovered, DrainAfter
  <2>4. pcm' \in PcmType
    <3>1. CASE Refused
      <4>1. pcm.faults + 1 \in 0 .. MaxFaults
        BY <3>1, AlsaAssumption DEF Refused
      <4> QED
        BY <3>1, <4>1 DEF Refused
    <3>2. CASE Discarded("PREPARED")
      BY <3>2 DEF Discarded
    <3>3. CASE pcm' = [pcm EXCEPT !.status = pcm.was]
      BY <3>3
    <3> QED
      BY <1>8, <3>1, <3>2, <3>3
         DEF Recover, RecoverUnderrun, RecoverSuspended, Prepare, Untouched
  <2> QED
    BY <2>1, <2>2, <2>4 DEF Idle
<1>10. CASE Recover /\ RecoverOther
  BY <1>10
     DEF Recover, RecoverOther, Recovered, DrainAfter, WrittenAfter, Untouched, Return,
         Idle
<1>11. CASE Start
  BY <1>11 DEF Start, Discarded, Owner, Present
<1>12. CASE Stop
  BY <1>12 DEF Stop, Discarded, Owner, Present
<1>13. CASE Look
  BY <1>13 DEF Look, Owner
<1>14. ASSUME NEW n \in 1 .. MaxWrite, Write(n)
      PROVE  Types'
  BY <1>14 DEF Write, Taken, ErrorCode, Owner
<1>15. CASE Available
  BY <1>15, AlsaAssumption DEF Available, Fails, ErrorCode
<1>16. CASE Drain
  BY <1>16, AlsaAssumption DEF Drain, Fails, ErrorCode
<1>17. CASE Close
  BY <1>17 DEF Close, Discarded, Idle
<1>18. CASE UNCHANGED vars
  BY <1>18 DEF vars
<1> QED
  BY <1>1, <1>2, <1>3, <1>4, <1>5, <1>6, <1>7, <1>8, <1>10, <1>11, <1>12, <1>13,
     <1>14, <1>15, <1>16, <1>17, <1>18
     DEF Next, DeviceStep, Returning, OwnerCall, Recover

(* Every step keeps Dry and Agree. *)
LEMMA DryStep ==
    ASSUME AlsaInv, [Next]_vars
    PROVE  Dry' /\ Agree'
<1> USE DEF AlsaInv, Types, PcmType, OwnType, Statuses, Dry, Agree
<1>1. CASE Play
  BY <1>1 DEF Play
<1>2. CASE Underrun
  BY <1>2 DEF Underrun
<1>3. CASE Suspend
  BY <1>3 DEF Suspend
<1>4. CASE Wake
  BY <1>4 DEF Wake
<1>5. CASE Unplug
  BY <1>5 DEF Unplug
<1>6. CASE Pause
  BY <1>6 DEF Pause, PauseHardware, Discarded, Untouched, Return, Idle
<1>7. CASE Resume
  BY <1>7 DEF Resume, Untouched, Return, Idle
<1>8. CASE Recover /\ RecoverUnderrun
  BY <1>8
     DEF Recover, RecoverUnderrun, Prepare, Refused, Recovered, DrainAfter, WrittenAfter, Discarded,
         Untouched, Return, Idle
<1>9. CASE Recover /\ RecoverSuspended
  BY <1>9
     DEF Recover, RecoverSuspended, Prepare, Refused, Recovered, DrainAfter, WrittenAfter,
         Discarded, Untouched, Return, Idle, Present
<1>10. CASE Recover /\ RecoverOther
  BY <1>10
     DEF Recover, RecoverOther, Recovered, DrainAfter, WrittenAfter, Untouched, Return,
         Idle
<1>11. CASE Start
  BY <1>11 DEF Start, Discarded, Owner, Present
<1>12. CASE Stop
  BY <1>12 DEF Stop, Discarded, Owner, Present
<1>13. CASE Look
  BY <1>13 DEF Look, Owner
<1>14. ASSUME NEW n \in 1 .. MaxWrite, Write(n)
      PROVE  Dry' /\ Agree'
  BY <1>14 DEF Write, Taken, ErrorCode, Owner
<1>15. CASE Available
  BY <1>15 DEF Available, Fails, ErrorCode
<1>16. CASE Drain
  BY <1>16 DEF Drain, Fails, ErrorCode
<1>17. CASE Close
  BY <1>17 DEF Close, Discarded, Idle
<1>18. CASE UNCHANGED vars
  BY <1>18 DEF vars
<1> QED
  BY <1>1, <1>2, <1>3, <1>4, <1>5, <1>6, <1>7, <1>8, <1>9, <1>10, <1>11, <1>12, <1>13,
     <1>14, <1>15, <1>16, <1>17, <1>18
     DEF Next, DeviceStep, Returning, OwnerCall, Recover

(* Every step keeps DrainMeansHeard. *)
LEMMA DrainedStep ==
    ASSUME AlsaInv, [Next]_vars
    PROVE  DrainMeansHeard'
<1> USE DEF AlsaInv, Types, PcmType, OwnType, Dry, Agree, DrainMeansHeard
<1>1. CASE Play
  BY <1>1 DEF Play
<1>2. CASE Underrun
  BY <1>2 DEF Underrun
<1>3. CASE Suspend
  BY <1>3 DEF Suspend
<1>4. CASE Wake
  BY <1>4 DEF Wake
<1>5. CASE Unplug
  BY <1>5 DEF Unplug
<1>6. CASE Pause
  BY <1>6 DEF Pause, PauseHardware, Discarded, Untouched, Return, Idle
<1>7. CASE Resume
  BY <1>7 DEF Resume, Untouched, Return, Idle
<1>8. CASE Recover /\ RecoverUnderrun
  BY <1>8
     DEF Recover, RecoverUnderrun, Prepare, Refused, Recovered, DrainAfter, WrittenAfter, Discarded,
         Untouched, Return, Idle
<1>9. CASE Recover /\ RecoverSuspended
  BY <1>9
     DEF Recover, RecoverSuspended, Prepare, Refused, Recovered, DrainAfter, WrittenAfter,
         Discarded, Untouched, Return, Idle, Present
<1>10. CASE Recover /\ RecoverOther
  BY <1>10
     DEF Recover, RecoverOther, Recovered, DrainAfter, WrittenAfter, Untouched, Return,
         Idle
<1>11. CASE Start
  BY <1>11 DEF Start, Discarded, Owner, Present
<1>12. CASE Stop
  BY <1>12 DEF Stop, Discarded, Owner, Present
<1>13. CASE Look
  BY <1>13 DEF Look, Owner
<1>14. ASSUME NEW n \in 1 .. MaxWrite, Write(n)
      PROVE  DrainMeansHeard'
  BY <1>14 DEF Write, Taken, ErrorCode, Owner
<1>15. CASE Available
  BY <1>15 DEF Available, Fails, ErrorCode
<1>16. CASE Drain
  BY <1>16 DEF Drain, Fails, ErrorCode
<1>17. CASE Close
  BY <1>17 DEF Close, Discarded, Idle
<1>18. CASE UNCHANGED vars
  BY <1>18 DEF vars
<1> QED
  BY <1>1, <1>2, <1>3, <1>4, <1>5, <1>6, <1>7, <1>8, <1>9, <1>10, <1>11, <1>12, <1>13,
     <1>14, <1>15, <1>16, <1>17, <1>18
     DEF Next, DeviceStep, Returning, OwnerCall, Recover

(* What becomes of the queue in a step. *)
Quiet == UNCHANGED <<queue, sent, heard>>

Written ==
    \E n \in 1 .. MaxWrite :
        /\ Len(queue) + n <= BufferFrames
        /\ queue' = queue \o [i \in 1 .. n |-> sent + i]
        /\ sent' = sent + n /\ sent' <= MaxFrames
        /\ heard' = heard

Dropped ==
    /\ queue' = << >>
    /\ UNCHANGED <<sent, heard>>
    /\ \/ queue = << >> \/ state' = "STOPPED" \/ own'.pc = "closed"
       \/ pcm.status = "SUSPENDED"

(* The queue is left alone, played from, written to or dropped. *)
LEMMA Moves ==
    ASSUME AlsaInv, [Next]_vars
    PROVE  Quiet \/ Play \/ Written \/ Dropped
<1> USE DEF Quiet, Dropped, AlsaInv, Types, PcmType, OwnType, Dry, Agree
<1>1. CASE Play
  BY <1>1 DEF Play
<1>2. CASE Underrun
  BY <1>2 DEF Underrun
<1>3. CASE Suspend
  BY <1>3 DEF Suspend
<1>4. CASE Wake
  BY <1>4 DEF Wake
<1>5. CASE Unplug
  BY <1>5 DEF Unplug
<1>6. CASE Pause
  <2>1. own.pc = "pause" /\ sent' = sent /\ heard' = heard
    BY <1>6 DEF Pause
  <2>2. CASE own.code = "XRUN" /\ Present /\ Discarded("PREPARED")
    <3>1. pcm.status \in {"XRUN", "SUSPENDED", "GONE"}
      BY <2>1, <2>2
    <3>2. queue = << >> \/ pcm.status = "SUSPENDED"
      BY <2>2, <3>1 DEF Present
    <3> QED
      BY <2>1, <2>2, <3>2 DEF Discarded
  <2>3. CASE UNCHANGED queue
    BY <2>1, <2>3
  <2> QED
    BY <1>6, <2>2, <2>3 DEF Pause, PauseHardware, Untouched
<1>7. CASE Resume
  BY <1>7 DEF Resume, Untouched, Return, Idle
<1>8. CASE Recover /\ RecoverUnderrun
  <2>1. sent' = sent /\ heard' = heard
    BY <1>8 DEF Recover, RecoverUnderrun, Prepare, Recovered, WrittenAfter
  <2>2. pcm.status \in {"XRUN", "SUSPENDED", "GONE"}
    BY <1>8 DEF Recover, RecoverUnderrun
  <2>5. CASE Refused
    BY <2>1, <2>5 DEF Refused
  <2>3. CASE Untouched
    BY <2>1, <2>3 DEF Untouched
  <2>4. CASE Present /\ Discarded("PREPARED")
    <3>1. queue = << >> \/ pcm.status = "SUSPENDED"
      BY <2>2, <2>4 DEF Present
    <3> QED
      BY <2>1, <2>4, <3>1 DEF Discarded
  <2> QED
    BY <1>8, <2>3, <2>4, <2>5 DEF RecoverUnderrun, Prepare
<1>9. CASE Recover /\ RecoverSuspended
  BY <1>9
     DEF Recover, RecoverSuspended, Prepare, Refused, Recovered, DrainAfter, WrittenAfter,
         Discarded, Untouched, Return, Idle, Present
<1>10. CASE Recover /\ RecoverOther
  BY <1>10
     DEF Recover, RecoverOther, Recovered, DrainAfter, WrittenAfter, Untouched, Return,
         Idle
<1>11. CASE Start
  BY <1>11 DEF Start, Discarded, Owner, Present
<1>12. CASE Stop
  BY <1>12 DEF Stop, Discarded, Owner, Present
<1>13. CASE Look
  BY <1>13 DEF Look, Owner
<1>14. ASSUME NEW n \in 1 .. MaxWrite, Write(n)
      PROVE  Quiet \/ Play \/ Written \/ Dropped
  <2>1. CASE UNCHANGED queue
    BY <1>14, <2>1 DEF Write
  <2>2. ASSUME NEW written \in 1 .. n, Len(queue) + written <= BufferFrames,
               queue' = queue \o [i \in 1 .. written |-> sent + i],
               sent' = sent + written, UNCHANGED heard
        PROVE  Written
    <3>1. sent \in Nat /\ MaxFrames \in Nat /\ MaxWrite \in Nat /\ n \in Nat
      BY AlsaAssumption DEF AlsaInv, Held
    <3>2. written \in 1 .. MaxWrite /\ sent + written <= MaxFrames
      BY <1>14, <2>2, <3>1 DEF Write
    <3> QED
      BY <2>2, <3>2 DEF Written
  <2> QED
    BY <1>14, <2>1, <2>2 DEF Write, Taken
<1>15. CASE Available
  BY <1>15 DEF Available, Fails, ErrorCode
<1>16. CASE Drain
  BY <1>16 DEF Drain, Fails, ErrorCode
<1>17. CASE Close
  BY <1>17 DEF Close, Discarded, Idle
<1>18. CASE UNCHANGED vars
  BY <1>18 DEF vars
<1> QED
  BY <1>1, <1>2, <1>3, <1>4, <1>5, <1>6, <1>7, <1>8, <1>9, <1>10, <1>11, <1>12, <1>13,
     <1>14, <1>15, <1>16, <1>17, <1>18
     DEF Next, DeviceStep, Returning, OwnerCall, Recover

(* The queue keeps holding the last frames written. *)
LEMMA HeldStep ==
    ASSUME AlsaInv, Quiet \/ Play \/ Written \/ Dropped
    PROVE  Held'
<1> USE DEF AlsaInv, Held
<1>1. CASE Quiet
  BY <1>1 DEF Quiet
<1>2. CASE Play
  <2>1. /\ queue' \in Seq(Nat) /\ Len(queue') = Len(queue) - 1
        /\ \A i \in 1 .. Len(queue') : queue'[i] = queue[i + 1]
    BY <1>2, HeadTailProperties DEF Play
  <2>2. heard' = sent - Len(queue) + 1 /\ sent' = sent /\ Len(queue) \in Nat \ {0}
    BY <1>2, EmptySeq, LenProperties DEF Play
  <2>3. \A i \in 1 .. Len(queue') : queue'[i] = sent' - Len(queue') + i
    <3> SUFFICES ASSUME NEW i \in 1 .. Len(queue') PROVE queue'[i] = sent' - Len(queue') + i
      OBVIOUS
    <3>1. i + 1 \in 1 .. Len(queue)
      BY <2>1, <2>2
    <3> QED
      BY <2>1, <2>2, <3>1
  <2>4. heard' + Len(queue') <= sent' /\ Len(queue') <= BufferFrames
    BY <2>1, <2>2, AlsaAssumption
  <2> QED
    BY <2>1, <2>2, <2>3, <2>4
<1>3. CASE Written
  <2>1. PICK n \in 1 .. MaxWrite :
           /\ Len(queue) + n <= BufferFrames
           /\ queue' = queue \o [i \in 1 .. n |-> sent + i]
           /\ sent' = sent + n /\ sent' <= MaxFrames
           /\ heard' = heard
    BY <1>3 DEF Written
  <2> DEFINE new == [i \in 1 .. n |-> sent + i]
  <2>2. n \in Nat /\ sent \in Nat /\ Len(queue) \in Nat /\ MaxFrames \in Nat
    BY AlsaAssumption, LenProperties
  <2>3. new \in Seq(Nat) /\ Len(new) = n /\ \A i \in 1 .. n : new[i] = sent + i
    <3>1. \A i \in 1 .. n : sent + i \in Nat
      BY <2>2
    <3> QED
      BY <2>2, <3>1, SeqDef
  <2> HIDE DEF new
  <2>4. /\ queue' \in Seq(Nat) /\ Len(queue') = Len(queue) + n
        /\ \A i \in 1 .. Len(queue) + n :
              queue'[i] = IF i <= Len(queue) THEN queue[i] ELSE new[i - Len(queue)]
    BY <2>1, <2>3, ConcatProperties DEF new
  <2>5. \A i \in 1 .. Len(queue') : queue'[i] = sent' - Len(queue') + i
    <3> SUFFICES ASSUME NEW i \in 1 .. Len(queue') PROVE queue'[i] = sent' - Len(queue') + i
      OBVIOUS
    <3>1. CASE i <= Len(queue)
      BY <2>1, <2>2, <2>4, <3>1
    <3>2. CASE i > Len(queue)
      <4>1. i - Len(queue) \in 1 .. n /\ ~(i <= Len(queue))
        BY <2>2, <2>4, <3>2
      <4> QED
        BY <2>1, <2>2, <2>3, <2>4, <4>1
    <3> QED
      BY <2>2, <2>4, <3>1, <3>2
  <2> QED
    BY <2>1, <2>2, <2>4, <2>5
<1>4. CASE Dropped
  <2>1. queue' \in Seq(Nat) /\ Len(queue') = 0
    BY <1>4, EmptySeq DEF Dropped
  <2> QED
    BY <1>4, <2>1, AlsaAssumption DEF Dropped
<1> QED
  BY <1>1, <1>2, <1>3, <1>4

(* What alsa_output.c keeps, for every buffer, hardware and number of faults. *)
THEOREM AlsaInvariant == Spec => []AlsaInv
<1>1. Init => AlsaInv
  <2> SUFFICES ASSUME Init PROVE AlsaInv
    OBVIOUS
  <2>1. Types
    BY AlsaAssumption DEF Init, Types, PcmType, OwnType, Statuses, Idle
  <2>2. queue \in Seq(Nat) /\ Len(queue) = 0 /\ sent = 0 /\ heard = 0
    BY EmptySeq DEF Init
  <2>3. Held
    BY <2>2, AlsaAssumption DEF Held
  <2>4. Dry /\ Agree /\ DrainMeansHeard
    BY DEF Init, Dry, Agree, DrainMeansHeard, Idle
  <2> QED
    BY <2>1, <2>3, <2>4 DEF AlsaInv
<1>2. AlsaInv /\ [Next]_vars => AlsaInv'
  <2> SUFFICES ASSUME AlsaInv, [Next]_vars PROVE AlsaInv'
    OBVIOUS
  <2>1. Types' /\ Dry' /\ Agree' /\ DrainMeansHeard'
    BY TypesStep, DryStep, DrainedStep DEF AlsaInv
  <2>2. Held'
    BY Moves, HeldStep
  <2> QED
    BY <2>1, <2>2 DEF AlsaInv
<1> QED
  BY <1>1, <1>2, PTL DEF Spec

(* The types and bounds of all variables; in particular the device is never
   given more than its buffer holds. *)
THEOREM AlsaTypes == Spec => []TypeOK
<1>1. AlsaInv => TypeOK
  BY LenProperties DEF AlsaInv, Types, PcmType, OwnType, Held, TypeOK
<1> QED
  BY <1>1, AlsaInvariant, PTL

(* A drain that answered 1 left nothing queued (lines 289-302), whatever the
   device went through, save for the resumption of alsa_suspend. *)
THEOREM DrainIsHonest == Spec => []DrainMeansHeard
<1>1. AlsaInv => DrainMeansHeard
  BY DEF AlsaInv
<1> QED
  BY <1>1, AlsaInvariant, PTL

(* No pause, recovery or start drops queued frames (lines 35-49, 210-238), save
   for the device that was suspended. *)
THEOREM NothingIsDropped == Spec => QueueKept
<1>1. AlsaInv /\ [Next]_vars =>
        [Len(queue') < Len(queue) =>
            \/ heard' # heard /\ state = "PLAYING"
            \/ state' = "STOPPED" \/ own'.pc = "closed"
            \/ pcm.status = "SUSPENDED"]_queue
  <2> SUFFICES ASSUME AlsaInv, [Next]_vars, Len(queue') < Len(queue)
               PROVE  \/ heard' # heard /\ state = "PLAYING"
                      \/ state' = "STOPPED" \/ own'.pc = "closed"
                      \/ pcm.status = "SUSPENDED"
    OBVIOUS
  <2>1. Len(queue) \in Nat
    BY LenProperties DEF AlsaInv, Held
  <2>2. CASE Quiet
    BY <2>1, <2>2 DEF Quiet
  <2>3. CASE Play
    <3>1. state = "PLAYING"
      BY <2>3 DEF Play, AlsaInv, Types, Agree
    <3>2. heard' # heard
      <4>1. Len(queue) \in Nat \ {0} /\ heard' = queue[1]
        BY <2>3, EmptySeq, LenProperties DEF Play, AlsaInv, Held
      <4> QED
        BY <4>1 DEF AlsaInv, Held
    <3> QED
      BY <3>1, <3>2
  <2>4. CASE Written
    <3>1. PICK n \in 1 .. MaxWrite : queue' = queue \o [i \in 1 .. n |-> sent + i]
      BY <2>4 DEF Written
    <3>2. [i \in 1 .. n |-> sent + i] \in Seq(Nat) /\ n \in Nat
      <4>1. \A i \in 1 .. n : sent + i \in Nat
        BY AlsaAssumption DEF AlsaInv, Held
      <4> QED
        BY <4>1, SeqDef
    <3>3. Len(queue') = Len(queue) + n
      BY <3>1, <3>2, ConcatProperties DEF AlsaInv, Held
    <3> QED
      BY <2>1, <3>2, <3>3
  <2>5. CASE Dropped
    BY <2>1, <2>5 DEF Dropped
  <2> QED
    BY <2>2, <2>3, <2>4, <2>5, Moves
<1> QED
  BY <1>1, AlsaInvariant, PTL DEF Spec, QueueKept

(* The queue of the device, with the answers of write, is a bounded FIFO whose
   contents a stop or a recovery may discard. *)
THEOREM AlsaImplementsFifo == Spec => ImplementsFifo
<1>1. Init => Fifo!Init
  <2> SUFFICES ASSUME Init PROVE Fifo!Init
    OBVIOUS
  <2>1. Len(queue) = 0
    BY EmptySeq DEF Init
  <2>2. << >> = [i \in 1 .. 0 |-> 0]
    OBVIOUS
  <2>3. sent = 0 /\ heard = 0
    BY DEF Init
  <2>4. sent - Len(queue) = 0
    BY <2>1, <2>3
  <2> QED
    BY <2>2, <2>3, <2>4 DEF Fifo!Init
<1>2. AlsaInv /\ [Next]_vars => [Fifo!Next]_(Fifo!fifoVars)
  <2> SUFFICES ASSUME AlsaInv, [Next]_vars PROVE [Fifo!Next]_(Fifo!fifoVars)
    OBVIOUS
  <2>1. Len(queue) \in Nat /\ sent \in Nat /\ heard \in Nat /\ BufferFrames \in Nat \ {0}
    BY AlsaAssumption, LenProperties DEF AlsaInv, Held
  <2>2. CASE Quiet
    BY <2>2 DEF Quiet, Fifo!fifoVars
  <2>3. CASE Play
    <3>1. /\ Len(queue') = Len(queue) - 1 /\ Len(queue) > 0 /\ sent' = sent
          /\ heard' = sent - Len(queue) + 1 /\ Len(queue) <= sent
      BY <2>1, <2>3, HeadTailProperties, EmptySeq DEF Play, AlsaInv, Held
    <3>2. heard' # 0 /\ sent' - Len(queue') = sent - Len(queue) + 1
      BY <2>1, <3>1
    <3>3. <<heard'>> = [i \in 1 .. 1 |-> sent - Len(queue) + i]
      BY <2>1, <3>1
    <3>4. Fifo!Take(1)
      BY <2>1, <3>1, <3>2, <3>3 DEF Fifo!Take
    <3> QED
      BY <2>1, <3>4 DEF Fifo!Next
  <2>4. CASE Written
    <3>1. PICK n \in 1 .. MaxWrite :
             /\ Len(queue) + n <= BufferFrames
             /\ queue' = queue \o [i \in 1 .. n |-> sent + i]
             /\ sent' = sent + n
             /\ heard' = heard
      BY <2>4 DEF Written
    <3>2. [i \in 1 .. n |-> sent + i] \in Seq(Nat) /\ Len([i \in 1 .. n |-> sent + i]) = n
      <4>1. \A i \in 1 .. n : sent + i \in Nat
        BY <2>1
      <4> QED
        BY <4>1, SeqDef, AlsaAssumption
    <3>3. Len(queue') = Len(queue) + n /\ n \in Nat
      BY <3>1, <3>2, ConcatProperties, AlsaAssumption DEF AlsaInv, Held
    <3>4. Fifo!Put(n) /\ n \in 1 .. BufferFrames
      BY <2>1, <3>1, <3>3 DEF Fifo!Put
    <3> QED
      BY <3>4 DEF Fifo!Next
  <2>5. CASE Dropped
    <3>1. Len(queue') = 0 /\ UNCHANGED <<sent, heard>>
      BY <2>5, EmptySeq DEF Dropped
    <3>2. Fifo!Discard
      BY <2>1, <3>1 DEF Fifo!Discard
    <3> QED
      BY <3>2 DEF Fifo!Next
  <2> QED
    BY <2>2, <2>3, <2>4, <2>5, Moves
<1> QED
  BY <1>1, <1>2, AlsaInvariant, PTL DEF Spec, ImplementsFifo, Fifo!Spec

-----------------------------------------------------------------------------
(* Without hardware that can resume, a suspended device is prepared anew, which
   drops its queue. *)
NoResumption == \A can \in Hardware : "resume" \notin can
NotResumed   == drain # "resumed"

(* Where nothing is resumed, no answer of drain is about a resumed device. *)
LEMMA NeverResumed ==
    ASSUME NoResumption, Types, drain # "resumed", [Next]_vars
    PROVE  drain' # "resumed"
<1>1. "resume" \notin pcm.can
  BY DEF NoResumption, Types, PcmType
<1>2. ASSUME NEW result, Recovered(result) PROVE drain' # "resumed"
  BY <1>1, <1>2 DEF Recovered, DrainAfter
<1>3. CASE Recover
  BY <1>2, <1>3 DEF Recover, RecoverUnderrun, RecoverSuspended, RecoverOther, Prepare
<1>4. CASE Drain \/ \E n \in 1 .. MaxWrite : Write(n)
  BY <1>4 DEF Drain, Fails, Write
<1>5. CASE UNCHANGED drain
  BY <1>5
<1> QED
  BY <1>3, <1>4, <1>5 DEF Next, vars, DeviceStep, Play, Underrun, Suspend, Wake, Unplug,
     Returning, Pause, Resume, OwnerCall, Start, Stop, Look, Available, Fails, Close

(* The premature answer of alsa_suspend needs hardware that can resume: without
   it, whatever is suspended and recovered, drain answers 1 only when nothing is
   left to be played (lines 289-302). *)
THEOREM DrainWithoutResumption == NoResumption => (Spec => []DoneMeansHeard)
<1> SUFFICES ASSUME NoResumption PROVE Spec => []DoneMeansHeard
  OBVIOUS
<1>1. Init => NotResumed
  BY DEF Init, NotResumed
<1>2. AlsaInv /\ NotResumed /\ [Next]_vars => NotResumed'
  BY NeverResumed DEF AlsaInv, NotResumed
<1>3. DrainMeansHeard /\ NotResumed => DoneMeansHeard
  BY DEF DrainMeansHeard, DoneMeansHeard, NotResumed
<1> QED
  BY <1>1, <1>2, <1>3, AlsaInvariant, DrainIsHonest, PTL DEF Spec
=============================================================================
