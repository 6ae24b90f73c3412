---------------------------- MODULE PlayerProofs ----------------------------
(***************************************************************************)
(* Proofs about Player and Decoder, for every length of the file, block,   *)
(* chunk, queue and number of keys.                                        *)
(*                                                                         *)
(* PlayerInv is inductive.  Beside the types it says when a read may be in *)
(* progress (Reads), what the parsers have left at the end (Ends), when    *)
(* success is told (Outcome), and, in Flow, what order rests on: the       *)
(* frames in the device, in the queue of the output, in the rest of the    *)
(* chunk, in the read in progress and in the decoded block follow one      *)
(* another from the one last heard to the decoder's position.  Most steps  *)
(* only move frames along this line and leave it as it is.                 *)
(***************************************************************************)
EXTENDS Player, SequenceTheorems, TLAPS

F == 1 .. Length

FileTypes ==
    /\ kind \in Kinds /\ loop_mode \in BOOLEAN /\ (loop_mode => kind \in LoopKinds)
    /\ position \in 0 .. Length /\ buffered \in Seq(F)
    /\ eof \in BOOLEAN /\ broken \in BOOLEAN
    /\ reading \in [status : {"none", "busy", "done", "failed"}, want : Nat, got : Seq(F)]

LoopTypes ==
    /\ pc \in {"open", "init", "start", "top", "fill", "read", "write", "drain",
               "cleanup", "closed"}
    /\ g_running \in BOOLEAN
    /\ is_paused \in BOOLEAN /\ is_draining \in BOOLEAN /\ playback_failed \in BOOLEAN
    /\ result \in {-1, 0}

OutTypes ==
    /\ pending \in Seq(F) /\ Len(pending) <= Chunk
    /\ out \in [state : {"STOPPED", "PLAYING", "PAUSED"}, queue : Seq(F), device : Seq(F),
                blocking : BOOLEAN, lost : BOOLEAN]
    /\ Len(out.queue) <= QueueSize /\ Len(out.device) <= DeviceSize
    /\ heard \in 0 .. Length

Types == FileTypes /\ LoopTypes /\ OutTypes

(* A read is in progress at one label only, and only when everything read
   before is written. *)
Reads ==
    /\ pc # "read" => reading = NoRead
    /\ pc = "read" =>
          /\ pending = << >> /\ ~is_draining
          /\ reading.status \in {"busy", "done", "failed"}
          /\ reading.want = Chunk /\ Len(reading.got) <= Chunk
          /\ reading.status = "failed" => broken

(* What each parser has left at the end of the file. *)
Ends ==
    /\ kind # "FLAC" => buffered = << >> /\ (reading.status = "busy" => reading.got = << >>)
    /\ eof => position = Length /\ buffered = << >>
    /\ reading.status = "done" /\ reading.got = << >> =>
          (position = Length /\ buffered = << >>) \/ broken
    /\ is_draining => pending = << >> /\ ((position = Length /\ buffered = << >>) \/ broken)

(* The frames on their way from the file to the loudspeaker. *)
Line == (((out.device \o out.queue) \o pending) \o reading.got) \o buffered

(* The frame the decoder read last, or, when there is none on its way, the one
   heard last. *)
Latest == IF Line = << >> THEN heard ELSE Line[Len(Line)]

Sound == ~broken /\ (loop_mode => kind # "FLAC")

(* The frame after a, in the same pass or in the next. *)
Follows(a, b) == b = a + 1 \/ (a = Length /\ b = 1)

(* They follow what was heard and one another, up to the decoder's position,
   also across the end of a pass whose last frames a device still holds.
   Without --loop there is one pass. *)
Flow ==
    Sound /\ pc # "closed" =>
        /\ Line # << >> => Follows(heard, Line[1])
        /\ \A i \in 1 .. Len(Line) - 1 : Follows(Line[i], Line[i + 1])
        /\ Latest = position \/ (Latest = Length /\ position = 0)
        /\ ~loop_mode => heard + Len(Line) = position

(* Success is told only when there is no more to come than what the device
   holds, or on Ctrl+C; an output that is not open holds nothing. *)
Outcome ==
    /\ result = 0 => pc \in {"cleanup", "closed"}
    /\ result = 0 /\ g_running /\ ~broken =>
          /\ out.queue = << >> /\ (out.blocking \/ out.device = << >>)
          /\ pc = "cleanup" => ~loop_mode /\ position = Length /\ Len(Line) = Len(out.device)
          /\ pc = "closed" => Length - heard <= (IF out.blocking THEN DeviceSize ELSE 0)
    /\ pc \in {"open", "closed"} => out.queue = << >> /\ out.device = << >>

PlayerInv == Types /\ Reads /\ Ends /\ Flow /\ Outcome

Data == <<position, buffered, pending, reading.got, out.queue, out.device, heard>>
-----------------------------------------------------------------------------
(* The parameters, as the proofs use them. *)
LEMMA Parameters ==
    /\ Length \in Nat /\ Block \in Nat \ {0} /\ Faults \in BOOLEAN
    /\ Kinds \subseteq {"WAVE", "MP3", "FLAC"}
    /\ Chunk \in Nat \ {0} /\ QueueSize \in Nat \ {0} /\ DeviceSize \in Nat \ {0}
BY DecoderAssumption, PlayerAssumption

(* What is read after frame `at`. *)
LEMMA FramesAfterIs ==
    ASSUME NEW at \in 0 .. Length, NEW n \in Nat
    PROVE  LET s == FramesAfter(at, n)
           IN  /\ s \in Seq(F)
               /\ Len(s) = Lower(n, Length - at)
               /\ \A i \in 1 .. Len(s) : s[i] = at + i
<1> DEFINE k == Lower(n, Length - at)
<1>1. k \in Nat /\ at + k <= Length
  BY Parameters DEF Lower
<1>2. \A i \in 1 .. k : at + i \in F
  BY <1>1, Parameters DEF F
<1> HIDE DEF k
<1>3. [i \in 1 .. k |-> at + i] \in Seq(F) /\ Len([i \in 1 .. k |-> at + i]) = k
  BY <1>1, <1>2, SeqDef
<1> QED
  BY <1>3 DEF FramesAfter, k

(* Concatenation is associative. *)
LEMMA Regroup ==
    ASSUME NEW s \in Seq(F), NEW t \in Seq(F), NEW u \in Seq(F)
    PROVE  (s \o t) \o u = s \o (t \o u)
BY ConcatAssociative

(* A sequence cut in two. *)
LEMMA Cut ==
    ASSUME NEW s \in Seq(F), NEW k \in 0 .. Len(s)
    PROVE  /\ SubSeq(s, 1, k) \in Seq(F) /\ Len(SubSeq(s, 1, k)) = k
           /\ SubSeq(s, k + 1, Len(s)) \in Seq(F)
           /\ Len(SubSeq(s, k + 1, Len(s))) = Len(s) - k
           /\ SubSeq(s, 1, k) \o SubSeq(s, k + 1, Len(s)) = s
<1>1. Len(s) \in Nat /\ \A i \in 1 .. Len(s) : s[i] \in F
  BY LenProperties, ElementOfSeq
<1>2. SubSeq(s, 1, k) \in Seq(F) /\ Len(SubSeq(s, 1, k)) = k
  BY <1>1, SubSeqProperties
<1>3. /\ SubSeq(s, k + 1, Len(s)) \in Seq(F)
      /\ Len(SubSeq(s, k + 1, Len(s))) = Len(s) - k
  <2>1. k + 1 \in Int /\ Len(s) \in Int /\ \A i \in k + 1 .. Len(s) : s[i] \in F
    BY <1>1
  <2>2. Len(SubSeq(s, k + 1, Len(s))) = IF k + 1 <= Len(s) THEN Len(s) - (k + 1) + 1 ELSE 0
    BY <2>1, SubSeqProperties
  <2> QED
    BY <1>1, <2>1, <2>2, SubSeqProperties
<1>4. SubSeq(s, 1, k) \o SubSeq(s, k + 1, Len(s)) = SubSeq(s, 1, Len(s))
  <2>1. 1 \in 1 .. Len(s) + 1 /\ k \in 1 - 1 .. Len(s) /\ Len(s) \in k .. Len(s)
    BY <1>1
  <2> QED
    BY <2>1, ConcatAdjacentSubSeq
<1> QED
  BY <1>2, <1>3, <1>4, SubSeqFull

(* The line is a sequence of frames, as long as its parts together. *)
LEMMA LineIs ==
    ASSUME Types
    PROVE  /\ out.device \in Seq(F) /\ out.queue \in Seq(F) /\ pending \in Seq(F)
           /\ reading.got \in Seq(F) /\ buffered \in Seq(F)
           /\ Line \in Seq(F)
           /\ Len(Line) = Len(out.device) + Len(out.queue) + Len(pending)
                            + Len(reading.got) + Len(buffered)
           /\ Len(Line) \in Nat
<1> DEFINE h == out.device \o out.queue
<1>1. /\ out.device \in Seq(F) /\ out.queue \in Seq(F) /\ pending \in Seq(F)
      /\ reading.got \in Seq(F) /\ buffered \in Seq(F)
  BY DEF Types, FileTypes, OutTypes
<1>2. h \in Seq(F) /\ Len(h) = Len(out.device) + Len(out.queue)
  BY <1>1, ConcatProperties
<1>3. h \o pending \in Seq(F) /\ Len(h \o pending) = Len(h) + Len(pending)
  BY <1>1, <1>2, ConcatProperties
<1>4. /\ (h \o pending) \o reading.got \in Seq(F)
      /\ Len((h \o pending) \o reading.got) = Len(h) + Len(pending) + Len(reading.got)
  BY <1>1, <1>3, ConcatProperties
<1>5. Line \in Seq(F) /\ Len(Line) = Len((h \o pending) \o reading.got) + Len(buffered)
  BY <1>1, <1>4, ConcatProperties DEF Line
<1>6. Len(Line) \in Nat
  BY <1>5, LenProperties
<1> QED
  BY <1>1, <1>2, <1>4, <1>5, <1>6

(* Frames copied from the decoded block to the chunk, or from the chunk to the
   output, stay in line. *)
LEMMA CopyKeeps ==
    ASSUME Types, NEW k \in 0 .. Len(buffered), UNCHANGED <<out, pending>>,
           reading'.got = reading.got \o SubSeq(buffered, 1, k),
           buffered' = SubSeq(buffered, k + 1, Len(buffered))
    PROVE  Line' = Line
<1> DEFINE q == (out.device \o out.queue) \o pending
           g == reading.got
           a == SubSeq(buffered, 1, k)
           b == SubSeq(buffered, k + 1, Len(buffered))
<1>1. q \in Seq(F) /\ g \in Seq(F)
  BY LineIs, ConcatProperties
<1>2. a \in Seq(F) /\ b \in Seq(F) /\ a \o b = buffered
  BY LineIs, Cut
<1>3. Line' = (q \o (g \o a)) \o b /\ Line = (q \o g) \o buffered
  BY DEF Line
<1> HIDE DEF q, g, a, b
<1>4. q \o (g \o a) = (q \o g) \o a
  BY <1>1, <1>2, Regroup, Zenon
<1>6. q \o g \in Seq(F)
  BY <1>1, ConcatProperties
<1>5. ((q \o g) \o a) \o b = (q \o g) \o (a \o b)
  BY <1>2, <1>6, Regroup, Zenon
<1> QED
  BY <1>2, <1>3, <1>4, <1>5

(* The same for frames written to the output. *)
LEMMA WriteKeeps ==
    ASSUME Types, NEW k \in 0 .. Len(pending), UNCHANGED <<reading, buffered>>,
           out'.queue = out.queue \o SubSeq(pending, 1, k), out'.device = out.device,
           pending' = SubSeq(pending, k + 1, Len(pending))
    PROVE  Line' = Line
<1> DEFINE d == out.device
           q == out.queue
           a == SubSeq(pending, 1, k)
           b == SubSeq(pending, k + 1, Len(pending))
<1>1. d \in Seq(F) /\ q \in Seq(F) /\ d \o q \in Seq(F)
  BY LineIs, ConcatProperties
<1>2. a \in Seq(F) /\ b \in Seq(F) /\ a \o b = pending
  BY LineIs, Cut
<1>3. /\ Line' = (((d \o (q \o a)) \o b) \o reading.got) \o buffered
      /\ Line = (((d \o q) \o pending) \o reading.got) \o buffered
  BY DEF Line
<1> HIDE DEF d, q, a, b
<1>4. d \o (q \o a) = (d \o q) \o a
  BY <1>1, <1>2, Regroup, Zenon
<1>5. ((d \o q) \o a) \o b = (d \o q) \o (a \o b)
  BY <1>1, <1>2, Regroup, Zenon
<1> QED
  BY <1>2, <1>3, <1>4, <1>5

(* The same for the frame a device takes. *)
LEMMA TakeKeeps ==
    ASSUME Types, out.queue # << >>, UNCHANGED <<pending, reading, buffered>>,
           out'.queue = Tail(out.queue),
           out'.device = Append(out.device, Head(out.queue))
    PROVE  Line' = Line
<1> DEFINE d == out.device
           q == out.queue
<1>1. d \in Seq(F) /\ q \in Seq(F) /\ Head(q) \in F /\ Tail(q) \in Seq(F)
  BY LineIs, HeadTailProperties
<1>2. <<Head(q)>> \in Seq(F) /\ Append(d, Head(q)) = d \o <<Head(q)>>
  BY <1>1, AppendIsConcat
<1>3. <<Head(q)>> \o Tail(q) = q
  <2> DEFINE h == <<Head(q)>>
             t == Tail(q)
  <2>1. /\ Len(q) \in Nat /\ Len(q) >= 1 /\ Len(t) = Len(q) - 1 /\ Len(h) = 1
        /\ \A i \in 1 .. Len(t) : t[i] = q[i + 1]
    BY <1>1, HeadTailProperties, EmptySeq, LenProperties
  <2>2. h[1] = q[1]
    OBVIOUS
  <2>3. h \in Seq(F) /\ t \in Seq(F)
    BY <1>1, <1>2
  <2> HIDE DEF h, t
  <2>4. /\ h \o t \in Seq(F) /\ Len(h \o t) = Len(q)
        /\ \A i \in 1 .. Len(h) + Len(t) :
              (h \o t)[i] = IF i <= Len(h) THEN h[i] ELSE t[i - Len(h)]
    BY <2>1, <2>3, ConcatProperties
  <2>5. ASSUME NEW i \in 1 .. Len(q)
        PROVE  (h \o t)[i] = q[i]
    <3>1. CASE i = 1
      BY <2>1, <2>2, <2>4, <3>1
    <3>2. CASE i # 1
      <4>1. i - 1 \in 1 .. Len(t) /\ i \in 1 .. Len(h) + Len(t) /\ ~(i <= Len(h))
        BY <2>1, <3>2
      <4>2. (h \o t)[i] = t[i - 1]
        BY <2>1, <2>4, <4>1
      <4> QED
        BY <2>1, <4>1, <4>2
    <3> QED
      BY <3>1, <3>2
  <2> QED
    BY <1>1, <2>4, <2>5, SeqEqual DEF h, t
<1>4. (d \o <<Head(q)>>) \o Tail(q) = d \o (<<Head(q)>> \o Tail(q))
  BY <1>1, <1>2, Regroup, Zenon
<1>5. out'.device \o out'.queue = d \o q
  BY <1>2, <1>3, <1>4
<1> QED
  BY <1>5 DEF Line

(* The first frame of a line whose device is not empty is the first there. *)
LEMMA PlayKeeps ==
    ASSUME Types, out.device # << >>, UNCHANGED <<pending, reading, buffered>>,
           out'.device = Tail(out.device), out'.queue = out.queue
    PROVE  Line # << >> /\ Head(out.device) = Head(Line) /\ Line' = Tail(Line)
<1>1. ASSUME NEW s \in Seq(F), NEW t \in Seq(F), s # << >>
      PROVE  /\ s \o t \in Seq(F) /\ s \o t # << >> /\ Tail(s) \in Seq(F)
             /\ Head(s \o t) = Head(s) /\ Tail(s \o t) = Tail(s) \o t
  <2>1. s \o t \in Seq(F) /\ Tail(s) \in Seq(F) /\ Tail(s) \o t \in Seq(F)
    BY <1>1, HeadTailProperties, ConcatProperties
  <2>2. /\ Len(s) \in Nat \ {0} /\ Len(t) \in Nat /\ Len(s \o t) = Len(s) + Len(t)
        /\ \A i \in 1 .. Len(s) + Len(t) :
              (s \o t)[i] = IF i <= Len(s) THEN s[i] ELSE t[i - Len(s)]
    BY <1>1, ConcatProperties, EmptySeq, LenProperties
  <2>3. s \o t # << >> /\ (s \o t)[1] = s[1]
    BY <2>1, <2>2, EmptySeq
  <2>4. /\ Tail(s \o t) \in Seq(F) /\ Len(Tail(s \o t)) = Len(s) + Len(t) - 1
        /\ \A i \in 1 .. Len(s) + Len(t) - 1 : Tail(s \o t)[i] = (s \o t)[i + 1]
    BY <2>1, <2>2, <2>3, HeadTailProperties
  <2>5. /\ Len(Tail(s)) = Len(s) - 1
        /\ \A i \in 1 .. Len(s) - 1 : Tail(s)[i] = s[i + 1]
    BY <1>1, HeadTailProperties
  <2>6. /\ Len(Tail(s) \o t) = Len(s) + Len(t) - 1
        /\ \A i \in 1 .. Len(s) + Len(t) - 1 :
              (Tail(s) \o t)[i] = IF i <= Len(s) - 1 THEN Tail(s)[i] ELSE t[i - (Len(s) - 1)]
    BY <2>1, <2>2, <2>5, ConcatProperties
  <2>7. ASSUME NEW i \in 1 .. Len(s) + Len(t) - 1
        PROVE  Tail(s \o t)[i] = (Tail(s) \o t)[i]
    BY <2>2, <2>4, <2>5, <2>6
  <2>8. Tail(s \o t) = Tail(s) \o t
    BY <2>1, <2>4, <2>6, <2>7, SeqEqual
  <2> QED
    BY <2>1, <2>3, <2>8
<1> DEFINE d == out.device
           h == d \o out.queue
           a == h \o pending
           b == a \o reading.got
<1>2. /\ d \in Seq(F) /\ out.queue \in Seq(F) /\ pending \in Seq(F)
      /\ reading.got \in Seq(F) /\ buffered \in Seq(F)
  BY LineIs
<1>3. /\ Line = b \o buffered
      /\ Line' = (((Tail(d) \o out.queue) \o pending) \o reading.got) \o buffered
  BY DEF Line
<1>4. h \in Seq(F) /\ h # << >> /\ Head(h) = Head(d) /\ Tail(h) = Tail(d) \o out.queue
  BY <1>1, <1>2
<1> HIDE DEF h
<1>5. a \in Seq(F) /\ a # << >> /\ Head(a) = Head(h) /\ Tail(a) = Tail(h) \o pending
  BY <1>1, <1>2, <1>4
<1> HIDE DEF a
<1>6. b \in Seq(F) /\ b # << >> /\ Head(b) = Head(a) /\ Tail(b) = Tail(a) \o reading.got
  BY <1>1, <1>2, <1>5
<1> HIDE DEF b
<1>7. /\ b \o buffered # << >> /\ Head(b \o buffered) = Head(b)
      /\ Tail(b \o buffered) = Tail(b) \o buffered
  BY <1>1, <1>2, <1>6
<1> QED
  BY <1>3, <1>4, <1>5, <1>6, <1>7
-----------------------------------------------------------------------------
(* The read in progress, by parser. *)
LEMMA ReadTypes ==
    ASSUME Types, ReadOn
    PROVE  /\ position' \in 0 .. Length /\ buffered' \in Seq(F)
           /\ eof' \in BOOLEAN /\ broken' \in BOOLEAN
           /\ reading' \in [status : {"none", "busy", "done", "failed"},
                            want : Nat, got : Seq(F)]
           /\ kind' = kind
<1> USE Parameters DEF Types, FileTypes
<1>1. CASE ReadWave \/ ReadNewFormat
  <2>1. PICK n \in 0 .. Lower(reading.want, Length - position) :
           /\ reading' = [reading EXCEPT !.status = "done", !.got = FramesAfter(position, n)]
           /\ position' = position + n
           /\ broken' = (broken \/ n < Lower(reading.want, Length - position))
    BY <1>1 DEF ReadWave, ReadNewFormat, ReadSome, ReadReturns
  <2>2. n \in Nat /\ position + n \in 0 .. Length
    BY <2>1 DEF Lower
  <2>3. FramesAfter(position, n) \in Seq(F)
    BY <2>2, FramesAfterIs
  <2> QED
    BY <1>1, <2>1, <2>2, <2>3 DEF ReadWave, ReadNewFormat, ReadSome
<1>2. CASE ReadMp3
  <2>1. FramesAfter(position, reading.want) \in Seq(F) /\ << >> \in Seq(F)
    BY FramesAfterIs, EmptySeq
  <2>2. Lower(position + reading.want, Length) \in 0 .. Length
    BY DEF Lower
  <2>3. \/ reading' = [reading EXCEPT !.status = "done", !.got = << >>]
        \/ reading' = [reading EXCEPT !.status = "done",
                                     !.got = FramesAfter(position, reading.want)]
        \/ reading' = [reading EXCEPT !.status = "failed"]
    BY <1>2 DEF ReadMp3, ReadReturns, ReadFails
  <2>4. reading' \in [status : {"none", "busy", "done", "failed"}, want : Nat, got : Seq(F)]
    BY <2>1, <2>3
  <2>5. position' \in 0 .. Length
    BY <1>2, <2>2 DEF ReadMp3, ReadFails
  <2>6. /\ \/ eof' = eof \/ eof' = (position + reading.want > Length)
        /\ broken' = broken \/ broken' = TRUE
    BY <1>2 DEF ReadMp3, ReadFails
  <2>8. eof' \in BOOLEAN /\ broken' \in BOOLEAN
    <3>1. ASSUME NEW a \in Int, NEW b \in Int
          PROVE  (a > b) \in BOOLEAN
      OBVIOUS
    <3>2. position + reading.want \in Int /\ Length \in Int
      OBVIOUS
    <3>3. (position + reading.want > Length) \in BOOLEAN
      BY <3>1, <3>2
    <3> QED
      BY <2>6, <3>3, Zenon
  <2>7. UNCHANGED <<kind, buffered>>
    BY <1>2 DEF ReadMp3
  <2> QED
    BY <2>4, <2>5, <2>7, <2>8
<1>3. CASE ReadFlac /\ FlacCopy
  <2> DEFINE k == Lower(reading.want - Len(reading.got), Len(buffered))
  <2>1. k \in 0 .. Len(buffered)
    <3>1. Len(reading.got) \in Nat /\ Len(buffered) \in Nat /\ reading.want \in Nat
      BY LenProperties
    <3>2. Len(reading.got) < reading.want
      BY <1>3 DEF FlacCopy
    <3> QED
      BY <3>1, <3>2 DEF Lower
  <2> HIDE DEF k
  <2>2. /\ reading.got \o SubSeq(buffered, 1, k) \in Seq(F)
        /\ SubSeq(buffered, k + 1, Len(buffered)) \in Seq(F)
    BY <2>1, Cut, ConcatProperties
  <2>3. /\ reading' = [reading EXCEPT !.got = @ \o SubSeq(buffered, 1, k)]
        /\ buffered' = SubSeq(buffered, k + 1, Len(buffered))
        /\ UNCHANGED <<position, eof, broken, kind>>
    BY <1>3 DEF ReadFlac, FlacCopy, k
  <2> QED
    BY <2>2, <2>3
<1>4. CASE ReadFlac /\ FlacDecode
  <2> DEFINE n == Block - (position % Block)
  <2>1. n \in Nat \ {0}
    BY DEF n
  <2> HIDE DEF n
  <2>2. /\ FramesAfter(position, n) \in Seq(F)
        /\ Len(FramesAfter(position, n)) = Lower(n, Length - position)
    BY <2>1, FramesAfterIs
  <2>3. position + Len(FramesAfter(position, n)) \in 0 .. Length
    BY <2>1, <2>2 DEF Lower
  <2> QED
    BY <1>4, <2>2, <2>3 DEF ReadFlac, FlacDecode, ReadFails, n
<1>5. CASE ReadFlac /\ FlacReturn
  BY <1>5 DEF ReadFlac, FlacReturn, ReadReturns
<1> QED
  BY <1>1, <1>2, <1>3, <1>4, <1>5 DEF ReadOn, Reading, ReadFlac

(* A step that leaves the decoder alone, or the output and the chunk, keeps
   their types. *)
LEMMA TypesKept ==
    /\ FileTypes /\ UNCHANGED <<decoderVars, loop_mode>> => FileTypes'
    /\ OutTypes /\ UNCHANGED <<pending, out, heard>> => OutTypes'
BY DEF FileTypes, OutTypes, decoderVars, file

(* Every step keeps the types of the loop's own variables... *)
LEMMA LoopTypesStep ==
    ASSUME LoopTypes, [Next]_vars
    PROVE  LoopTypes'
<1> USE DEF LoopTypes, GoTo, control, settings
<1>1. CASE OpenDecoder
  BY <1>1 DEF OpenDecoder
<1>2. CASE InitOutput
  BY <1>2 DEF InitOutput
<1>3. CASE StartOutput
  BY <1>3 DEF StartOutput
<1>4. CASE Interrupted
  BY <1>4 DEF Interrupted, Leave
<1>5. CASE NoKey
  BY <1>5 DEF NoKey
<1>6. ASSUME NEW works \in BOOLEAN, ToggleKey(works)
      PROVE  LoopTypes'
  BY <1>6 DEF ToggleKey
<1>7. CASE Fill
  BY <1>7 DEF Fill
<1>8. CASE ReadOn
  BY <1>8 DEF ReadOn
<1>9. CASE ReadDone
  <2>1. /\ pc' \in {"write", "cleanup"} /\ UNCHANGED <<g_running, is_paused>>
        /\ result' \in {-1, 0}
    BY <1>9 DEF ReadDone, Leave
  <2>2. is_draining' \in BOOLEAN
    BY <1>9 DEF ReadDone
  <2>3. playback_failed' \in BOOLEAN
    BY <1>9 DEF ReadDone, Leave
  <2> QED
    BY <2>1, <2>2, <2>3
<1>10. CASE WriteOut
  BY <1>10 DEF WriteOut, Leave
<1>11. CASE NotDraining
  BY <1>11 DEF NotDraining
<1>12. CASE DrainFails
  BY <1>12 DEF DrainFails, Leave
<1>13. CASE DrainPending
  BY <1>13 DEF DrainPending
<1>14. CASE DrainDone
  BY <1>14 DEF DrainDone, Leave
<1>15. CASE Cleanup
  BY <1>15 DEF Cleanup
<1>16. CASE SignalHandler
  BY <1>16 DEF SignalHandler
<1>17. CASE Play
  BY <1>17 DEF Play
<1>20. CASE Take
  BY <1>20 DEF Take
<1>18. CASE LoseDevice
  BY <1>18 DEF LoseDevice
<1>19. CASE UNCHANGED vars
  BY <1>19 DEF vars
<1> QED
  BY <1>1, <1>2, <1>3, <1>4, <1>5, <1>6, <1>7, <1>8, <1>9, <1>10, <1>11, <1>12, <1>13,
     <1>14, <1>15, <1>16, <1>17, <1>18, <1>19, <1>20
  DEF Next, PlayerStep, SetUp, Turn, Device

(* ... of the decoder's... *)
LEMMA FileTypesStep ==
    ASSUME Types, Reads, [Next]_vars
    PROVE  FileTypes'
<1> USE Parameters DEF Types, settings
<1>0. << >> \in Seq(F)
  BY EmptySeq
<1>1. CASE OpenDecoder
  BY <1>1, TypesKept DEF OpenDecoder
<1>2. CASE InitOutput
  BY <1>2, TypesKept DEF InitOutput
<1>3. CASE StartOutput
  BY <1>3, TypesKept DEF StartOutput
<1>4. CASE Interrupted
  BY <1>4, TypesKept DEF Interrupted
<1>5. CASE NoKey
  BY <1>5, TypesKept DEF NoKey
<1>6. ASSUME NEW works \in BOOLEAN, ToggleKey(works)
      PROVE  FileTypes'
  BY <1>6, TypesKept DEF ToggleKey
<1>7. CASE Fill
  <2>1. CASE UNCHANGED decoderVars
    BY <1>7, <2>1, TypesKept DEF Fill
  <2>2. CASE ReadCall(Chunk)
    <3>1. reading' \in [status : {"none", "busy", "done", "failed"}, want : Nat, got : Seq(F)]
      BY <1>0, <2>2 DEF ReadCall
    <3> QED
      BY <1>7, <2>2, <3>1 DEF Fill, ReadCall, FileTypes, file
  <2> QED
    BY <1>7, <2>1, <2>2 DEF Fill
<1>8. CASE ReadOn
  BY <1>8, ReadTypes DEF ReadOn, FileTypes
<1>9. CASE ReadDone
  BY <1>0, <1>9 DEF ReadDone, FileTypes, NoRead, file
<1>10. CASE WriteOut
  BY <1>10, TypesKept DEF WriteOut
<1>11. CASE NotDraining
  BY <1>11, TypesKept DEF NotDraining
<1>12. CASE DrainFails
  BY <1>12, TypesKept DEF DrainFails
<1>13. CASE DrainPending
  BY <1>13, TypesKept DEF DrainPending
<1>14. CASE DrainDone
  <2>1. CASE UNCHANGED decoderVars
    BY <1>14, <2>1, TypesKept DEF DrainDone
  <2>2. CASE Seek(0)
    <3>1. 0 \in 0 .. Length /\ Lower(0 + Block - (0 % Block), Length) \in 0 .. Length
      BY DEF Lower
    <3> QED
      BY <1>0, <1>14, <2>2, <3>1
      DEF DrainDone, FileTypes, Seek, SeekFlac, SeekStream, NoRead
  <2> QED
    BY <1>14, <2>1, <2>2 DEF DrainDone
<1>15. CASE Cleanup
  BY <1>15, TypesKept DEF Cleanup
<1>16. CASE SignalHandler
  BY <1>16, TypesKept DEF SignalHandler
<1>17. CASE Play
  BY <1>17, TypesKept DEF Play
<1>20. CASE Take
  BY <1>20, TypesKept DEF Take
<1>18. CASE LoseDevice
  BY <1>18, TypesKept DEF LoseDevice
<1>19. CASE UNCHANGED vars
  BY <1>19, TypesKept DEF vars, settings
<1> QED
  BY <1>1, <1>2, <1>3, <1>4, <1>5, <1>6, <1>7, <1>8, <1>9, <1>10, <1>11, <1>12, <1>13,
     <1>14, <1>15, <1>16, <1>17, <1>18, <1>19, <1>20
  DEF Next, PlayerStep, SetUp, Turn, Device

(* ... and of the output's, with the chunk. *)
LEMMA OutTypesStep ==
    ASSUME Types, Reads, [Next]_vars
    PROVE  OutTypes'
<1> USE Parameters DEF Types
<1>0. << >> \in Seq(F) /\ Len(<< >>) = 0
  BY EmptySeq
<1>1. CASE OpenDecoder
  BY <1>1, TypesKept DEF OpenDecoder
<1>2. CASE InitOutput
  BY <1>2, TypesKept DEF InitOutput
<1>3. CASE StartOutput
  BY <1>3 DEF StartOutput, OutTypes
<1>4. CASE Interrupted
  BY <1>4, TypesKept DEF Interrupted
<1>5. CASE NoKey
  BY <1>5, TypesKept DEF NoKey
<1>6. ASSUME NEW works \in BOOLEAN, ToggleKey(works)
      PROVE  OutTypes'
  BY <1>6 DEF ToggleKey, OutTypes
<1>7. CASE Fill
  BY <1>7, TypesKept DEF Fill
<1>8. CASE ReadOn
  BY <1>8, TypesKept DEF ReadOn
<1>9. CASE ReadDone
  BY <1>0, <1>9 DEF ReadDone, Reads, OutTypes, FileTypes
<1>10. CASE WriteOut
  <2> USE DEF OutTypes
  <2> DEFINE k == Lower(Len(pending), Room)
  <2>1. Len(pending) \in Nat /\ Len(out.queue) \in Nat
    BY LenProperties
  <2>2. k \in 0 .. Len(pending) /\ Len(out.queue) + k <= QueueSize
    BY <2>1 DEF Lower, Room
  <2>3. \/ UNCHANGED <<pending, out>>
        \/ /\ out' = [out EXCEPT !.queue = @ \o SubSeq(pending, 1, k)]
           /\ pending' = SubSeq(pending, k + 1, Len(pending))
    BY <1>10 DEF WriteOut, Rest, Leave
  <2> HIDE DEF k
  <2>4. /\ SubSeq(pending, 1, k) \in Seq(F) /\ Len(SubSeq(pending, 1, k)) = k
        /\ SubSeq(pending, k + 1, Len(pending)) \in Seq(F)
        /\ Len(SubSeq(pending, k + 1, Len(pending))) = Len(pending) - k
    BY <2>2, Cut
  <2>5. /\ out.queue \o SubSeq(pending, 1, k) \in Seq(F)
        /\ Len(out.queue \o SubSeq(pending, 1, k)) = Len(out.queue) + k
    BY <2>4, ConcatProperties
  <2>6. pending' \in Seq(F) /\ Len(pending') <= Chunk
    <3>1. CASE UNCHANGED pending
      BY <3>1
    <3>2. CASE pending' = SubSeq(pending, k + 1, Len(pending))
      <4>1. Len(pending') = Len(pending) - k /\ pending' \in Seq(F)
        BY <2>4, <3>2
      <4> QED
        BY <2>1, <2>2, <4>1
    <3> QED
      BY <2>3, <3>1, <3>2
  <2>7. /\ out' \in [state : {"STOPPED", "PLAYING", "PAUSED"}, queue : Seq(F),
                    device : Seq(F), blocking : BOOLEAN, lost : BOOLEAN]
        /\ Len(out'.queue) <= QueueSize /\ Len(out'.device) <= DeviceSize
    BY <2>2, <2>3, <2>5
  <2> QED
    BY <1>10, <2>6, <2>7 DEF WriteOut
<1>11. CASE NotDraining
  BY <1>11, TypesKept DEF NotDraining
<1>12. CASE DrainFails
  BY <1>12, TypesKept DEF DrainFails
<1>13. CASE DrainPending
  BY <1>13, TypesKept DEF DrainPending
<1>14. CASE DrainDone
  BY <1>14, TypesKept DEF DrainDone
<1>15. CASE Cleanup
  <2>1. /\ out' = [out EXCEPT !.state = "STOPPED", !.queue = << >>, !.device = << >>]
        /\ UNCHANGED <<pending, heard>>
    BY <1>15 DEF Cleanup
  <2>2. out' \in [state : {"STOPPED", "PLAYING", "PAUSED"}, queue : Seq(F), device : Seq(F),
                 blocking : BOOLEAN, lost : BOOLEAN]
    BY <1>0, <2>1 DEF OutTypes
  <2>3. out'.queue = << >> /\ out'.device = << >>
    BY <2>1 DEF OutTypes
  <2>4. Len(out'.queue) <= QueueSize /\ Len(out'.device) <= DeviceSize
    BY <1>0, <2>3
  <2> QED
    BY <2>1, <2>2, <2>4 DEF OutTypes
<1>16. CASE SignalHandler
  BY <1>16, TypesKept DEF SignalHandler
<1>17. CASE Play
  <2> USE DEF OutTypes
  <2>1. out.device \in Seq(F) /\ out.device # << >> /\ Len(out.device) \in Nat
    BY <1>17, LenProperties DEF Play
  <2>2. /\ Head(out.device) \in F /\ Tail(out.device) \in Seq(F)
        /\ Len(Tail(out.device)) = Len(out.device) - 1
    BY <2>1, HeadTailProperties
  <2>3. heard' \in 0 .. Length /\ UNCHANGED pending
    BY <1>17, <2>2 DEF Play, F
  <2>4. out' = [out EXCEPT !.device = Tail(out.device)]
    BY <1>17 DEF Play
  <2>5. /\ out' \in [state : {"STOPPED", "PLAYING", "PAUSED"}, queue : Seq(F),
                    device : Seq(F), blocking : BOOLEAN, lost : BOOLEAN]
        /\ Len(out'.device) = Len(out.device) - 1 /\ out'.queue = out.queue
    BY <2>2, <2>4
  <2> QED
    BY <2>1, <2>3, <2>5
<1>20. CASE Take
  <2> USE DEF OutTypes
  <2>1. /\ out.queue \in Seq(F) /\ out.queue # << >> /\ Len(out.queue) \in Nat
        /\ out.device \in Seq(F) /\ Len(out.device) < DeviceSize /\ Len(out.device) \in Nat
    BY <1>20, LenProperties DEF Take
  <2>2. /\ Head(out.queue) \in F /\ Tail(out.queue) \in Seq(F)
        /\ Len(Tail(out.queue)) = Len(out.queue) - 1
    BY <2>1, HeadTailProperties
  <2> DEFINE d == Append(out.device, Head(out.queue))
  <2>3. d \in Seq(F) /\ Len(d) = Len(out.device) + 1
    BY <2>1, <2>2, AppendProperties
  <2> HIDE DEF d
  <2>4. out' = [out EXCEPT !.queue = Tail(out.queue), !.device = d] /\ UNCHANGED <<pending, heard>>
    BY <1>20 DEF Take, d
  <2>5. /\ out' \in [state : {"STOPPED", "PLAYING", "PAUSED"}, queue : Seq(F),
                    device : Seq(F), blocking : BOOLEAN, lost : BOOLEAN]
        /\ Len(out'.queue) = Len(out.queue) - 1 /\ Len(out'.device) = Len(out.device) + 1
    BY <2>2, <2>3, <2>4
  <2> QED
    BY <2>1, <2>4, <2>5
<1>18. CASE LoseDevice
  BY <1>18 DEF LoseDevice, OutTypes
<1>19. CASE UNCHANGED vars
  BY <1>19, TypesKept DEF vars
<1> QED
  BY <1>1, <1>2, <1>3, <1>4, <1>5, <1>6, <1>7, <1>8, <1>9, <1>10, <1>11, <1>12, <1>13,
     <1>14, <1>15, <1>16, <1>17, <1>18, <1>19, <1>20
  DEF Next, PlayerStep, SetUp, Turn, Device

-----------------------------------------------------------------------------
(* One step of a read: it delivers no more than was asked for, tells the end
   only at the end, and an error only when there was one. *)
LEMMA ReadStep ==
    ASSUME Types, Reads, Ends, ReadOn
    PROVE  /\ reading'.want = reading.want /\ Len(reading'.got) <= Chunk
           /\ reading'.status \in {"busy", "done", "failed"}
           /\ reading'.status = "failed" => broken'
           /\ kind # "FLAC" => buffered' = << >> /\ reading'.status # "busy"
           /\ eof' => position' = Length /\ buffered' = << >>
           /\ reading'.status = "done" /\ reading'.got = << >> =>
                 (position' = Length /\ buffered' = << >>) \/ broken'
<1> USE Parameters DEF Types, FileTypes
<1>0. /\ pc = "read" /\ reading.status = "busy" /\ reading.want = Chunk
      /\ Len(reading.got) <= Chunk /\ Len(reading.got) \in Nat /\ Len(buffered) \in Nat
      /\ Len(<< >>) = 0
  BY LenProperties, EmptySeq DEF ReadOn, Reading, Reads
<1>1. CASE ReadWave \/ ReadNewFormat
  <2>1. PICK n \in 0 .. Lower(reading.want, Length - position) :
           /\ reading' = [reading EXCEPT !.status = "done", !.got = FramesAfter(position, n)]
           /\ position' = position + n
           /\ broken' = (broken \/ n < Lower(reading.want, Length - position))
    BY <1>1 DEF ReadWave, ReadNewFormat, ReadSome, ReadReturns
  <2>2. n \in Nat /\ n <= Chunk /\ n <= Length - position
    BY <1>0, <2>1 DEF Lower
  <2>3. Len(FramesAfter(position, n)) = n
    <3>1. Len(FramesAfter(position, n)) = Lower(n, Length - position)
      BY <2>2, FramesAfterIs
    <3> QED
      BY <2>2, <3>1 DEF Lower
  <2>7. /\ UNCHANGED <<kind, eof>> /\ buffered' = << >>
        /\ eof => position' = Length
    <3>1. UNCHANGED <<kind, eof, buffered>> /\ kind # "FLAC"
      BY <1>1 DEF ReadWave, ReadNewFormat, ReadSome
    <3>2. eof => position' = Length
      BY <2>1, <2>2 DEF Ends
    <3> QED
      BY <3>1, <3>2 DEF Ends
  <2>4. /\ reading'.got = FramesAfter(position, n) /\ reading'.want = reading.want
        /\ reading'.status = "done"
    BY <2>1
  <2>5. CASE n < Lower(reading.want, Length - position)
    <3>1. broken'
      BY <2>1, <2>5
    <3> QED
      BY <2>2, <2>3, <2>4, <2>7, <3>1
  <2>6. CASE n = Lower(reading.want, Length - position)
    <3>1. reading'.got = << >> => position' = Length
      BY <1>0, <2>1, <2>3, <2>4, <2>6 DEF Lower
    <3> QED
      BY <2>2, <2>3, <2>4, <2>7, <3>1
  <2> QED
    BY <2>1, <2>2, <2>5, <2>6 DEF Lower
<1>2. CASE ReadMp3
  <2>0. kind = "MP3" /\ UNCHANGED buffered /\ buffered = << >>
    BY <1>2 DEF ReadMp3, Ends
  <2>1. CASE eof
    <3>1. reading' = [reading EXCEPT !.status = "done", !.got = << >>] /\ UNCHANGED position
      BY <1>2, <2>1 DEF ReadMp3, ReadReturns
    <3>2. reading'.want = reading.want /\ reading'.got = << >> /\ reading'.status = "done"
      BY <3>1
    <3>3. position = Length
      BY <2>1 DEF Ends
    <3> QED
      BY <1>0, <2>0, <3>1, <3>2, <3>3
  <2>2. CASE ~eof /\ reading'.status = "failed"
    <3>1. reading' # [reading EXCEPT !.status = "done", !.got = FramesAfter(position, reading.want)]
      BY <2>2
    <3>2. reading' = [reading EXCEPT !.status = "failed"] /\ broken' /\ ~eof'
      BY <1>2, <2>2, <3>1 DEF ReadMp3, ReadReturns, ReadFails
    <3> QED
      BY <1>0, <2>0, <2>2, <3>2
  <2>3. CASE ~eof /\ reading'.status # "failed"
    <3> DEFINE s == FramesAfter(position, reading.want)
    <3>1. /\ reading' = [reading EXCEPT !.status = "done", !.got = s]
          /\ position' = Lower(position + reading.want, Length)
          /\ eof' = (position + reading.want > Length)
          /\ buffered' = buffered /\ kind = "MP3"
      BY <1>2, <2>3 DEF ReadMp3, ReadReturns, ReadFails
    <3>2. Len(s) = Lower(reading.want, Length - position)
      BY FramesAfterIs
    <3>3. Len(s) <= Chunk /\ (s = << >> => position = Length)
      BY <1>0, <3>2 DEF Lower
    <3>4. (eof' => position' = Length) /\ (position = Length => position' = Length)
      <4>1. Chunk \in Nat /\ position \in 0 .. Length /\ Length \in Nat
        OBVIOUS
      <4>2. CASE position + Chunk > Length
        BY <1>0, <3>1, <4>1, <4>2 DEF Lower
      <4>3. CASE position + Chunk <= Length
        <5>1. position' = position + Chunk
          BY <1>0, <3>1, <4>1, <4>3 DEF Lower
        <5>2. position + Chunk \in Int /\ eof' = (position + Chunk > Length)
          BY <1>0, <3>1, <4>1
        <5>3. eof' => position + Chunk > Length
          BY <4>1, <5>2
        <5> QED
          BY <4>1, <4>3, <5>1, <5>3
      <4> QED
        BY <4>1, <4>2, <4>3
    <3> HIDE DEF s
    <3>5. reading'.got = s /\ reading'.want = reading.want /\ reading'.status = "done"
      BY <3>1
    <3>6. buffered' = << >>
      BY <3>1 DEF Ends
    <3> QED
      BY <3>3, <3>4, <3>5, <3>6
  <2> QED
    BY <2>1, <2>2, <2>3
<1>3. CASE ReadFlac /\ FlacCopy
  <2> DEFINE k == Lower(reading.want - Len(reading.got), Len(buffered))
  <2>1. k \in 0 .. Len(buffered) /\ Len(reading.got) + k <= Chunk
    <3>1. Len(reading.got) < Chunk
      BY <1>0, <1>3 DEF FlacCopy
    <3> QED
      BY <1>0, <3>1 DEF Lower
  <2> HIDE DEF k
  <2>2. SubSeq(buffered, 1, k) \in Seq(F) /\ Len(SubSeq(buffered, 1, k)) = k
    BY <2>1, Cut
  <2>3. Len(reading.got \o SubSeq(buffered, 1, k)) = Len(reading.got) + k
    BY <2>2, ConcatProperties
  <2>4. reading' = [reading EXCEPT !.got = reading.got \o SubSeq(buffered, 1, k)]
    BY <1>3 DEF FlacCopy, k
  <2>5. /\ reading'.want = reading.want /\ reading'.status = "busy"
        /\ reading'.got = reading.got \o SubSeq(buffered, 1, k)
    BY <1>0, <2>4
  <2>6. kind = "FLAC" /\ ~eof' 
    BY <1>3 DEF ReadFlac, FlacCopy
  <2> QED
    BY <2>1, <2>3, <2>5, <2>6
<1>4. CASE ReadFlac /\ FlacDecode
  BY <1>0, <1>4 DEF ReadFlac, FlacDecode, ReadFails
<1>5. CASE ReadFlac /\ FlacReturn
  <2>1. eof \/ Len(reading.got) = Chunk
    BY <1>0, <1>5 DEF FlacReturn
  <2>2. reading.got = << >> => eof
    BY <1>0, <2>1
  <2> QED
    BY <1>0, <1>5, <2>2 DEF ReadFlac, FlacReturn, ReadReturns, Ends
<1> QED
  BY <1>1, <1>2, <1>3, <1>4, <1>5 DEF ReadOn, Reading, ReadFlac

(* A step that moves between labels without a read keeps both parts. *)
LEMMA PartsKept ==
    /\ Reads /\ pc # "read" /\ pc' # "read" /\ UNCHANGED reading => Reads'
    /\ Reads /\ UNCHANGED <<pc, reading, pending, is_draining, broken>> => Reads'
    /\ Ends /\ UNCHANGED <<kind, position, buffered, eof, reading, pending, is_draining, broken>>
         => Ends'
BY DEF Reads, Ends

(* Every step keeps Reads and Ends. *)
LEMMA ReadsStep ==
    ASSUME Types, Reads, Ends, [Next]_vars
    PROVE  Reads'
<1> USE Parameters DEF GoTo, decoderVars, file, control
<1>1. CASE OpenDecoder
  BY <1>1, PartsKept DEF OpenDecoder
<1>2. CASE InitOutput
  BY <1>2, PartsKept DEF InitOutput
<1>3. CASE StartOutput
  BY <1>3, PartsKept DEF StartOutput
<1>4. CASE Interrupted
  BY <1>4, PartsKept DEF Interrupted, Leave
<1>5. CASE NoKey
  BY <1>5, PartsKept DEF NoKey
<1>6. ASSUME NEW works \in BOOLEAN, ToggleKey(works)
      PROVE  Reads'
  BY <1>6, PartsKept DEF ToggleKey
<1>7. CASE Fill
  <2>1. CASE UNCHANGED decoderVars /\ pc' = "write"
    BY <1>7, <2>1, PartsKept DEF Fill
  <2>2. CASE ReadCall(Chunk) /\ pc' = "read"
    <3>1. pending = << >> /\ ~is_draining
      BY <1>7, <2>2 DEF Fill
    <3>2. reading' = [status |-> "busy", want |-> Chunk, got |-> << >>] /\ Len(<< >>) = 0
      BY <2>2, EmptySeq DEF ReadCall
    <3> QED
      BY <1>7, <2>2, <3>1, <3>2 DEF Fill, Reads
  <2> QED
    BY <1>7, <2>1, <2>2 DEF Fill
<1>8. CASE ReadOn
  BY <1>8, ReadStep DEF ReadOn, Reads
<1>9. CASE ReadDone
  BY <1>9 DEF ReadDone, Leave, Reads, NoRead
<1>10. CASE WriteOut
  BY <1>10, PartsKept DEF WriteOut, Leave
<1>11. CASE NotDraining
  BY <1>11, PartsKept DEF NotDraining
<1>12. CASE DrainFails
  BY <1>12, PartsKept DEF DrainFails, Leave
<1>13. CASE DrainPending
  BY <1>13, PartsKept DEF DrainPending
<1>14. CASE DrainDone
  <2>1. pc # "read" /\ pc' # "read" /\ (UNCHANGED reading \/ reading' = NoRead)
    BY <1>14 DEF DrainDone, Leave, Seek
  <2> QED
    BY <2>1 DEF Reads
<1>15. CASE Cleanup
  BY <1>15, PartsKept DEF Cleanup
<1>16. CASE SignalHandler
  BY <1>16, PartsKept DEF SignalHandler
<1>17. CASE Play
  BY <1>17, PartsKept DEF Play
<1>20. CASE Take
  BY <1>20, PartsKept DEF Take
<1>18. CASE LoseDevice
  BY <1>18, PartsKept DEF LoseDevice
<1>19. CASE UNCHANGED vars
  BY <1>19, PartsKept DEF vars
<1> QED
  BY <1>1, <1>2, <1>3, <1>4, <1>5, <1>6, <1>7, <1>8, <1>9, <1>10, <1>11, <1>12, <1>13,
     <1>14, <1>15, <1>16, <1>17, <1>18, <1>19, <1>20
  DEF Next, PlayerStep, SetUp, Turn, Device

(* At the end of the file. *)
LEMMA EndsStep ==
    ASSUME Types, Reads, Ends, [Next]_vars
    PROVE  Ends'
<1> USE Parameters DEF GoTo, decoderVars, file, control
<1>1. CASE OpenDecoder
  BY <1>1, PartsKept DEF OpenDecoder
<1>2. CASE InitOutput
  BY <1>2, PartsKept DEF InitOutput
<1>3. CASE StartOutput
  BY <1>3, PartsKept DEF StartOutput
<1>4. CASE Interrupted
  BY <1>4, PartsKept DEF Interrupted
<1>5. CASE NoKey
  BY <1>5, PartsKept DEF NoKey
<1>6. ASSUME NEW works \in BOOLEAN, ToggleKey(works)
      PROVE  Ends'
  BY <1>6, PartsKept DEF ToggleKey
<1>7. CASE Fill
  <2>1. UNCHANGED <<position, buffered, eof, kind, broken, pending, is_draining>>
    BY <1>7 DEF Fill, ReadCall
  <2>2. UNCHANGED reading \/ (reading'.status = "busy" /\ reading'.got = << >>)
    BY <1>7 DEF Fill, ReadCall
  <2> QED
    BY <2>1, <2>2 DEF Ends
<1>8. CASE ReadOn
  BY <1>8, ReadStep, ReadTypes DEF ReadOn, Reads, Ends
<1>9. CASE ReadDone
  BY <1>9 DEF ReadDone, Leave, NoRead, Reads, Ends
<1>10. CASE WriteOut
  BY <1>10 DEF WriteOut, Ends
<1>11. CASE NotDraining
  BY <1>11, PartsKept DEF NotDraining
<1>12. CASE DrainFails
  BY <1>12, PartsKept DEF DrainFails
<1>13. CASE DrainPending
  BY <1>13, PartsKept DEF DrainPending
<1>14. CASE DrainDone
  <2>1. CASE UNCHANGED <<decoderVars, is_draining>>
    BY <1>14, <2>1, PartsKept DEF DrainDone
  <2>2. CASE Seek(0) /\ ~is_draining'
    <3>1. /\ kind # "FLAC" => buffered' = << >>
          /\ ~eof' /\ reading' = NoRead /\ UNCHANGED kind
      BY <2>2 DEF Seek, SeekFlac, SeekStream, Ends
    <3> QED
      BY <2>2, <3>1 DEF Ends, NoRead
  <2> QED
    BY <1>14, <2>1, <2>2 DEF DrainDone
<1>15. CASE Cleanup
  BY <1>15, PartsKept DEF Cleanup
<1>16. CASE SignalHandler
  BY <1>16, PartsKept DEF SignalHandler
<1>17. CASE Play
  BY <1>17, PartsKept DEF Play
<1>20. CASE Take
  BY <1>20, PartsKept DEF Take
<1>18. CASE LoseDevice
  BY <1>18, PartsKept DEF LoseDevice
<1>19. CASE UNCHANGED vars
  BY <1>19, PartsKept DEF vars
<1> QED
  BY <1>1, <1>2, <1>3, <1>4, <1>5, <1>6, <1>7, <1>8, <1>9, <1>10, <1>11, <1>12, <1>13,
     <1>14, <1>15, <1>16, <1>17, <1>18, <1>19, <1>20
  DEF Next, PlayerStep, SetUp, Turn, Device

-----------------------------------------------------------------------------
(* A file found to be broken stays so, and a closed player stays closed. *)
LEMMA SoundStays ==
    ASSUME Types, [Next]_vars
    PROVE  /\ UNCHANGED <<kind, loop_mode>> /\ (broken => broken')
           /\ Sound' => Sound
           /\ pc' # "closed" => pc # "closed"
<1> USE DEF GoTo, decoderVars, file, settings
<1> DEFINE Goal == /\ UNCHANGED <<kind, loop_mode>> /\ (broken => broken')
                   /\ pc' # "closed" => pc # "closed"
<1> SUFFICES Goal
  BY DEF Sound
<1>1. CASE OpenDecoder
  BY <1>1 DEF OpenDecoder
<1>2. CASE InitOutput
  BY <1>2 DEF InitOutput
<1>3. CASE StartOutput
  BY <1>3 DEF StartOutput
<1>4. CASE Interrupted
  BY <1>4 DEF Interrupted, Leave
<1>5. CASE NoKey
  BY <1>5 DEF NoKey
<1>6. ASSUME NEW works \in BOOLEAN, ToggleKey(works)
      PROVE  Goal
  BY <1>6 DEF ToggleKey
<1>7. CASE Fill
  BY <1>7 DEF Fill, ReadCall
<1>8. CASE ReadOn
  <2>1. UNCHANGED <<pc, loop_mode>>
    BY <1>8 DEF ReadOn
  <2>2. CASE ReadWave \/ ReadNewFormat
    BY <2>1, <2>2 DEF ReadWave, ReadNewFormat, ReadSome
  <2>3. CASE ReadMp3
    BY <2>1, <2>3 DEF ReadMp3, ReadFails
  <2>4. CASE ReadFlac
    BY <2>1, <2>4 DEF ReadFlac, FlacCopy, FlacDecode, FlacReturn, ReadFails
  <2> QED
    BY <1>8, <2>2, <2>3, <2>4 DEF ReadOn, Reading
<1>9. CASE ReadDone
  BY <1>9 DEF ReadDone, Leave
<1>10. CASE WriteOut
  BY <1>10 DEF WriteOut, Leave
<1>11. CASE NotDraining
  BY <1>11 DEF NotDraining
<1>12. CASE DrainFails
  BY <1>12 DEF DrainFails, Leave
<1>13. CASE DrainPending
  BY <1>13 DEF DrainPending
<1>14. CASE DrainDone
  <2>1. pc = "drain" /\ UNCHANGED loop_mode
    BY <1>14 DEF DrainDone
  <2>2. UNCHANGED decoderVars \/ Seek(0)
    BY <1>14 DEF DrainDone
  <2> QED
    BY <2>1, <2>2 DEF Seek
<1>15. CASE Cleanup
  BY <1>15 DEF Cleanup
<1>16. CASE SignalHandler
  BY <1>16 DEF SignalHandler
<1>17. CASE Play
  BY <1>17 DEF Play
<1>20. CASE Take
  BY <1>20 DEF Take
<1>18. CASE LoseDevice
  BY <1>18 DEF LoseDevice
<1>19. CASE UNCHANGED vars
  BY <1>19 DEF vars
<1> QED
  BY <1>1, <1>2, <1>3, <1>4, <1>5, <1>6, <1>7, <1>8, <1>9, <1>10, <1>11, <1>12, <1>13,
     <1>14, <1>15, <1>16, <1>17, <1>18, <1>19, <1>20
  DEF Next, PlayerStep, SetUp, Turn, Device

(* Steps that leave every frame where it is. *)
Quiet ==
    \/ OpenDecoder \/ InitOutput \/ StartOutput
    \/ Interrupted \/ NoKey \/ (\E works \in BOOLEAN : ToggleKey(works))
    \/ Fill \/ NotDraining \/ DrainFails \/ DrainPending
    \/ SignalHandler \/ LoseDevice \/ UNCHANGED vars

(* They leave all of them in place. *)
LEMMA QuietMoves ==
    ASSUME Types, Reads, Quiet
    PROVE  UNCHANGED Data
<1> USE DEF Types, OutTypes, Data, GoTo, decoderVars, file, settings
<1>1. CASE OpenDecoder
  BY <1>1 DEF OpenDecoder
<1>2. CASE InitOutput
  BY <1>2 DEF InitOutput
<1>3. CASE StartOutput
  BY <1>3 DEF StartOutput
<1>4. CASE Interrupted
  BY <1>4 DEF Interrupted, Leave
<1>5. CASE NoKey
  BY <1>5 DEF NoKey
<1>6. ASSUME NEW works \in BOOLEAN, ToggleKey(works)
      PROVE  UNCHANGED Data
  BY <1>6 DEF ToggleKey
<1>7. CASE Fill
  BY <1>7 DEF Fill, ReadCall, Reads, NoRead
<1>8. CASE NotDraining
  BY <1>8 DEF NotDraining
<1>9. CASE DrainFails
  BY <1>9 DEF DrainFails, Leave
<1>10. CASE DrainPending
  BY <1>10 DEF DrainPending
<1>11. CASE SignalHandler
  BY <1>11 DEF SignalHandler
<1>12. CASE LoseDevice
  BY <1>12 DEF LoseDevice
<1>13. CASE UNCHANGED vars
  BY <1>13 DEF vars
<1> QED
  BY <1>1, <1>2, <1>3, <1>4, <1>5, <1>6, <1>7, <1>8, <1>9, <1>10, <1>11, <1>12, <1>13
     DEF Quiet

(* The line grows by what a parser reads, while the parser holds nothing. *)
Grows ==
    \E n \in Nat :
        /\ Line' = Line \o FramesAfter(position, n)
        /\ position' = position + Len(FramesAfter(position, n))
        /\ UNCHANGED heard

(* The first frame of the line is heard. *)
Shrinks ==
    /\ Line # << >>
    /\ heard' = Head(Line) /\ Line' = Tail(Line)
    /\ UNCHANGED position

(* The next pass begins. *)
Rewinds ==
    /\ loop_mode /\ position = Length /\ position' = 0
    /\ UNCHANGED <<Line, heard>>

(* A step of the read either grows the line, or moves frames on it, or fails. *)
LEMMA ReadMoves ==
    ASSUME Types, Reads, Ends, ReadOn, Sound'
    PROVE  Grows \/ UNCHANGED <<Line, position, heard>>
<1> USE Parameters DEF Types, FileTypes
<1>0. /\ pc = "read" /\ reading.status = "busy" /\ reading.want = Chunk
      /\ UNCHANGED <<pending, out, heard>> /\ ~broken'
  BY DEF ReadOn, Reading, Reads, Sound
<1> DEFINE q == (out.device \o out.queue) \o pending
<1>q. q \in Seq(F) /\ << >> \in Seq(F) /\ Len(<< >>) = 0 /\ q' = q
  BY <1>0, LineIs, EmptySeq, ConcatProperties
<1>l. Line = (q \o reading.got) \o buffered /\ Line' = (q \o reading'.got) \o buffered'
  BY <1>0 DEF Line
<1> HIDE DEF q
<1>1. ASSUME NEW n \in Nat, buffered = << >>,
             \/ /\ reading'.got = FramesAfter(position, n) /\ reading.got = << >>
                /\ UNCHANGED buffered
             \/ /\ buffered' = FramesAfter(position, n) /\ UNCHANGED reading,
             position' = position + Len(FramesAfter(position, n))
      PROVE  Grows
  <2> DEFINE s == FramesAfter(position, n)
             t == q \o reading.got
  <2>1. s \in Seq(F) /\ t \in Seq(F)
    BY <1>q, FramesAfterIs, LineIs, ConcatProperties
  <2> HIDE DEF s
  <2>2. Line = t
    BY <1>1, <1>l, <2>1, ConcatEmptySeq
  <2>3. Line' = t \o s
    <3>1. CASE reading'.got = s /\ reading.got = << >> /\ UNCHANGED buffered
      <4>1. t = q /\ q \o s \in Seq(F)
        BY <1>q, <2>1, <3>1, ConcatEmptySeq, ConcatProperties
      <4>2. Line' = (q \o s) \o << >>
        BY <1>1, <1>l, <3>1
      <4> QED
        BY <4>1, <4>2, ConcatEmptySeq
    <3>2. CASE buffered' = s /\ UNCHANGED reading
      BY <1>l, <3>2
    <3> QED
      BY <1>1, <3>1, <3>2 DEF s
  <2> QED
    BY <1>0, <1>1, <2>2, <2>3 DEF Grows, s
<1>2. CASE ReadWave \/ ReadNewFormat
  <2>1. PICK n \in 0 .. Lower(reading.want, Length - position) :
           /\ reading' = [reading EXCEPT !.status = "done", !.got = FramesAfter(position, n)]
           /\ position' = position + n
    BY <1>2 DEF ReadWave, ReadNewFormat, ReadSome, ReadReturns
  <2>2. n \in Nat /\ n <= Length - position
    BY <1>0, <2>1 DEF Lower
  <2>3. Len(FramesAfter(position, n)) = n
    <3>1. Len(FramesAfter(position, n)) = Lower(n, Length - position)
      BY <2>2, FramesAfterIs
    <3> QED
      BY <2>2, <3>1 DEF Lower
  <2>4. reading'.got = FramesAfter(position, n)
    BY <2>1
  <2>5. buffered = << >> /\ UNCHANGED buffered /\ reading.got = << >> /\ Len(<< >>) = 0
    BY <1>0, <1>2, EmptySeq DEF ReadWave, ReadNewFormat, Ends
  <2> QED
    BY <1>1, <2>1, <2>2, <2>3, <2>4, <2>5
<1>3. CASE ReadMp3
  <2>1. buffered = << >> /\ UNCHANGED buffered /\ reading.got = << >> /\ Len(<< >>) = 0
    BY <1>0, <1>3, EmptySeq DEF ReadMp3, Ends
  <2>2. CASE eof
    <3>1. reading' = [reading EXCEPT !.status = "done", !.got = << >>] /\ UNCHANGED position
      BY <1>3, <2>2 DEF ReadMp3, ReadReturns
    <3>2. reading'.got = reading.got
      BY <2>1, <3>1
    <3> QED
      BY <1>0, <2>1, <3>1, <3>2 DEF Line
  <2>3. CASE ~eof
    <3> DEFINE s == FramesAfter(position, reading.want)
    <3>1. /\ reading' = [reading EXCEPT !.status = "done", !.got = s]
          /\ position' = Lower(position + reading.want, Length)
      BY <1>0, <1>3, <2>3 DEF ReadMp3, ReadReturns, ReadFails
    <3>2. Len(s) = Lower(reading.want, Length - position)
      BY FramesAfterIs
    <3>3. position' = position + Len(s)
      BY <1>0, <3>1, <3>2 DEF Lower
    <3> HIDE DEF s
    <3>4. reading'.got = s
      BY <3>1
    <3> QED
      BY <1>1, <2>1, <3>3, <3>4 DEF s
  <2> QED
    BY <2>2, <2>3
<1>4. CASE ReadFlac /\ FlacCopy
  <2> DEFINE k == Lower(reading.want - Len(reading.got), Len(buffered))
             a == SubSeq(buffered, 1, k)
             b == SubSeq(buffered, k + 1, Len(buffered))
  <2>1. k \in 0 .. Len(buffered)
    <3>1. Len(reading.got) \in Nat /\ Len(buffered) \in Nat /\ reading.want \in Nat
      BY LenProperties
    <3>2. Len(reading.got) < reading.want
      BY <1>4 DEF FlacCopy
    <3> QED
      BY <3>1, <3>2 DEF Lower
  <2>2. /\ reading' = [reading EXCEPT !.got = reading.got \o a]
        /\ buffered' = b /\ UNCHANGED position
    BY <1>4 DEF FlacCopy
  <2>3. reading'.got = reading.got \o a
    BY <2>2
  <2> HIDE DEF k
  <2> QED
    BY <1>0, <2>1, <2>2, <2>3, CopyKeeps
<1>5. CASE ReadFlac /\ FlacDecode
  <2>1. CASE position < Length /\ buffered' = FramesAfter(position, Block - (position % Block))
    <3> DEFINE n == Block - (position % Block)
    <3>1. n \in Nat
      OBVIOUS
    <3> HIDE DEF n
    <3>2. buffered' = FramesAfter(position, n) /\ buffered = << >>
      BY <1>5, <2>1 DEF FlacDecode, n
    <3>3. UNCHANGED reading /\ position' = position + Len(buffered')
      BY <1>0, <1>5, <2>1 DEF FlacDecode, ReadFails
    <3> QED
      BY <1>1, <3>1, <3>2, <3>3
  <2> QED
    BY <1>0, <1>5, <2>1 DEF FlacDecode, ReadFails, Line
<1>6. CASE ReadFlac /\ FlacReturn
  <2>1. reading' = [reading EXCEPT !.status = "done", !.got = reading.got]
        /\ UNCHANGED <<position, buffered>>
    BY <1>6 DEF FlacReturn, ReadReturns
  <2>2. reading'.got = reading.got
    BY <2>1
  <2> QED
    BY <1>0, <2>1, <2>2 DEF Line
<1> QED
  BY <1>2, <1>3, <1>4, <1>5, <1>6 DEF ReadOn, Reading, ReadFlac

(* Every step of a sound player that goes on is one of these moves. *)
LEMMA Moves ==
    ASSUME Types, Reads, Ends, [Next]_vars, Sound', pc' # "closed"
    PROVE  Grows \/ Shrinks \/ Rewinds \/ UNCHANGED <<Line, position, heard>>
<1>1. CASE Quiet
  <2>1. UNCHANGED Data
    BY <1>1, QuietMoves
  <2> QED
    BY <2>1 DEF Data, Line
<1>2. CASE ReadOn
  BY <1>2, ReadMoves
<1>3. CASE ReadDone
  <2>1. reading.status # "failed" /\ pc = "read"
    BY <1>3 DEF ReadDone, Reads, Sound, file
  <2>2. /\ pending = << >> /\ pending' = reading.got /\ reading'.got = << >>
        /\ UNCHANGED <<position, buffered, out, heard>>
    BY <1>3, <2>1 DEF ReadDone, Reads, NoRead, file
  <2> DEFINE h == out.device \o out.queue
  <2>3. h \in Seq(F) /\ reading.got \in Seq(F) /\ h \o reading.got \in Seq(F)
    BY LineIs, ConcatProperties
  <2>4. Line = (h \o reading.got) \o buffered
    BY <2>2, <2>3, ConcatEmptySeq DEF Line
  <2>5. Line' = ((h \o reading.got) \o << >>) \o buffered
    BY <2>2 DEF Line
  <2> QED
    BY <2>2, <2>3, <2>4, <2>5, ConcatEmptySeq
<1>4. CASE WriteOut
  <2> DEFINE k == Lower(Len(pending), Room)
  <2>1. UNCHANGED <<reading, buffered, position, heard>>
    BY <1>4 DEF WriteOut, decoderVars, file
  <2>2. CASE UNCHANGED <<pending, out>>
    BY <2>1, <2>2 DEF Line
  <2>3. CASE /\ out' = [out EXCEPT !.queue = @ \o SubSeq(pending, 1, k)]
             /\ pending' = SubSeq(pending, k + 1, Len(pending))
    <3>1. k \in 0 .. Len(pending)
      <4>1. Len(pending) \in Nat /\ Len(out.queue) \in Nat /\ Len(out.queue) <= QueueSize
        BY LenProperties DEF Types, OutTypes
      <4> QED
        BY <4>1, Parameters DEF Lower, Room
    <3> HIDE DEF k
    <3>2. out'.queue = out.queue \o SubSeq(pending, 1, k) /\ out'.device = out.device
      BY <2>3 DEF Types, OutTypes
    <3> QED
      BY <2>1, <2>3, <3>1, <3>2, WriteKeeps
  <2> QED
    BY <1>4, <2>2, <2>3 DEF WriteOut, Rest
<1>5. CASE DrainDone
  <2>1. UNCHANGED <<pending, out, heard>> /\ is_draining
    BY <1>5 DEF DrainDone
  <2>2. CASE UNCHANGED decoderVars
    BY <2>1, <2>2 DEF decoderVars, file, Line
  <2>3. CASE loop_mode /\ Seek(0)
    <3>1. ~broken /\ kind # "FLAC" /\ reading = NoRead
      BY <1>5, <2>3, SoundStays DEF Sound, Seek, DrainDone, Reads
    <3>2. /\ position = Length /\ position' = 0 /\ UNCHANGED buffered
          /\ reading.got = << >> /\ reading'.got = << >>
      BY <2>1, <2>3, <3>1 DEF Ends, Seek, SeekStream, SeekFlac, NoRead
    <3> QED
      BY <2>1, <2>3, <3>2 DEF Rewinds, Line
  <2> QED
    BY <1>5, <2>2, <2>3 DEF DrainDone
<1>6. CASE Cleanup
  BY <1>6 DEF Cleanup, GoTo
<1>7. CASE Play
  <2>1. /\ out.device # << >> /\ heard' = Head(out.device)
        /\ out'.device = Tail(out.device) /\ out'.queue = out.queue
        /\ UNCHANGED <<position, pending, reading, buffered>>
    BY <1>7 DEF Play, Types, OutTypes, decoderVars, file
  <2> QED
    BY <2>1, PlayKeeps DEF Shrinks
<1>8. CASE Take
  <2>1. /\ out.queue # << >> /\ out'.queue = Tail(out.queue)
        /\ out'.device = Append(out.device, Head(out.queue))
        /\ UNCHANGED <<position, pending, reading, buffered, heard>>
    BY <1>8 DEF Take, Types, OutTypes, decoderVars, file
  <2> QED
    BY <2>1, TakeKeeps
<1> QED
  BY <1>1, <1>2, <1>3, <1>4, <1>5, <1>6, <1>7, <1>8
  DEF Next, PlayerStep, SetUp, Turn, Device, Quiet

(* Order is kept. *)
LEMMA FlowStep ==
    ASSUME Types, Types', Reads, Ends, Flow, [Next]_vars
    PROVE  Flow'
<1> DEFINE Ordered ==
              /\ Line # << >> => Follows(heard, Line[1])
              /\ \A i \in 1 .. Len(Line) - 1 : Follows(Line[i], Line[i + 1])
              /\ Latest = position \/ (Latest = Length /\ position = 0)
              /\ ~loop_mode => heard + Len(Line) = position
<1> SUFFICES ASSUME Sound', pc' # "closed"
             PROVE  Ordered'
  BY DEF Flow
<1>1. Ordered
  BY SoundStays DEF Flow
<1>l. loop_mode' = loop_mode
  BY SoundStays
<1>2. /\ Line \in Seq(F) /\ Len(Line) \in Nat /\ position \in 0 .. Length /\ Length \in Nat
      /\ heard \in 0 .. Length
      /\ \A i \in 1 .. Len(Line) : Line[i] \in F
  BY LineIs, ElementOfSeq, Parameters DEF Types, FileTypes, OutTypes
<1>3. CASE UNCHANGED <<Line, position, heard>>
  BY <1>1, <1>l, <1>3 DEF Follows, Latest
<1>4. CASE Grows
  <2>1. PICK n \in Nat :
           /\ Line' = Line \o FramesAfter(position, n)
           /\ position' = position + Len(FramesAfter(position, n))
           /\ UNCHANGED heard
    BY <1>4 DEF Grows
  <2> DEFINE s == FramesAfter(position, n)
  <2>2. s \in Seq(F) /\ Len(s) \in Nat /\ \A i \in 1 .. Len(s) : s[i] = position + i
    BY <1>2, FramesAfterIs, LenProperties
  <2>3. Line' = Line \o s /\ position' = position + Len(s) /\ heard' = heard
    BY <2>1
  <2> HIDE DEF s
  <2>4. /\ Line' \in Seq(F) /\ Len(Line') = Len(Line) + Len(s)
        /\ \A i \in 1 .. Len(Line) + Len(s) :
              Line'[i] = IF i <= Len(Line) THEN Line[i] ELSE s[i - Len(Line)]
    BY <1>2, <2>2, <2>3, ConcatProperties
  <2>5. CASE Len(s) = 0
    <3>1. s = << >>
      BY <2>2, <2>5, EmptySeq
    <3>2. Line' = Line /\ position' = position
      BY <1>2, <2>3, <2>5, <3>1, ConcatEmptySeq
    <3> QED
      BY <1>1, <1>l, <2>3, <3>2 DEF Follows, Latest
  <2>6. CASE Len(s) # 0
    <3>1. /\ Len(Line') \in Nat \ {0} /\ Line' # << >>
          /\ Line = << >> <=> Len(Line) = 0
      BY <1>2, <2>2, <2>4, <2>6, EmptySeq
    <3>2. ASSUME NEW i \in 1 .. Len(s)
          PROVE  Line'[Len(Line) + i] = position + i
      <4>1. Len(Line) + i \in 1 .. Len(Line) + Len(s) /\ ~(Len(Line) + i <= Len(Line))
        BY <1>2, <2>2
      <4>2. Line'[Len(Line) + i] = s[Len(Line) + i - Len(Line)]
        BY <2>4, <4>1
      <4>3. Len(Line) + i - Len(Line) = i
        BY <1>2, <2>2
      <4> QED
        BY <2>2, <4>2, <4>3
    <3>3. ASSUME NEW i \in 1 .. Len(Line)
          PROVE  Line'[i] = Line[i]
      BY <1>2, <2>2, <2>4
    <3>4. Follows(Latest, position + 1)
      BY <1>1 DEF Follows
    <3>5. Line'[Len(Line) + 1] = position + 1
      BY <2>2, <2>6, <3>2
    <3>6. Follows(heard', Line'[1])
      <4>1. CASE Line = << >>
        BY <1>2, <2>3, <3>1, <3>4, <3>5, <4>1 DEF Latest
      <4>2. CASE Line # << >>
        BY <1>1, <1>2, <2>3, <3>1, <3>3, <4>2
      <4> QED
        BY <4>1, <4>2
    <3>7. ASSUME NEW i \in 1 .. Len(Line') - 1
          PROVE  Follows(Line'[i], Line'[i + 1])
      <4>1. CASE i < Len(Line)
        BY <1>1, <1>2, <3>3, <4>1
      <4>2. CASE i = Len(Line)
        BY <1>2, <3>1, <3>3, <3>4, <3>5, <4>2 DEF Latest
      <4>3. CASE i > Len(Line)
        <5>1. i - Len(Line) \in 1 .. Len(s) /\ i + 1 - Len(Line) \in 1 .. Len(s)
          BY <1>2, <2>2, <2>4, <4>3
        <5>2. /\ Line'[Len(Line) + (i - Len(Line))] = position + (i - Len(Line))
              /\ Line'[Len(Line) + (i + 1 - Len(Line))] = position + (i + 1 - Len(Line))
          BY <3>2, <5>1
        <5>3. /\ Len(Line) + (i - Len(Line)) = i
              /\ Len(Line) + (i + 1 - Len(Line)) = i + 1
              /\ position + (i + 1 - Len(Line)) = position + (i - Len(Line)) + 1
          BY <1>2
        <5> QED
          BY <5>2, <5>3 DEF Follows
      <4> QED
        BY <1>2, <4>1, <4>2, <4>3
    <3>8. Latest' = position'
      BY <2>2, <2>3, <2>4, <2>6, <3>1, <3>2 DEF Latest
    <3>9. ~loop_mode => heard' + Len(Line') = position'
      <4>1. Len(Line') = Len(Line) + Len(s) /\ heard' = heard /\ position' = position + Len(s)
        BY <2>3, <2>4
      <4>2. heard + (Len(Line) + Len(s)) = heard + Len(Line) + Len(s)
        BY <1>2, <2>2
      <4>3. ~loop_mode => heard + Len(Line) = position
        BY <1>1
      <4> QED
        BY <4>1, <4>2, <4>3
    <3> QED
      BY <1>l, <3>6, <3>7, <3>8, <3>9, Zenon
  <2> QED
    BY <2>5, <2>6
<1>5. CASE Shrinks
  <2>1. Line # << >> /\ Line' = Tail(Line) /\ position' = position /\ heard' = Head(Line)
    BY <1>5 DEF Shrinks
  <2>2. /\ Tail(Line) \in Seq(F) /\ Len(Tail(Line)) = Len(Line) - 1
        /\ \A i \in 1 .. Len(Tail(Line)) : Tail(Line)[i] = Line[i + 1]
    BY <1>2, <2>1, HeadTailProperties
  <2>3. /\ heard' = Line[1] /\ Len(Line) >= 1 /\ Len(Line') = Len(Line) - 1
        /\ Line' = << >> <=> Len(Line') = 0
    <3>1. Line' \in Seq(F) /\ Len(Line') = Len(Line) - 1 /\ Head(Line) = Line[1]
      BY <2>1, <2>2
    <3>2. Len(Line) # 0
      BY <1>2, <2>1, EmptySeq
    <3>3. Line' = << >> <=> Len(Line') = 0
      BY <3>1, EmptySeq
    <3>4. Len(Line) >= 1
      BY <1>2, <3>2
    <3> QED
      BY <2>1, <3>1, <3>3, <3>4
  <2>4. \A i \in 1 .. Len(Line') : Line'[i] = Line[i + 1]
    BY <2>1, <2>2
  <2>5. Line' # << >> => Follows(heard', Line'[1])
    <3> SUFFICES ASSUME Line' # << >> PROVE Follows(heard', Line'[1])
      OBVIOUS
    <3>1. 1 \in 1 .. Len(Line') /\ 1 \in 1 .. Len(Line) - 1
      BY <1>2, <2>3
    <3>2. Line'[1] = Line[1 + 1] /\ Follows(Line[1], Line[1 + 1])
      BY <1>1, <2>4, <3>1
    <3> QED
      BY <2>3, <3>2
  <2>6. ASSUME NEW i \in 1 .. Len(Line') - 1
        PROVE  Follows(Line'[i], Line'[i + 1])
    <3>1. i \in 1 .. Len(Line') /\ i + 1 \in 1 .. Len(Line') /\ i + 1 \in 1 .. Len(Line) - 1
      BY <1>2, <2>3
    <3>2. Line'[i] = Line[i + 1] /\ Line'[i + 1] = Line[i + 1 + 1]
      BY <2>4, <3>1
    <3>3. Follows(Line[i + 1], Line[i + 1 + 1])
      BY <1>1, <3>1
    <3> QED
      BY <3>2, <3>3
  <2>7. Latest' = Latest
    <3>1. CASE Len(Line) = 1
      BY <1>2, <2>1, <2>3, <3>1 DEF Latest
    <3>2. CASE Len(Line) > 1
      <4>1. Len(Line') \in 1 .. Len(Line') /\ Len(Line') + 1 = Len(Line)
        BY <1>2, <2>3, <3>2
      <4>2. Line' # << >> /\ Line'[Len(Line')] = Line[Len(Line)]
        BY <2>3, <2>4, <4>1
      <4> QED
        BY <2>1, <4>2 DEF Latest
    <3> QED
      BY <1>2, <2>3, <3>1, <3>2
  <2>8. ~loop_mode => heard' + Len(Line') = position'
    <3> SUFFICES ASSUME ~loop_mode PROVE heard' + Len(Line') = position'
      OBVIOUS
    <3>1. heard + Len(Line) = position /\ Follows(heard, Line[1])
      BY <1>1, <2>1
    <3>2. heard' = heard + 1
      BY <1>2, <2>3, <3>1 DEF Follows
    <3>3. heard + 1 + (Len(Line) - 1) = heard + Len(Line)
      BY <1>2
    <3>4. heard' + Len(Line') = heard + 1 + (Len(Line) - 1)
      BY <2>3, <3>2
    <3> QED
      BY <2>1, <3>1, <3>3, <3>4
  <2>9. Latest' = position' \/ (Latest' = Length /\ position' = 0)
    BY <1>1, <2>1, <2>7
  <2> QED
    BY <1>l, <2>5, <2>6, <2>8, <2>9, Zenon
<1>6. CASE Rewinds
  <2>1. Latest = Length /\ Latest' = Latest
    BY <1>1, <1>2, <1>6 DEF Rewinds, Latest
  <2> QED
    BY <1>1, <1>l, <1>6, <2>1 DEF Rewinds, Follows
<1> QED
  BY <1>3, <1>4, <1>5, <1>6, Moves

(* A step that leaves the loop alone keeps the outcome. *)
LEMMA OutcomeKept ==
    /\ Outcome /\ (g_running' => g_running) /\ (broken => broken')
       /\ pc' \notin {"open", "closed"} /\ result # 0 /\ UNCHANGED result => Outcome'
    /\ Outcome /\ (g_running' => g_running) /\ (broken => broken')
       /\ UNCHANGED <<pc, result, heard, loop_mode, position, Line>>
       /\ out'.queue = out.queue /\ out'.device = out.device /\ out'.blocking = out.blocking
       => Outcome'
    /\ pc' = "cleanup" /\ result' = -1 => Outcome'
<1>1. Outcome /\ (g_running' => g_running) /\ (broken => broken')
        /\ pc' \notin {"open", "closed"} /\ result # 0 /\ UNCHANGED result => Outcome'
  BY DEF Outcome
<1>2. ASSUME Outcome, (g_running' => g_running), (broken => broken'),
             UNCHANGED <<pc, result, heard, loop_mode, position, Line>>,
             out'.queue = out.queue, out'.device = out.device, out'.blocking = out.blocking
      PROVE  Outcome'
  <2> HIDE DEF Line
  <2> QED
    BY <1>2 DEF Outcome
<1>3. pc' = "cleanup" /\ result' = -1 => Outcome'
  BY DEF Outcome
<1> QED
  BY <1>1, <1>2, <1>3

(* Every step keeps the outcome. *)
LEMMA OutcomeStep ==
    ASSUME PlayerInv, [Next]_vars
    PROVE  Outcome'
<1> USE DEF GoTo, control
<1>0. /\ Types /\ Reads /\ Ends /\ Flow /\ Outcome /\ (broken => broken')
      /\ (pc \notin {"cleanup", "closed"} => result # 0)
  BY SoundStays DEF PlayerInv, Outcome
<1>1. CASE OpenDecoder
  BY <1>0, <1>1 DEF OpenDecoder, Outcome
<1>2. CASE InitOutput
  BY <1>0, <1>2, OutcomeKept DEF InitOutput
<1>3. CASE StartOutput
  BY <1>0, <1>3, OutcomeKept DEF StartOutput
<1>4. CASE Interrupted
  BY <1>4 DEF Interrupted, Leave, Outcome
<1>5. CASE NoKey
  BY <1>0, <1>5, OutcomeKept DEF NoKey
<1>6. ASSUME NEW works \in BOOLEAN, ToggleKey(works)
      PROVE  Outcome'
  BY <1>0, <1>6, OutcomeKept DEF ToggleKey
<1>7. CASE Fill
  BY <1>0, <1>7, OutcomeKept DEF Fill
<1>8. CASE ReadOn
  BY <1>0, <1>8, OutcomeKept DEF ReadOn
<1>9. CASE ReadDone
  BY <1>0, <1>9, OutcomeKept DEF ReadDone, Leave
<1>10. CASE WriteOut
  BY <1>0, <1>10, OutcomeKept DEF WriteOut, Leave
<1>11. CASE NotDraining
  BY <1>0, <1>11, OutcomeKept DEF NotDraining
<1>12. CASE DrainFails
  BY <1>0, <1>12, OutcomeKept DEF DrainFails, Leave
<1>13. CASE DrainPending
  BY <1>0, <1>13, OutcomeKept DEF DrainPending
<1>14. CASE DrainDone
  <2>1. CASE UNCHANGED result /\ pc' = "top"
    BY <1>0, <1>14, <2>1, OutcomeKept DEF DrainDone
  <2>2. CASE Leave(TRUE)
    BY <1>0, <2>2, OutcomeKept DEF Leave
  <2>3. CASE Leave(FALSE) /\ ~(loop_mode /\ g_running) /\ UNCHANGED decoderVars
    <3>1. /\ pc' = "cleanup" /\ is_draining /\ pc = "drain" /\ Drained
          /\ UNCHANGED <<g_running, heard, out, pending, settings, decoderVars>>
      BY <1>14, <2>3 DEF DrainDone, Leave
    <3>2. UNCHANGED <<Line, position, loop_mode, broken>>
      BY <3>1 DEF Line, decoderVars, file, settings
    <3>3. ASSUME g_running, ~broken
          PROVE  ~loop_mode /\ position = Length /\ Len(Line) = Len(out.device)
      <4>1. /\ pending = << >> /\ position = Length /\ buffered = << >>
            /\ reading.got = << >> /\ out.queue = << >> /\ Len(<< >>) = 0
        BY <1>0, <3>1, <3>3, EmptySeq DEF Ends, Reads, NoRead, Drained
      <4>2. Len(out.device) \in Nat
        BY <1>0, LineIs, LenProperties
      <4>3. Len(Line) = Len(out.device)
        BY <1>0, <4>1, <4>2, LineIs
      <4> QED
        BY <2>3, <3>3, <4>1, <4>3
    <3>4. out.queue = << >> /\ (out.blocking \/ out.device = << >>)
      BY <3>1 DEF Drained
    <3> HIDE DEF Line
    <3> QED
      BY <3>1, <3>2, <3>3, <3>4 DEF Outcome
  <2> QED
    BY <1>14, <2>1, <2>2, <2>3 DEF DrainDone
<1>15. CASE Cleanup
  <2>1. /\ out'.queue = << >> /\ out'.device = << >> /\ out'.blocking = out.blocking
        /\ pc = "cleanup" /\ pc' = "closed"
        /\ UNCHANGED <<result, g_running, broken, heard>>
    BY <1>0, <1>15 DEF Cleanup, Types, OutTypes, decoderVars, file
  <2>2. ASSUME result = 0, g_running, ~broken
        PROVE  Length - heard <= (IF out.blocking THEN DeviceSize ELSE 0)
    <3>1. /\ ~loop_mode /\ position = Length /\ Len(Line) = Len(out.device)
          /\ out.blocking \/ out.device = << >>
      BY <1>0, <2>1, <2>2 DEF Outcome
    <3>2. heard + Len(Line) = position
      BY <1>0, <2>1, <2>2, <3>1 DEF Flow, Sound
    <3>3. /\ heard \in 0 .. Length /\ Length \in Nat /\ DeviceSize \in Nat
          /\ Len(out.device) \in Nat /\ Len(out.device) <= DeviceSize
          /\ out.device = << >> => Len(out.device) = 0
      BY <1>0, Parameters, LenProperties, EmptySeq DEF Types, OutTypes
    <3>4. Length - heard = Len(out.device)
      BY <3>1, <3>2, <3>3
    <3> QED
      BY <3>1, <3>3, <3>4
  <2> QED
    BY <2>1, <2>2 DEF Outcome
<1>16. CASE SignalHandler
  <2>1. UNCHANGED <<pc, result, heard, loop_mode, position, Line, out, broken>>
    BY <1>16 DEF SignalHandler, Line, decoderVars, file, settings
  <2> QED
    BY <1>0, <1>16, <2>1, OutcomeKept DEF SignalHandler
<1>17. CASE Play
  <2>1. /\ out.device # << >> /\ heard' = Head(out.device)
        /\ out'.device = Tail(out.device) /\ out'.queue = out.queue
        /\ out'.blocking = out.blocking
        /\ UNCHANGED <<pc, result, g_running, position, pending, reading, buffered, broken,
                       loop_mode>>
    BY <1>0, <1>17 DEF Play, Types, OutTypes, decoderVars, file, settings
  <2>2. pc \notin {"open", "closed"}
    BY <1>0, <2>1 DEF Outcome
  <2>3. Line' = Tail(Line) /\ Line # << >>
    BY <1>0, <2>1, PlayKeeps
  <2>4. Len(Line') = Len(Line) - 1 /\ Len(out'.device) = Len(out.device) - 1
    BY <1>0, <2>1, <2>3, LineIs, HeadTailProperties
  <2>5. out'.device = << >> \/ out.device # << >>
    BY <2>1
  <2> HIDE DEF Line
  <2> QED
    BY <1>0, <2>1, <2>2, <2>4 DEF Outcome
<1>20. CASE Take
  <2>1. /\ out.queue # << >>
        /\ UNCHANGED <<pc, result, g_running, broken>>
    BY <1>20 DEF Take, decoderVars, file
  <2> QED
    BY <1>0, <2>1 DEF Outcome
<1>18. CASE LoseDevice
  <2>1. /\ out'.queue = out.queue /\ out'.device = out.device /\ out'.blocking = out.blocking
        /\ UNCHANGED <<pending, decoderVars, settings>>
    BY <1>0, <1>18 DEF LoseDevice, Types, OutTypes
  <2>2. UNCHANGED <<pc, result, heard, loop_mode, position, Line, broken>>
    BY <1>18, <2>1 DEF LoseDevice, Line, decoderVars, file, settings
  <2> QED
    BY <1>0, <1>18, <2>1, <2>2, OutcomeKept DEF LoseDevice
<1>19. CASE UNCHANGED vars
  <2>1. UNCHANGED <<pc, result, heard, loop_mode, position, Line, out, broken, g_running>>
    BY <1>19 DEF vars, Line, decoderVars, file, settings
  <2> QED
    BY <1>0, <2>1, OutcomeKept
<1> QED
  BY <1>1, <1>2, <1>3, <1>4, <1>5, <1>6, <1>7, <1>8, <1>9, <1>10, <1>11, <1>12, <1>13,
     <1>14, <1>15, <1>16, <1>17, <1>18, <1>19, <1>20
  DEF Next, PlayerStep, SetUp, Turn, Device

-----------------------------------------------------------------------------
(* The invariant holds at first and of every step. *)
THEOREM PlayerInvariant == Spec => []PlayerInv
<1>1. Init => PlayerInv
  <2> SUFFICES ASSUME Init PROVE PlayerInv
    OBVIOUS
  <2> USE Parameters DEF Init, DecoderInit, NoRead
  <2>1. << >> \in Seq(F) /\ Len(<< >>) = 0
    BY EmptySeq
  <2>2. FileTypes
    <3>1. reading \in [status : {"none", "busy", "done", "failed"}, want : Nat, got : Seq(F)]
      BY <2>1
    <3>2. kind \in Kinds /\ loop_mode \in BOOLEAN /\ (loop_mode => kind \in LoopKinds)
      OBVIOUS
    <3>3. position = 0 /\ buffered = << >> /\ eof = FALSE /\ broken = FALSE
      OBVIOUS
    <3>4. position \in 0 .. Length
      BY <3>3
    <3>5. buffered \in Seq(F)
      BY <2>1, <3>3, Zenon
    <3> QED
      BY <3>1, <3>2, <3>3, <3>4, <3>5, Zenon DEF FileTypes
  <2>3. LoopTypes
    BY DEF LoopTypes
  <2>4. out.state = "STOPPED" /\ out.queue = << >> /\ out.device = << >>
    OBVIOUS
  <2>5. OutTypes
    <3>1. out \in [state : {"STOPPED"}, queue : {<< >>}, device : {<< >>},
                  blocking : BOOLEAN, lost : {FALSE}]
      BY PlayerAssumption
    <3>2. out \in [state : {"STOPPED", "PLAYING", "PAUSED"}, queue : Seq(F), device : Seq(F),
                  blocking : BOOLEAN, lost : BOOLEAN]
      BY <2>1, <3>1
    <3> QED
      BY <2>1, <2>4, <3>2 DEF OutTypes
  <2>6. Reads /\ Ends /\ Outcome
    BY <2>4 DEF Reads, Ends, Outcome
  <2>7. Flow
    <3>1. Types
      BY <2>2, <2>3, <2>5 DEF Types
    <3>2. Len(Line) = 0
      BY <2>1, <2>4, <3>1, LineIs
    <3>3. Line = << >> /\ heard = 0 /\ position = 0
      BY <3>1, <3>2, LineIs, EmptySeq
    <3> QED
      BY <3>2, <3>3 DEF Flow, Latest
  <2> QED
    BY <2>2, <2>3, <2>5, <2>6, <2>7 DEF PlayerInv, Types
<1>2. PlayerInv /\ [Next]_vars => PlayerInv'
  <2> SUFFICES ASSUME PlayerInv, [Next]_vars PROVE PlayerInv'
    OBVIOUS
  <2>1. Types /\ Reads /\ Ends /\ Flow
    BY DEF PlayerInv
  <2>2. LoopTypes
    BY <2>1 DEF Types
  <2>3. FileTypes' /\ LoopTypes' /\ OutTypes'
    BY <2>1, <2>2, FileTypesStep, LoopTypesStep, OutTypesStep
  <2>5. Types'
    BY <2>3 DEF Types
  <2>4. Reads' /\ Ends' /\ Flow' /\ Outcome'
    BY <2>1, <2>5, ReadsStep, EndsStep, FlowStep, OutcomeStep
  <2> QED
    BY <2>3, <2>4 DEF PlayerInv, Types
<1> QED
  BY <1>1, <1>2, PTL DEF Spec

(* Everything keeps its type, and neither the chunk, the queue of the output nor
   its device is given more than it holds. *)
THEOREM PlayerTypes == Spec => []TypeOK
<1>1. PlayerInv => TypeOK
  <2> SUFFICES ASSUME PlayerInv PROVE TypeOK
    OBVIOUS
  <2> USE DEF PlayerInv, Types, FileTypes, LoopTypes, OutTypes
  <2>1. {g_running, loop_mode, is_paused, is_draining, playback_failed, eof, broken}
          \subseteq BOOLEAN
    OBVIOUS
  <2> QED
    BY <2>1 DEF TypeOK
<1> QED
  BY <1>1, PlayerInvariant, PTL

(* Input ends only when the file does, with everything read written
   (lines 439-469). *)
THEOREM InputEndsFirst == Spec => []DrainIsLast
<1>1. PlayerInv => DrainIsLast
  BY DEF PlayerInv, Ends, DrainIsLast
<1> QED
  BY <1>1, PlayerInvariant, PTL

(* Success without Ctrl+C means that the file was heard to its end, where drain
   waits for the device, and to its end but for the DeviceSize frames that the
   device may hold where drain looks at the ring alone (lines 439-496, 524-529;
   audio_output.c:53-57), also where a seek loses a block: success is told only
   when there is no further pass. *)
THEOREM SuccessMeansHeard == Spec => []EndMeansHeard
<1>1. PlayerInv => EndMeansHeard
  BY DEF PlayerInv, Outcome, EndMeansHeard
<1> QED
  BY <1>1, PlayerInvariant, PTL

(* Every frame is heard once and in order, pass after pass (lines 409-499),
   unless FLAC files are played with --loop: player_flac_loop shows what
   happens then. *)
THEOREM OrderIsKept ==
    ASSUME "FLAC" \notin LoopKinds
    PROVE  Spec => HeardInOrder
<1>1. PlayerInv /\ [Next]_vars =>
        [heard' # heard => heard' = (heard % Length) + 1 \/ broken]_heard
  <2> SUFFICES ASSUME PlayerInv, [Next]_vars, heard' # heard, ~broken
               PROVE  heard' = (heard % Length) + 1
    OBVIOUS
  <2>1. Play
    <3>1. CASE Quiet
      BY <3>1, QuietMoves DEF PlayerInv, Data
    <3> QED
      BY <3>1 DEF Next, PlayerStep, SetUp, Turn, Device, Quiet, ReadOn, ReadDone, WriteOut,
                  DrainDone, Cleanup, Take
  <2>2. out.device # << >> /\ pc # "closed" /\ Sound
    BY <2>1 DEF Play, PlayerInv, Outcome, Sound, Types, FileTypes
  <2>3. Line # << >> /\ heard' = Head(Line)
    <3>1. /\ heard' = Head(out.device) /\ out'.device = Tail(out.device)
          /\ out'.queue = out.queue /\ UNCHANGED <<pending, reading, buffered>>
      BY <2>1 DEF Play, PlayerInv, Types, OutTypes, decoderVars, file
    <3> QED
      BY <2>2, <3>1, PlayKeeps DEF PlayerInv
  <2>4. Line \in Seq(F) /\ Length \in Nat /\ heard \in 0 .. Length /\ Len(Line) \in Nat \ {0}
    BY <2>3, LineIs, EmptySeq, Parameters DEF PlayerInv, Types, OutTypes
  <2>5. heard' = Line[1] /\ Line[1] \in 1 .. Length /\ Follows(heard, Line[1])
    BY <2>2, <2>3, <2>4, ElementOfSeq DEF PlayerInv, Flow, F
  <2>6. CASE heard' = heard + 1
    <3>1. ASSUME NEW a \in 0 .. Length - 1 PROVE a % Length = a
      BY <2>4
    <3> QED
      BY <2>4, <2>5, <2>6, <3>1
  <2>7. CASE heard = Length /\ heard' = 1
    <3>1. Length % Length = 0
      BY <2>4, <2>5
    <3> QED
      BY <2>7, <3>1
  <2> QED
    BY <2>5, <2>6, <2>7 DEF Follows
<1> QED
  BY <1>1, PlayerInvariant, PTL DEF Spec, HeardInOrder
=============================================================================
