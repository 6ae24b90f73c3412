---------------------------- MODULE FrameProofs -----------------------------
(***************************************************************************)
(* Lemmas about RingDevice: the frames of a sequence, and what each        *)
(* movement of frames between the ring, the worker, the device and the     *)
(* listener does to EveryFrameOnce.                                        *)
(***************************************************************************)
EXTENDS RingDevice, RingBufferProofs, SequenceTheorems

(* A frame of a sequence is one of its places, and not silence. *)
LEMMA FramesOf ==
    ASSUME NEW s \in Seq(Nat)
    PROVE  /\ Frames(s) \subseteq Nat \ {0}
           /\ \A f : f \in Frames(s) <=> f # 0 /\ \E i \in 1 .. Len(s) : f = s[i]
<1>1. DOMAIN s = 1 .. Len(s) /\ \A i \in 1 .. Len(s) : s[i] \in Nat
  BY LenProperties, ElementOfSeq
<1> QED
  BY <1>1 DEF Frames, Range

(* The empty sequence has no frames, in order. *)
LEMMA FramesOfNone == Frames(<< >>) = {} /\ InOrder(<< >>)
BY DEF Frames, Range, InOrder

(* Two sequences one after the other. *)
LEMMA FramesOfConcat ==
    ASSUME NEW s \in Seq(Nat), NEW t \in Seq(Nat)
    PROVE  /\ s \o t \in Seq(Nat)
           /\ Len(s \o t) = Len(s) + Len(t)
           /\ Frames(s \o t) = Frames(s) \cup Frames(t)
           /\ InOrder(s) /\ InOrder(t) /\ (\A f \in Frames(s), g \in Frames(t) : f < g)
                => InOrder(s \o t)
<1> DEFINE u == s \o t
<1>1. /\ u \in Seq(Nat) /\ Len(u) = Len(s) + Len(t)
      /\ \A i \in 1 .. Len(s) + Len(t) :
            u[i] = IF i <= Len(s) THEN s[i] ELSE t[i - Len(s)]
  BY ConcatProperties
<1>2. Len(s) \in Nat /\ Len(t) \in Nat
  BY LenProperties
<1> HIDE DEF u
<1>3. ASSUME NEW f PROVE f \in Frames(u) <=> f \in Frames(s) \cup Frames(t)
  <2>1. ASSUME f \in Frames(u) PROVE f \in Frames(s) \cup Frames(t)
    <3>1. f # 0 /\ \E i \in 1 .. Len(u) : f = u[i]
      BY <1>1, <2>1, FramesOf
    <3>2. PICK i \in 1 .. Len(u) : f = u[i]
      BY <3>1
    <3>3. CASE i <= Len(s)
      BY <1>1, <1>2, <3>1, <3>2, <3>3, FramesOf
    <3>4. CASE i > Len(s)
      <4>1. i - Len(s) \in 1 .. Len(t) /\ i \in 1 .. Len(s) + Len(t) /\ ~(i <= Len(s))
        BY <1>1, <1>2, <3>2, <3>4
      <4>2. f = t[i - Len(s)]
        BY <1>1, <3>2, <4>1
      <4> QED
        BY <3>1, <4>1, <4>2, FramesOf
    <3> QED
      BY <1>1, <1>2, <3>3, <3>4
  <2>2. ASSUME f \in Frames(s) PROVE f \in Frames(u)
    <3>1. f # 0 /\ \E i \in 1 .. Len(s) : f = s[i]
      BY <2>2, FramesOf
    <3>2. PICK i \in 1 .. Len(s) : f = s[i]
      BY <3>1
    <3>3. i \in 1 .. Len(u) /\ f = u[i]
      BY <1>1, <1>2, <3>2
    <3> QED
      BY <1>1, <3>1, <3>3, FramesOf
  <2>3. ASSUME f \in Frames(t) PROVE f \in Frames(u)
    <3>1. f # 0 /\ \E i \in 1 .. Len(t) : f = t[i]
      BY <2>3, FramesOf
    <3>2. PICK i \in 1 .. Len(t) : f = t[i]
      BY <3>1
    <3> DEFINE j == i + Len(s)
    <3>3. /\ j \in 1 .. Len(u) /\ j \in 1 .. Len(s) + Len(t)
          /\ ~(j <= Len(s)) /\ j - Len(s) = i
      BY <1>1, <1>2, <3>2
    <3> HIDE DEF j
    <3>4. f = u[j]
      BY <1>1, <3>2, <3>3
    <3> QED
      BY <1>1, <3>1, <3>3, <3>4, FramesOf
  <2> QED
    BY <2>1, <2>2, <2>3
<1>4. ASSUME InOrder(s), InOrder(t), \A f \in Frames(s), g \in Frames(t) : f < g
      PROVE  InOrder(u)
  <2> SUFFICES ASSUME NEW i \in 1 .. Len(u), NEW j \in 1 .. Len(u),
                      i < j, u[i] # 0, u[j] # 0
               PROVE  u[i] < u[j]
    BY <1>1, LenProperties DEF InOrder
  <2>1. CASE j <= Len(s)
    <3>1. u[i] = s[i] /\ u[j] = s[j] /\ i \in DOMAIN s /\ j \in DOMAIN s
      BY <1>1, <1>2, <2>1, LenProperties
    <3> QED
      BY <1>4, <3>1 DEF InOrder
  <2>2. CASE i > Len(s)
    <3>1. /\ u[i] = t[i - Len(s)] /\ u[j] = t[j - Len(s)]
          /\ i - Len(s) \in DOMAIN t /\ j - Len(s) \in DOMAIN t
          /\ i - Len(s) < j - Len(s)
      BY <1>1, <1>2, <2>2, LenProperties
    <3> QED
      BY <1>4, <3>1 DEF InOrder
  <2>3. CASE i <= Len(s) /\ j > Len(s)
    <3>1. /\ i \in 1 .. Len(s) /\ u[i] = s[i]
          /\ j - Len(s) \in 1 .. Len(t) /\ u[j] = t[j - Len(s)]
      BY <1>1, <1>2, <2>3
    <3>2. u[i] \in Frames(s) /\ u[j] \in Frames(t)
      BY <3>1, FramesOf
    <3> QED
      BY <1>4, <3>2
  <2> QED
    BY <1>1, <1>2, <2>1, <2>2, <2>3
<1> QED
  BY <1>1, <1>3, <1>4 DEF u

(* A sequence cut in two: its frames are those of the parts, and in order. *)
LEMMA FramesOfSplit ==
    ASSUME NEW s \in Seq(Nat), NEW k \in 0 .. Len(s), InOrder(s)
    PROVE  LET a == SubSeq(s, 1, k)
               b == SubSeq(s, k + 1, Len(s))
           IN  /\ a \in Seq(Nat) /\ b \in Seq(Nat)
               /\ Len(b) = Len(s) - k
               /\ Frames(s) = Frames(a) \cup Frames(b)
               /\ InOrder(b)
               /\ \A f \in Frames(a), g \in Frames(b) : f < g
<1> DEFINE a == SubSeq(s, 1, k)
           b == SubSeq(s, k + 1, Len(s))
<1>1. Len(s) \in Nat /\ DOMAIN s = 1 .. Len(s) /\ \A i \in 1 .. Len(s) : s[i] \in Nat
  BY LenProperties, ElementOfSeq
<1>2. a \in Seq(Nat) /\ Len(a) = k /\ \A i \in 1 .. k : a[i] = s[i]
  BY <1>1, SubSeqProperties
<1>3. b \in Seq(Nat) /\ Len(b) = Len(s) - k /\ \A i \in 1 .. Len(s) - k : b[i] = s[k + i]
  <2>1. k + 1 \in Int /\ Len(s) \in Int /\ \A i \in k + 1 .. Len(s) : s[i] \in Nat
    BY <1>1
  <2>2. /\ b \in Seq(Nat)
        /\ Len(b) = IF k + 1 <= Len(s) THEN Len(s) - (k + 1) + 1 ELSE 0
        /\ \A i \in 1 .. Len(s) - (k + 1) + 1 : b[i] = s[(k + 1) + i - 1]
    BY <2>1, SubSeqProperties
  <2>3. Len(s) - (k + 1) + 1 = Len(s) - k
    BY <1>1
  <2>4. Len(b) = Len(s) - k
    <3> DEFINE n == Len(s)
    <3>2. n \in Nat /\ k \in 0 .. n
      BY <1>1
    <3> HIDE DEF n
    <3>3. k + 1 <= n \/ (~(k + 1 <= n) /\ n - k = 0)
      BY <3>2
    <3>1. k + 1 <= Len(s) \/ (~(k + 1 <= Len(s)) /\ Len(s) - k = 0)
      BY <3>3 DEF n
    <3> HIDE DEF b
    <3> QED
      BY <2>2, <2>3, <3>1
  <2>5. ASSUME NEW i \in 1 .. Len(s) - k PROVE b[i] = s[k + i]
    <3>1. b[i] = s[(k + 1) + i - 1] /\ (k + 1) + i - 1 = k + i
      BY <1>1, <2>2, <2>3
    <3> QED
      BY <3>1
  <2> QED
    BY <2>2, <2>4, <2>5
<1> HIDE DEF a, b
<1>4. ASSUME NEW f PROVE f \in Frames(s) <=> f \in Frames(a) \cup Frames(b)
  <2>1. f \in Frames(s) <=> f # 0 /\ \E i \in 1 .. Len(s) : f = s[i]
    BY FramesOf
  <2>2. f \in Frames(a) <=> f # 0 /\ \E i \in 1 .. k : f = s[i]
    BY <1>2, FramesOf
  <2>3. f \in Frames(b) <=> f # 0 /\ \E i \in 1 .. Len(s) - k : f = s[k + i]
    <3>1. f \in Frames(b) <=> f # 0 /\ \E i \in 1 .. Len(b) : f = b[i]
      BY <1>3, FramesOf
    <3> QED
      BY <1>3, <3>1
  <2>4. \A i \in 1 .. Len(s) : i \in 1 .. k \/ (i - k \in 1 .. Len(s) - k /\ s[i] = s[k + (i - k)])
    BY <1>1
  <2>5. \A i \in 1 .. Len(s) - k : k + i \in 1 .. Len(s)
    BY <1>1
  <2>6. \A i \in 1 .. k : i \in 1 .. Len(s)
    BY <1>1
  <2> QED
    BY <2>1, <2>2, <2>3, <2>4, <2>5, <2>6
<1>5. InOrder(b)
  <2> SUFFICES ASSUME NEW i \in 1 .. Len(s) - k, NEW j \in 1 .. Len(s) - k,
                      i < j, b[i] # 0, b[j] # 0
               PROVE  b[i] < b[j]
    BY <1>3, LenProperties DEF InOrder
  <2>1. k + i \in DOMAIN s /\ k + j \in DOMAIN s /\ k + i < k + j
    BY <1>1
  <2> QED
    BY <1>3, <2>1 DEF InOrder
<1>6. ASSUME NEW f \in Frames(a), NEW g \in Frames(b) PROVE f < g
  <2>1. f # 0 /\ \E i \in 1 .. k : f = s[i]
    BY <1>2, FramesOf
  <2>2. g # 0 /\ \E i \in 1 .. Len(s) - k : g = s[k + i]
    BY <1>3, FramesOf
  <2>3. PICK i \in 1 .. k : f = s[i]
    BY <2>1
  <2>4. PICK j \in 1 .. Len(s) - k : g = s[k + j]
    BY <2>2
  <2>5. i \in DOMAIN s /\ k + j \in DOMAIN s /\ i < k + j
    BY <1>1
  <2> QED
    BY <2>1, <2>2, <2>3, <2>4, <2>5 DEF InOrder
<1> QED
  BY <1>2, <1>3, <1>4, <1>5, <1>6 DEF a, b

(* Silence has no frames, in order. *)
LEMMA FramesOfSilence ==
    ASSUME NEW n \in Nat
    PROVE  /\ Silence(n) \in Seq(Nat) /\ Len(Silence(n)) = n
           /\ Frames(Silence(n)) = {} /\ InOrder(Silence(n))
<1>1. Silence(n) \in Seq(Nat) /\ Len(Silence(n)) = n /\ \A i \in 1 .. n : Silence(n)[i] = 0
  BY DEF Silence
<1> QED
  BY <1>1, FramesOf, LenProperties DEF InOrder

(* Padding a short read with silence adds no frame and keeps the order. *)
LEMMA FramesOfPadded ==
    ASSUME NEW n \in Nat, NEW k \in 0 .. n, NEW d \in Nat,
           NEW s, s = [i \in 1 .. k |-> d + i]
    PROVE  /\ Padded(s, n) \in Seq(Nat) /\ Len(Padded(s, n)) = n
           /\ Frames(Padded(s, n)) = d + 1 .. d + k
           /\ InOrder(Padded(s, n))
<1> DEFINE p == Padded(s, n)
<1>1. /\ p \in Seq(Nat) /\ Len(p) = n
      /\ \A i \in 1 .. n : p[i] = IF i <= k THEN d + i ELSE 0
  BY DEF Padded
<1> HIDE DEF p
<1>2. ASSUME NEW f PROVE f \in Frames(p) <=> f \in d + 1 .. d + k
  <2>1. f \in Frames(p) <=> f # 0 /\ \E i \in 1 .. n : f = p[i]
    BY <1>1, FramesOf
  <2>2. ASSUME f \in d + 1 .. d + k PROVE f - d \in 1 .. n /\ p[f - d] = f /\ f # 0
    BY <1>1, <2>2
  <2>3. ASSUME NEW i \in 1 .. n, f = p[i], f # 0 PROVE f \in d + 1 .. d + k
    BY <1>1, <2>3
  <2> QED
    BY <2>1, <2>2, <2>3
<1>3. InOrder(p)
  BY <1>1, LenProperties DEF InOrder
<1> QED
  BY <1>1, <1>2, <1>3 DEF p
-----------------------------------------------------------------------------
QueueType == device \in Seq(Nat) /\ held \in Seq(Nat) /\ delivered \in Nat

(* The device plays its oldest frames. *)
LEMMA PlaysKeeps ==
    ASSUME QueueType, EveryFrameOnce, NEW n \in Nat, Plays(n),
           UNCHANGED <<held, gone, delivered>>
    PROVE  /\ device' \in Seq(Nat)
           /\ Len(device') = Len(device) - Smaller(n, Len(device))
           /\ EveryFrameOnce'
<1> DEFINE k == Smaller(n, Len(device))
           a == SubSeq(device, 1, k)
           b == SubSeq(device, k + 1, Len(device))
<1>1. k \in 0 .. Len(device)
  <2>1. Len(device) \in Nat
    BY LenProperties DEF QueueType
  <2> QED
    BY <2>1 DEF Smaller
<1>2. heard' = heard \cup Frames(a) /\ device' = b
  BY DEF Plays
<1> HIDE DEF k
<1>3. InOrder(device)
  BY DEF EveryFrameOnce
<1>4. /\ a \in Seq(Nat) /\ b \in Seq(Nat) /\ Len(b) = Len(device) - k
      /\ Frames(device) = Frames(a) \cup Frames(b)
      /\ InOrder(b)
      /\ \A f \in Frames(a), g \in Frames(b) : f < g
  BY <1>1, <1>3, FramesOfSplit DEF QueueType
<1> HIDE DEF a, b
<1>5. EveryFrameOnce'
  BY <1>2, <1>4 DEF EveryFrameOnce
<1> QED
  BY <1>2, <1>4, <1>5 DEF k

(* What the device holds is dropped. *)
LEMMA DropsKeeps ==
    ASSUME QueueType, EveryFrameOnce, Drops, UNCHANGED <<held, delivered>>
    PROVE  device' = << >> /\ EveryFrameOnce'
<1>1. \A f \in Frames(device) \cup Frames(held) \cup heard : f \in Nat
  BY FramesOf DEF EveryFrameOnce, QueueType
<1>2. Frames(device') = {} /\ InOrder(device') /\ device' = << >>
  BY FramesOfNone DEF Drops
<1>3. gone' = gone \cup Frames(device) /\ heard' = heard
  BY DEF Drops
<1>4. Frames(device) \cap (heard \cup Frames(held)) = {}
  BY <1>1 DEF EveryFrameOnce
<1> QED
  BY <1>2, <1>3, <1>4 DEF EveryFrameOnce

(* What the worker holds is lost. *)
LEMMA LosesKeeps ==
    ASSUME QueueType, EveryFrameOnce, held' = << >>, gone' = gone \cup Frames(held),
           UNCHANGED <<device, heard, delivered>>
    PROVE  EveryFrameOnce'
<1>1. \A f \in Frames(device) \cup Frames(held) \cup heard : f \in Nat
  BY FramesOf DEF EveryFrameOnce, QueueType
<1>2. Frames(held') = {} /\ InOrder(held')
  BY FramesOfNone
<1>3. Frames(held) \cap (heard \cup Frames(device)) = {}
  BY <1>1 DEF EveryFrameOnce
<1> QED
  BY <1>2, <1>3 DEF EveryFrameOnce

(* The worker hands over what it holds. *)
LEMMA HandsOverKeeps ==
    ASSUME QueueType, EveryFrameOnce, device' = device \o held, held' = << >>,
           UNCHANGED <<heard, gone, delivered>>
    PROVE  /\ device' \in Seq(Nat)
           /\ Len(device') = Len(device) + Len(held)
           /\ EveryFrameOnce'
<1>1. /\ device' \in Seq(Nat) /\ Len(device') = Len(device) + Len(held)
      /\ Frames(device') = Frames(device) \cup Frames(held)
      /\ InOrder(device')
  BY FramesOfConcat DEF QueueType, EveryFrameOnce
<1>2. Frames(held') = {} /\ InOrder(held')
  BY FramesOfNone
<1> QED
  BY <1>1, <1>2 DEF EveryFrameOnce

(* An empty device is given silence. *)
LEMMA SilenceKeeps ==
    ASSUME QueueType, EveryFrameOnce, NEW n \in Nat,
           device = << >>, device' = Silence(n), UNCHANGED <<held, heard, gone, delivered>>
    PROVE  device' \in Seq(Nat) /\ Len(device') = n /\ EveryFrameOnce'
<1>1. /\ device' \in Seq(Nat) /\ Len(device') = n
      /\ Frames(device') = {} /\ InOrder(device')
  BY FramesOfSilence
<1>2. Frames(device) = {}
  BY FramesOfNone
<1> QED
  BY <1>1, <1>2 DEF EveryFrameOnce

(* A read takes the next frames off the ring, padded with silence. *)
LEMMA ReadPads ==
    ASSUME RingInv, NEW n \in 0 .. MaxRequest, Read(n)
    PROVE  LET p == Padded(output', n)
           IN  /\ delivered' \in Nat /\ delivered' >= delivered
               /\ p \in Seq(Nat) /\ Len(p) = n /\ InOrder(p)
               /\ Frames(p) = delivered + 1 .. delivered'
<1>1. n \in Nat /\ delivered \in Nat /\ fill_count \in Nat
  BY RingAssumption DEF RingInv, TypeOK
<1> DEFINE k == Smaller(n, fill_count)
<1>2. k \in 0 .. n
  BY <1>1 DEF Smaller
<1>3. delivered' = delivered + k /\ output' = [i \in 1 .. k |-> delivered + i]
  BY ReadInv
<1> HIDE DEF k
<1>4. ASSUME NEW s, s = output'
      PROVE  /\ Padded(s, n) \in Seq(Nat) /\ Len(Padded(s, n)) = n
             /\ Frames(Padded(s, n)) = delivered + 1 .. delivered + k
             /\ InOrder(Padded(s, n))
  <2>1. s = [i \in 1 .. k |-> delivered + i]
    BY <1>3, <1>4
  <2>2. n \in Nat /\ k \in 0 .. n /\ delivered \in Nat
    BY <1>1, <1>2
  <2> QED
    BY <2>1, <2>2, FramesOfPadded, Zenon
<1>5. delivered' \in Nat /\ delivered' >= delivered
  BY <1>1, <1>2, <1>3
<1> QED
  BY <1>3, <1>4, <1>5

(* It is read into the hands of the thread. *)
LEMMA ReadKeepsHeld ==
    ASSUME QueueType, EveryFrameOnce, RingInv, NEW n \in 0 .. MaxRequest, Read(n),
           held = << >>, held' = Padded(output', n), UNCHANGED <<device, heard, gone>>
    PROVE  held' \in Seq(Nat) /\ Len(held') = n /\ EveryFrameOnce'
<1>1. /\ delivered' \in Nat /\ delivered' >= delivered
      /\ held' \in Seq(Nat) /\ Len(held') = n /\ InOrder(held')
      /\ Frames(held') = delivered + 1 .. delivered'
  BY ReadPads
<1>2. Frames(held) = {}
  BY FramesOfNone
<1>3. delivered \in Nat
  BY DEF QueueType
<1>4. 1 .. delivered' = 1 .. delivered \cup delivered + 1 .. delivered'
  BY <1>1, <1>3
<1> QED
  BY <1>1, <1>2, <1>3, <1>4 DEF EveryFrameOnce

(* It is put behind what the device holds. *)
LEMMA ReadKeepsDevice ==
    ASSUME QueueType, EveryFrameOnce, RingInv, NEW n \in 0 .. MaxRequest, Read(n),
           held = << >>, device' = device \o Padded(output', n), UNCHANGED <<held, heard, gone>>
    PROVE  /\ device' \in Seq(Nat)
           /\ Len(device') = Len(device) + n
           /\ EveryFrameOnce'
<1> DEFINE p == Padded(output', n)
<1>1. /\ delivered' \in Nat /\ delivered' >= delivered
      /\ p \in Seq(Nat) /\ Len(p) = n /\ InOrder(p)
      /\ Frames(p) = delivered + 1 .. delivered'
  BY ReadPads
<1> HIDE DEF p
<1>2. Frames(held) = {}
  BY FramesOfNone
<1>3. delivered \in Nat
  BY DEF QueueType
<1>4. 1 .. delivered' = 1 .. delivered \cup delivered + 1 .. delivered'
  BY <1>1, <1>3
<1>5. \A f \in Frames(device), g \in Frames(p) : f < g
  BY <1>1, <1>3 DEF EveryFrameOnce
<1>6. /\ device' \in Seq(Nat) /\ Len(device') = Len(device) + Len(p)
      /\ Frames(device') = Frames(device) \cup Frames(p)
      /\ InOrder(device')
  <2>1. device' = device \o p
    BY DEF p
  <2>2. device \in Seq(Nat) /\ InOrder(device)
    BY DEF QueueType, EveryFrameOnce
  <2>3. /\ device \o p \in Seq(Nat) /\ Len(device \o p) = Len(device) + Len(p)
        /\ Frames(device \o p) = Frames(device) \cup Frames(p)
        /\ InOrder(device \o p)
    BY <1>1, <1>5, <2>2, FramesOfConcat
  <2> QED
    BY <2>1, <2>3
<1>7. /\ heard \cup Frames(device') \cup gone = 1 .. delivered'
      /\ gone \cap (heard \cup Frames(device')) = {}
      /\ \A f \in heard, g \in Frames(device') : f < g
  BY <1>1, <1>2, <1>3, <1>4, <1>6 DEF EveryFrameOnce
<1>8. Frames(held') = {} /\ InOrder(held') /\ heard' = heard /\ gone' = gone
  BY FramesOfNone
<1>9. EveryFrameOnce'
  BY <1>6, <1>7, <1>8 DEF EveryFrameOnce
<1> QED
  BY <1>1, <1>6, <1>9
=============================================================================
