-------------------------- MODULE RingBufferProofs --------------------------
(***************************************************************************)
(* Theorems about RingBuffer for every capacity, request size and bound:   *)
(* RingInv is an inductive invariant, and under it every step of the ring  *)
(* is a step of Fifo or leaves Fifo's variables unchanged.                 *)
(***************************************************************************)
EXTENDS RingBuffer, TLAPS

-----------------------------------------------------------------------------
(* Positions are reduced from less than two turns of the ring, so the
   remainder is one conditional subtraction. *)
LEMMA Wrap ==
    ASSUME NEW C \in Nat \ {0}, NEW a \in 0 .. (2 * C - 1)
    PROVE  a % C = IF a < C THEN a ELSE a - C
OBVIOUS

(* The same for the capacity of the ring. *)
LEMMA WrapInRing ==
    /\ Capacity \in Nat \ {0}
    /\ \A a \in 0 .. (2 * Capacity - 1) :
          a % Capacity = IF a < Capacity THEN a ELSE a - Capacity
<1>1. Capacity \in Nat \ {0}
  BY RingAssumption
<1> QED
  BY <1>1, Wrap

(* The slot m places after slot p. *)
LEMMA SlotAfter ==
    ASSUME NEW p \in Slots, NEW m \in 0 .. Capacity
    PROVE  /\ (p + m) % Capacity = IF p + m < Capacity THEN p + m ELSE p + m - Capacity
           /\ (p + m) % Capacity \in Slots
<1>1. Capacity \in Nat \ {0}
  BY RingAssumption
<1>2. \A a \in 0 .. (2 * Capacity - 1) :
        a % Capacity = IF a < Capacity THEN a ELSE a - Capacity
  BY WrapInRing
<1>3. p + m \in 0 .. (2 * Capacity - 1)
  BY <1>1 DEF Slots
<1>4. (p + m) % Capacity = IF p + m < Capacity THEN p + m ELSE p + m - Capacity
  BY <1>1, <1>2, <1>3 DEF Slots
<1> QED
  BY <1>1, <1>4 DEF Slots

(* The two memcpys of a write store the n bytes first, first+1, ... in the n
   slots that follow `at`, and touch no other slot. *)
LEMMA CopyInSpec ==
    ASSUME NEW n \in 1 .. Capacity, NEW at \in Slots, NEW first \in Nat,
           buffer \in [Slots -> Nat]
    PROVE  /\ CopyIn(n, at, first) \in [Slots -> Nat]
           /\ \A i \in 0 .. n - 1 :
                 CopyIn(n, at, first)[(at + i) % Capacity] = first + i
           /\ \A i \in n .. Capacity - 1 :
                 CopyIn(n, at, first)[(at + i) % Capacity]
                   = buffer[(at + i) % Capacity]
<1>1. Capacity \in Nat \ {0}
  BY RingAssumption
<1>2. ASSUME NEW i \in 0 .. Capacity - 1
      PROVE  /\ (at + i) % Capacity
                  = IF at + i < Capacity THEN at + i ELSE at + i - Capacity
             /\ (at + i) % Capacity \in Slots
  <2>1. i \in 0 .. Capacity
    BY <1>1
  <2> QED
    BY <2>1, SlotAfter
<1>3. CopyIn(n, at, first) \in [Slots -> Nat]
  BY <1>1 DEF CopyIn, Slots
<1>4. ASSUME NEW i \in 0 .. Capacity - 1, NEW s \in Slots,
             s = IF at + i < Capacity THEN at + i ELSE at + i - Capacity
      PROVE  CopyIn(n, at, first)[s] = IF i < n THEN first + i ELSE buffer[s]
  <2>1. CASE n > Capacity - at
    <3>1. CopyIn(n, at, first)[s]
            = IF s >= at THEN first + (s - at)
              ELSE IF s < n - (Capacity - at) THEN first + (Capacity - at) + s
              ELSE buffer[s]
      BY <2>1 DEF CopyIn
    <3> QED
      BY <1>1, <1>4, <2>1, <3>1 DEF Slots
  <2>2. CASE ~(n > Capacity - at)
    <3>1. CopyIn(n, at, first)[s]
            = IF s >= at /\ s < at + n THEN first + (s - at) ELSE buffer[s]
      BY <2>2 DEF CopyIn
    <3> QED
      BY <1>1, <1>4, <2>2, <3>1 DEF Slots
  <2> QED
    BY <2>1, <2>2
<1>5. ASSUME NEW i \in 0 .. Capacity - 1
      PROVE  CopyIn(n, at, first)[(at + i) % Capacity]
               = IF i < n THEN first + i ELSE buffer[(at + i) % Capacity]
  BY <1>2, <1>4
<1> QED
  BY <1>1, <1>3, <1>5

(* The two memcpys of a read return, in order, the n slots from `at` on. *)
LEMMA CopyOutSpec ==
    ASSUME NEW n \in 0 .. Capacity, NEW at \in Slots
    PROVE  CopyOut(n, at) = [i \in 1 .. n |-> buffer[(at + i - 1) % Capacity]]
<1>1. Capacity \in Nat \ {0}
  BY RingAssumption
<1>2. \A i \in 1 .. n :
        /\ at + i - 1 \in 0 .. (2 * Capacity - 1)
        /\ (at + i - 1) % Capacity
             = IF at + i - 1 < Capacity THEN at + i - 1 ELSE at + i - 1 - Capacity
  BY <1>1, WrapInRing DEF Slots
<1> QED
  BY <1>1, <1>2 DEF CopyOut, Slots

(* Advancing a position by up to one turn keeps it in the ring, and offsets
   from the advanced position are offsets from the old one. *)
LEMMA Advance ==
    ASSUME NEW p \in Slots, NEW m \in 0 .. Capacity
    PROVE  /\ (p + m) % Capacity \in Slots
           /\ \A k \in 0 .. Capacity - m :
                 (((p + m) % Capacity) + k) % Capacity = (p + (m + k)) % Capacity
<1>1. Capacity \in Nat \ {0}
  BY RingAssumption
<1>2. /\ (p + m) % Capacity = IF p + m < Capacity THEN p + m ELSE p + m - Capacity
      /\ (p + m) % Capacity \in Slots
  BY SlotAfter
<1>3. ASSUME NEW k \in 0 .. Capacity - m
      PROVE  (((p + m) % Capacity) + k) % Capacity = (p + (m + k)) % Capacity
  <2>1. m + k \in 0 .. Capacity /\ k \in 0 .. Capacity
    BY <1>1
  <2>2. (p + (m + k)) % Capacity
          = IF p + (m + k) < Capacity THEN p + (m + k) ELSE p + (m + k) - Capacity
    BY <2>1, SlotAfter
  <2>3. (((p + m) % Capacity) + k) % Capacity
          = IF ((p + m) % Capacity) + k < Capacity THEN ((p + m) % Capacity) + k
            ELSE ((p + m) % Capacity) + k - Capacity
    BY <1>2, <2>1, SlotAfter
  <2> QED
    BY <1>1, <1>2, <2>2, <2>3 DEF Slots
<1> QED
  BY <1>2, <1>3

(* A full turn past the live bytes leads back to them: `at` is fill places
   after p, and i < fill. *)
LEMMA SlotBefore ==
    ASSUME NEW p \in Slots, NEW fill \in 0 .. Capacity, NEW i \in 0 .. fill - 1
    PROVE  (((p + fill) % Capacity) + (Capacity - fill + i)) % Capacity
             = (p + i) % Capacity
<1>1. Capacity \in Nat \ {0}
  BY RingAssumption
<1>2. i \in 0 .. Capacity /\ Capacity - fill + i \in 0 .. Capacity
  BY <1>1
<1>3. /\ (p + fill) % Capacity
            = IF p + fill < Capacity THEN p + fill ELSE p + fill - Capacity
      /\ (p + fill) % Capacity \in Slots
  BY SlotAfter
<1>4. (p + i) % Capacity = IF p + i < Capacity THEN p + i ELSE p + i - Capacity
  BY <1>2, SlotAfter
<1>5. (((p + fill) % Capacity) + (Capacity - fill + i)) % Capacity
        = IF ((p + fill) % Capacity) + (Capacity - fill + i) < Capacity
          THEN ((p + fill) % Capacity) + (Capacity - fill + i)
          ELSE ((p + fill) % Capacity) + (Capacity - fill + i) - Capacity
  BY <1>2, <1>3, SlotAfter
<1> QED
  BY <1>1, <1>3, <1>4, <1>5 DEF Slots
-----------------------------------------------------------------------------
(* The empty ring satisfies the invariant. *)
LEMMA InitInv == Init => RingInv
<1>1. Capacity \in Nat \ {0} /\ MaxRequest \in Nat
  BY RingAssumption
<1>2. 0 % Capacity = 0
  BY <1>1, WrapInRing
<1> QED
  BY <1>1, <1>2 DEF Init, RingInv, TypeOK, LockHeld, Contents, Progress,
                    NoLostWakeup, Slots

(* Copying a chunk in appends it to the live bytes. *)
LEMMA WriteChunkInv == RingInv /\ WriteChunk => RingInv'
<1> SUFFICES ASSUME RingInv, WriteChunk PROVE RingInv'
  OBVIOUS
<1> USE DEF RingInv
<1>1. Capacity \in Nat \ {0} /\ MaxRequest \in Nat
  BY RingAssumption
<1> DEFINE chunk == Smaller(size - written, SpaceFree)
<1>2. /\ chunk \in 1 .. Capacity /\ chunk <= Capacity - fill_count
      /\ chunk <= size - written
      /\ base + written + 1 \in Nat
  BY <1>1 DEF WriteChunk, Smaller, SpaceFree, TypeOK
<1>3. /\ buffer' = CopyIn(chunk, write_pos, base + written + 1)
      /\ write_pos' = (write_pos + chunk) % Capacity
      /\ fill_count' = fill_count + chunk
      /\ written' = written + chunk
      /\ accepted' = accepted + chunk
      /\ UNCHANGED <<read_pos, canceled, lock, pc, size, base, delivered>>
      /\ pc = "loop"
  BY DEF WriteChunk
<1> HIDE DEF chunk
<1>4. write_pos \in Slots /\ read_pos \in Slots /\ buffer \in [Slots -> Nat]
  BY DEF TypeOK
<1>5. /\ buffer' \in [Slots -> Nat]
      /\ \A i \in 0 .. chunk - 1 :
            buffer'[(write_pos + i) % Capacity] = base + written + 1 + i
      /\ \A i \in chunk .. Capacity - 1 :
            buffer'[(write_pos + i) % Capacity] = buffer[(write_pos + i) % Capacity]
  BY <1>2, <1>3, <1>4, CopyInSpec
<1>6. TypeOK'
  <2>1. write_pos' \in Slots
    BY <1>2, <1>3, <1>4, SlotAfter
  <2> QED
    BY <1>1, <1>2, <1>3, <1>5, <2>1 DEF TypeOK
<1>7. base + written = accepted
  BY <1>3 DEF Progress
<1>8. Contents'
  <2>1. accepted' = delivered' + fill_count'
    BY <1>2, <1>3 DEF Contents, TypeOK
  <2>2. write_pos' = (read_pos' + fill_count') % Capacity
    <3>1. fill_count \in 0 .. Capacity /\ chunk \in 0 .. Capacity - fill_count
      BY <1>1, <1>2 DEF TypeOK
    <3>2. (((read_pos + fill_count) % Capacity) + chunk) % Capacity
            = (read_pos + (fill_count + chunk)) % Capacity
      BY <1>4, <3>1, Advance
    <3> QED
      BY <1>3, <3>2 DEF Contents
  <2>3. ASSUME NEW i \in 0 .. fill_count' - 1
        PROVE  buffer'[(read_pos' + i) % Capacity] = delivered' + 1 + i
    <3>1. fill_count \in 0 .. Capacity /\ i \in 0 .. Capacity - 1
      BY <1>1, <1>2, <1>3 DEF TypeOK
    <3>2. CASE i < fill_count
      <4> DEFINE k == Capacity - fill_count + i
      <4>1. k \in chunk .. Capacity - 1
        BY <1>1, <1>2, <3>1, <3>2
      <4>2. (write_pos + k) % Capacity = (read_pos + i) % Capacity
        <5>1. i \in 0 .. fill_count - 1
          BY <3>1, <3>2
        <5>2. (((read_pos + fill_count) % Capacity) + (Capacity - fill_count + i)) % Capacity
                = (read_pos + i) % Capacity
          BY <1>4, <3>1, <5>1, SlotBefore
        <5> QED
          BY <5>2 DEF Contents
      <4>3. buffer'[(write_pos + k) % Capacity] = buffer[(write_pos + k) % Capacity]
        BY <1>5, <4>1
      <4>4. buffer[(read_pos + i) % Capacity] = delivered + 1 + i
        BY <3>1, <3>2 DEF Contents
      <4> QED
        BY <1>3, <4>2, <4>3, <4>4
    <3>3. CASE ~(i < fill_count)
      <4> DEFINE k == i - fill_count
      <4>1. k \in 0 .. chunk - 1 /\ k \in 0 .. Capacity - fill_count
            /\ fill_count + k = i
        BY <1>1, <1>2, <1>3, <3>1, <3>3
      <4> HIDE DEF k
      <4>2. (write_pos + k) % Capacity = (read_pos + (fill_count + k)) % Capacity
        BY <1>4, <3>1, <4>1, Advance DEF Contents
      <4>3. buffer'[(write_pos + k) % Capacity] = base + written + 1 + k
        BY <1>5, <4>1
      <4>4. base + written + 1 + k = delivered + 1 + i
        BY <1>1, <1>2, <1>7, <3>1, <4>1 DEF Contents, TypeOK
      <4> QED
        BY <1>3, <4>1, <4>2, <4>3, <4>4
    <3> QED
      BY <3>2, <3>3
  <2> QED
    BY <2>1, <2>2, <2>3 DEF Contents
<1>9. LockHeld' /\ NoLostWakeup'
  BY <1>3 DEF LockHeld, NoLostWakeup
<1>10. Progress'
  BY <1>2, <1>3, <1>7 DEF Progress, TypeOK
<1> QED
  BY <1>6, <1>8, <1>9, <1>10

(* Reading takes the oldest live bytes off and hands out exactly them. *)
LEMMA ReadInv ==
    ASSUME NEW n \in 0 .. MaxRequest, RingInv, Read(n)
    PROVE  /\ RingInv'
           /\ LET to_read == Smaller(n, fill_count)
              IN  /\ to_read \in 0 .. Capacity
                  /\ delivered + to_read <= accepted
                  /\ delivered' = delivered + to_read
                  /\ output' = [i \in 1 .. to_read |-> delivered + i]
                  /\ accepted' = accepted
<1> USE DEF RingInv
<1>1. Capacity \in Nat \ {0} /\ MaxRequest \in Nat
  BY RingAssumption
<1> DEFINE to_read == Smaller(n, fill_count)
<1>2. to_read \in 0 .. fill_count /\ to_read \in 0 .. Capacity
  BY <1>1 DEF Smaller, TypeOK
<1>3. /\ output' = CopyOut(to_read, read_pos)
      /\ delivered' = delivered + to_read
      /\ to_read > 0 => /\ read_pos' = (read_pos + to_read) % Capacity
                        /\ fill_count' = fill_count - to_read
                        /\ pc' = IF pc = "wait" THEN "lock" ELSE pc
      /\ ~(to_read > 0) => UNCHANGED <<read_pos, fill_count, pc>>
      /\ UNCHANGED <<buffer, write_pos, canceled, lock, size, written, base, accepted>>
      /\ ~lock
  BY DEF Read, Wake
<1> HIDE DEF to_read
<1>4. read_pos \in Slots /\ buffer \in [Slots -> Nat] /\ fill_count \in 0 .. Capacity
  BY DEF TypeOK
<1>5. /\ read_pos' = (read_pos + to_read) % Capacity
      /\ fill_count' = fill_count - to_read
  <2>1. CASE to_read > 0
    BY <1>3, <2>1
  <2>2. CASE ~(to_read > 0)
    <3>1. to_read = 0
      BY <1>2, <2>2
    <3>2. (read_pos + to_read) % Capacity = read_pos
      <4>1. (read_pos + to_read) % Capacity
              = IF read_pos + to_read < Capacity THEN read_pos + to_read
                ELSE read_pos + to_read - Capacity
        BY <1>2, <1>4, SlotAfter
      <4> QED
        BY <1>1, <1>4, <3>1, <4>1 DEF Slots
    <3> QED
      BY <1>3, <1>4, <2>2, <3>1, <3>2
  <2> QED
    BY <2>1, <2>2
<1>6. TypeOK'
  <2>1. read_pos' \in Slots
    BY <1>2, <1>4, <1>5, SlotAfter
  <2>2. fill_count' \in 0 .. Capacity
    BY <1>1, <1>2, <1>4, <1>5
  <2>3. pc' \in {"idle", "lock", "loop", "wait"}
    BY <1>3 DEF TypeOK
  <2>4. delivered' \in Nat
    BY <1>2, <1>3, <1>4 DEF TypeOK
  <2> QED
    BY <1>3, <2>1, <2>2, <2>3, <2>4 DEF TypeOK
<1>7. Contents'
  <2>1. accepted' = delivered' + fill_count'
    BY <1>1, <1>2, <1>3, <1>4, <1>5 DEF Contents, TypeOK
  <2>2. fill_count - to_read \in 0 .. Capacity - to_read
    BY <1>1, <1>2, <1>4
  <2>3. \A k \in 0 .. Capacity - to_read :
          (read_pos' + k) % Capacity = (read_pos + (to_read + k)) % Capacity
    BY <1>2, <1>4, <1>5, Advance
  <2>4. write_pos' = (read_pos' + fill_count') % Capacity
    <3>1. (read_pos' + (fill_count - to_read)) % Capacity
            = (read_pos + (to_read + (fill_count - to_read))) % Capacity
      BY <2>2, <2>3
    <3>2. to_read + (fill_count - to_read) = fill_count
      BY <1>1, <1>2, <1>4
    <3> QED
      BY <1>3, <1>5, <3>1, <3>2 DEF Contents
  <2>5. ASSUME NEW i \in 0 .. fill_count' - 1
        PROVE  buffer'[(read_pos' + i) % Capacity] = delivered' + 1 + i
    <3>1. i \in 0 .. Capacity - to_read /\ to_read + i \in 0 .. fill_count - 1
      BY <1>1, <1>2, <1>4, <1>5
    <3>2. buffer[(read_pos + (to_read + i)) % Capacity] = delivered + 1 + (to_read + i)
      <4>1. \A j \in 0 .. fill_count - 1 :
              buffer[(read_pos + j) % Capacity] = delivered + 1 + j
        BY DEF Contents
      <4> QED
        BY <3>1, <4>1
    <3>3. delivered + 1 + (to_read + i) = delivered' + 1 + i
      BY <1>1, <1>2, <1>3, <1>4, <3>1 DEF TypeOK
    <3> QED
      BY <1>3, <2>3, <3>1, <3>2, <3>3
  <2> QED
    BY <2>1, <2>4, <2>5 DEF Contents
<1>8. Progress' /\ LockHeld'
  BY <1>3 DEF Progress, LockHeld
<1>9. NoLostWakeup'
  BY <1>2, <1>3, <1>4, <1>5 DEF NoLostWakeup
<1>10. output' = [i \in 1 .. to_read |-> delivered + i]
  <2>1. output' = [i \in 1 .. to_read |-> buffer[(read_pos + i - 1) % Capacity]]
    BY <1>2, <1>3, <1>4, CopyOutSpec
  <2>2. ASSUME NEW i \in 1 .. to_read
        PROVE  buffer[(read_pos + i - 1) % Capacity] = delivered + i
    <3>1. i - 1 \in 0 .. fill_count - 1 /\ read_pos + i - 1 = read_pos + (i - 1)
      BY <1>1, <1>2, <1>4 DEF Slots
    <3>2. buffer[(read_pos + (i - 1)) % Capacity] = delivered + 1 + (i - 1)
      BY <3>1 DEF Contents
    <3> QED
      BY <1>2, <3>1, <3>2 DEF TypeOK
  <2> QED
    BY <2>1, <2>2
<1>11. delivered + to_read <= accepted
  BY <1>1, <1>2, <1>4 DEF Contents, TypeOK
<1> QED
  BY <1>2, <1>3, <1>6, <1>7, <1>8, <1>9, <1>10, <1>11 DEF to_read

(* RingInv is inductive. *)
LEMMA StepInv == RingInv /\ [Next]_vars => RingInv'
<1> SUFFICES ASSUME RingInv, [Next]_vars PROVE RingInv'
  OBVIOUS
<1>1. Capacity \in Nat \ {0} /\ MaxRequest \in Nat
  BY RingAssumption
<1>2. CASE UNCHANGED vars
  BY <1>2 DEF RingInv, TypeOK, LockHeld, Contents, Progress, NoLostWakeup, vars
<1>3. ASSUME NEW n \in 0 .. MaxRequest, WriteCall(n)
      PROVE  RingInv'
  BY <1>1, <1>3 DEF WriteCall, ring, RingInv, TypeOK, LockHeld, Contents,
                    Progress, NoLostWakeup
<1>4. CASE WriteLock
  BY <1>4 DEF WriteLock, ring, RingInv, TypeOK, LockHeld, Contents, Progress,
              NoLostWakeup
<1>5. CASE WriteReturn
  BY <1>5 DEF WriteReturn, ring, RingInv, TypeOK, LockHeld, Contents, Progress,
              NoLostWakeup
<1>6. CASE WriteWait
  <2>1. fill_count = Capacity
    BY <1>1, <1>6 DEF WriteWait, SpaceFree, RingInv, TypeOK
  <2> QED
    BY <1>6, <2>1 DEF WriteWait, ring, RingInv, TypeOK, LockHeld, Contents,
                      Progress, NoLostWakeup
<1>7. CASE WriteChunk
  BY <1>7, WriteChunkInv
<1>8. CASE SpuriousWake
  BY <1>8 DEF SpuriousWake, ring, RingInv, TypeOK, LockHeld, Contents, Progress,
              NoLostWakeup
<1>9. ASSUME NEW n \in 0 .. MaxRequest, Read(n)
      PROVE  RingInv'
  BY <1>9, ReadInv
<1>10. CASE Cancel
  BY <1>10 DEF Cancel, Wake, RingInv, TypeOK, LockHeld, Contents, Progress,
               NoLostWakeup
<1> QED
  BY <1>2, <1>3, <1>4, <1>5, <1>6, <1>7, <1>8, <1>9, <1>10 DEF Next, WriterStep

(* RingInv holds in every reachable state. *)
THEOREM RingInvariant == Spec => []RingInv
<1>1. Init => RingInv
  BY InitInv
<1>2. RingInv /\ [Next]_vars => RingInv'
  BY StepInv
<1> QED
  BY <1>1, <1>2, PTL DEF Spec

(* A writer never sleeps while there is room or after a cancellation: no
   signal of ring_buffer_read or ring_buffer_cancel is lost. *)
THEOREM NoWakeupIsLost == Spec => []NoLostWakeup
<1>1. RingInv => NoLostWakeup
  BY DEF RingInv
<1> QED
  BY <1>1, RingInvariant, PTL

(* The live region of the buffer always holds exactly the bytes accepted and
   not yet delivered, oldest first, wherever it wraps. *)
THEOREM ContentsAlways == Spec => []Contents
<1>1. RingInv => Contents
  BY DEF RingInv
<1> QED
  BY <1>1, RingInvariant, PTL
-----------------------------------------------------------------------------
(* Every step of the ring is a step of the bounded FIFO or does not move it. *)
LEMMA StepRefines ==
    ASSUME RingInv, [Next]_vars
    PROVE  [Abstract!Next]_(Abstract!fifoVars)
<1> USE DEF Abstract!fifoVars
<1>1. Capacity \in Nat \ {0} /\ MaxRequest \in Nat
  BY RingAssumption
<1>2. CASE UNCHANGED vars
  BY <1>2 DEF vars
<1>3. ASSUME NEW n \in 0 .. MaxRequest, WriteCall(n)
      PROVE  UNCHANGED Abstract!fifoVars
  BY <1>3 DEF WriteCall
<1>4. CASE WriteLock \/ WriteReturn \/ WriteWait \/ SpuriousWake \/ Cancel
  BY <1>4 DEF WriteLock, WriteReturn, WriteWait, SpuriousWake, Cancel
<1>5. CASE WriteChunk
  <2> DEFINE chunk == Smaller(size - written, SpaceFree)
  <2>1. chunk \in 1 .. Capacity /\ chunk <= Capacity - fill_count
    BY <1>1, <1>5 DEF WriteChunk, Smaller, SpaceFree, RingInv, TypeOK
  <2>2. accepted' = accepted + chunk /\ UNCHANGED <<delivered, output>>
    BY <1>5 DEF WriteChunk
  <2> HIDE DEF chunk
  <2>3. accepted + chunk - delivered <= Capacity
    BY <1>1, <2>1 DEF RingInv, TypeOK, Contents
  <2>4. Abstract!Put(chunk)
    BY <2>2, <2>3 DEF Abstract!Put
  <2> QED
    BY <2>1, <2>4 DEF Abstract!Next
<1>6. ASSUME NEW n \in 0 .. MaxRequest, Read(n)
      PROVE  Abstract!Next
  <2> DEFINE to_read == Smaller(n, fill_count)
  <2>1. /\ to_read \in 0 .. Capacity
        /\ delivered + to_read <= accepted
        /\ delivered' = delivered + to_read
        /\ output' = [i \in 1 .. to_read |-> delivered + i]
        /\ accepted' = accepted
    BY <1>6, ReadInv
  <2> HIDE DEF to_read
  <2>2. Abstract!Take(to_read)
    BY <2>1 DEF Abstract!Take
  <2> QED
    BY <2>1, <2>2 DEF Abstract!Next
<1> QED
  BY <1>2, <1>3, <1>4, <1>5, <1>6 DEF Next, WriterStep

(* The ring buffer implements the bounded lossless FIFO for every capacity and
   every interleaving of writer, reader and canceler. *)
THEOREM RingImplementsFifo == Spec => ImplementsFifo
<1>1. Init => Abstract!Init
  BY DEF Init, Abstract!Init
<1>2. RingInv /\ [Next]_vars => [Abstract!Next]_(Abstract!fifoVars)
  BY StepRefines
<1> QED
  BY <1>1, <1>2, RingInvariant, PTL DEF Spec, ImplementsFifo, Abstract!Spec
=============================================================================
