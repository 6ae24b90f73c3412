----------------------------- MODULE RingBuffer -----------------------------
(***************************************************************************)
(* src/audio_output/ring_buffer.c: the byte queue between the thread that  *)
(* decodes (the writer, which blocks while the ring is full) and the       *)
(* device thread (the reader, which never blocks).  Any thread may ask for *)
(* the fill count or cancel the ring.                                      *)
(*                                                                         *)
(* One action is one critical section of rb->lock, except that             *)
(* ring_buffer_write holds the lock over many iterations: there one action *)
(* is one iteration and `lock` keeps everybody else out.  Waiting on       *)
(* space_available releases the lock and re-takes it on wake-up.           *)
(*                                                                         *)
(* Bytes are opaque to the ring, so a byte is its number in the stream the *)
(* writer offers; 0 stands for what malloc left in the buffer.             *)
(***************************************************************************)
EXTENDS Naturals

CONSTANTS
    Capacity,    \* bytes in the ring
    MaxRequest,  \* bound: the largest size passed to write or read
    MaxBytes     \* bound: bytes written over the life of the ring

ASSUME RingAssumption ==
    /\ Capacity \in Nat \ {0}
    /\ MaxRequest \in Nat \ {0}
    /\ MaxBytes \in Nat

VARIABLES
    buffer, read_pos, write_pos, fill_count, canceled,  \* struct RingBuffer
    lock,      \* TRUE while a ring_buffer_write in progress holds rb->lock
    pc,        \* where the writer is in ring_buffer_write
    size,      \* its argument
    written,   \* its local
    base,      \* number of the byte before data[0] in the offered stream
    accepted, delivered,  \* history: bytes copied in, bytes handed out
    output     \* what the last ring_buffer_read put in *data

ring == <<buffer, read_pos, write_pos, fill_count, canceled>>
writer == <<pc, size, written, base>>
vars == <<buffer, read_pos, write_pos, fill_count, canceled, lock,
          pc, size, written, base, accepted, delivered, output>>

Slots == 0 .. Capacity - 1

Smaller(a, b) == IF a < b THEN a ELSE b
-----------------------------------------------------------------------------
(* Forms of the operators below as a plausible mistake would leave them. *)
SpaceFreeOffByOne == Capacity + 1 - fill_count

CopyOutNeverSplits(n, at) ==
    [i \in 1 .. n |-> buffer[Smaller(at + i - 1, Capacity - 1)]]

WakeNobody == UNCHANGED pc
-----------------------------------------------------------------------------
SpaceFree == Capacity - fill_count

(* The two memcpys of ring_buffer_write: n bytes, the first numbered
   `first`, from `at` to the end of the ring and the rest from slot 0. *)
CopyIn(n, at, first) ==
    LET end_space == Capacity - at
    IN  IF n > end_space
        THEN [s \in Slots |->
                IF s >= at THEN first + (s - at)
                ELSE IF s < n - end_space THEN first + end_space + s
                ELSE buffer[s]]
        ELSE [s \in Slots |->
                IF s >= at /\ s < at + n THEN first + (s - at) ELSE buffer[s]]

(* The two memcpys of ring_buffer_read: what *data holds after n bytes. *)
CopyOut(n, at) ==
    LET end_data == Capacity - at
    IN  [i \in 1 .. n |->
            IF n > end_data /\ i > end_data THEN buffer[i - 1 - end_data]
            ELSE buffer[at + i - 1]]
-----------------------------------------------------------------------------
(* ring_buffer_create: malloc does not clear the buffer. *)
Init ==
    /\ buffer = [s \in Slots |-> 0]
    /\ read_pos = 0 /\ write_pos = 0 /\ fill_count = 0
    /\ canceled = FALSE
    /\ lock = FALSE
    /\ pc = "idle" /\ size = 0 /\ written = 0 /\ base = 0
    /\ accepted = 0 /\ delivered = 0
    /\ output = [i \in 1 .. 0 |-> 0]

(* ring_buffer_write is called with n bytes that continue the stream. *)
WriteCall(n) ==
    /\ pc = "idle"
    /\ accepted + n <= MaxBytes
    /\ pc' = "lock"
    /\ size' = n
    /\ base' = accepted
    /\ written' = 0
    /\ UNCHANGED <<ring, lock, accepted, delivered, output>>

(* Enter the critical section, at the call or when a wait is over. *)
WriteLock ==
    /\ pc = "lock"
    /\ ~lock
    /\ lock' = TRUE
    /\ pc' = "loop"
    /\ UNCHANGED <<ring, size, written, base, accepted, delivered, output>>

(* The loop ends: all bytes are in, or the ring was canceled. *)
WriteReturn ==
    /\ pc = "loop"
    /\ written >= size \/ canceled
    /\ lock' = FALSE
    /\ pc' = "idle"
    /\ UNCHANGED <<ring, size, written, base, accepted, delivered, output>>

(* The ring is full: release the lock and sleep on space_available. *)
WriteWait ==
    /\ pc = "loop"
    /\ written < size /\ ~canceled
    /\ SpaceFree = 0
    /\ lock' = FALSE
    /\ pc' = "wait"
    /\ UNCHANGED <<ring, size, written, base, accepted, delivered, output>>

(* Copy as much as fits and go round the loop. *)
WriteChunk ==
    /\ pc = "loop"
    /\ written < size /\ ~canceled
    /\ SpaceFree > 0
    /\ LET chunk == Smaller(size - written, SpaceFree)
       IN  /\ buffer' = CopyIn(chunk, write_pos, base + written + 1)
           /\ write_pos' = (write_pos + chunk) % Capacity
           /\ fill_count' = fill_count + chunk
           /\ written' = written + chunk
           /\ accepted' = accepted + chunk
    /\ UNCHANGED <<read_pos, canceled, lock, pc, size, base, delivered, output>>

(* pthread_cond_wait may return without a signal. *)
SpuriousWake ==
    /\ pc = "wait"
    /\ pc' = "lock"
    /\ UNCHANGED <<ring, lock, size, written, base, accepted, delivered, output>>

(* pthread_cond_signal, pthread_cond_broadcast: only the writer ever waits. *)
Wake == pc' = IF pc = "wait" THEN "lock" ELSE pc

(* ring_buffer_read(n): takes what there is, signals if it took any. *)
Read(n) ==
    /\ ~lock
    /\ LET to_read == Smaller(n, fill_count)
       IN  /\ output' = CopyOut(to_read, read_pos)
           /\ delivered' = delivered + to_read
           /\ IF to_read > 0
              THEN /\ read_pos' = (read_pos + to_read) % Capacity
                   /\ fill_count' = fill_count - to_read
                   /\ Wake
              ELSE UNCHANGED <<read_pos, fill_count, pc>>
    /\ UNCHANGED <<buffer, write_pos, canceled, lock, size, written, base, accepted>>

(* ring_buffer_cancel: for good, no operation ever clears the flag. *)
Cancel ==
    /\ ~lock
    /\ canceled' = TRUE
    /\ Wake
    /\ UNCHANGED <<buffer, read_pos, write_pos, fill_count, lock,
                   size, written, base, accepted, delivered, output>>

(* ring_buffer_available *)
Available == fill_count
-----------------------------------------------------------------------------
WriterStep == WriteLock \/ WriteReturn \/ WriteWait \/ WriteChunk

Next ==
    \/ \E n \in 0 .. MaxRequest : WriteCall(n)
    \/ WriterStep
    \/ SpuriousWake
    \/ \E n \in 0 .. MaxRequest : Read(n)
    \/ Cancel

Spec == Init /\ [][Next]_vars
-----------------------------------------------------------------------------
TypeOK ==
    /\ buffer \in [Slots -> Nat]
    /\ read_pos \in Slots /\ write_pos \in Slots
    /\ fill_count \in 0 .. Capacity
    /\ canceled \in BOOLEAN
    /\ lock \in BOOLEAN
    /\ pc \in {"idle", "lock", "loop", "wait"}
    /\ size \in 0 .. MaxRequest
    /\ written \in 0 .. size
    /\ base \in Nat /\ accepted \in Nat /\ delivered \in Nat

(* No lost wake-up: a writer sleeps on space_available only while there is
   neither room nor a cancellation it has not seen (lines 82-95, 154, 198). *)
NoLostWakeup == pc = "wait" => fill_count = Capacity /\ ~canceled

(* Live bytes, oldest first, are the last ones accepted and not delivered. *)
Contents ==
    /\ accepted = delivered + fill_count
    /\ write_pos = (read_pos + fill_count) % Capacity
    /\ \A i \in 0 .. fill_count - 1 :
            buffer[(read_pos + i) % Capacity] = delivered + 1 + i

(* Between a call and its return the bytes taken so far are exactly the
   first `written` ones of data. *)
Progress == pc # "idle" => base + written = accepted

(* The mutex is held exactly while a write is inside its loop. *)
LockHeld == lock <=> pc = "loop"

RingInv == TypeOK /\ LockHeld /\ Contents /\ Progress /\ NoLostWakeup

Abstract == INSTANCE Fifo

(* The ring is a bounded FIFO: no byte is lost, repeated, reordered or read
   torn across the wrap, whatever the interleaving (lines 72-165). *)
ImplementsFifo == Abstract!Spec
=============================================================================
