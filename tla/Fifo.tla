-------------------------------- MODULE Fifo --------------------------------
(***************************************************************************)
(* What an audio queue of the player promises, whatever it is built from:  *)
(* a bounded queue that neither loses, repeats nor reorders what it        *)
(* accepted.  Units (bytes of the ring buffer, frames of the JACK queue)   *)
(* are numbered in the order the producer offered them, so the state is    *)
(* two counters and the last batch that was handed out; a queue that       *)
(* delivered a stale, torn, duplicated or misplaced unit would hand out a  *)
(* batch whose numbers are not the next ones.                              *)
(***************************************************************************)
EXTENDS Naturals

CONSTANT Capacity   \* units the queue holds, at least 1

VARIABLES
    accepted,   \* units accepted since the beginning; the last one has this number
    delivered,  \* units that left the queue since the beginning
    output      \* the last batch handed out, a function on 1..n

fifoVars == <<accepted, delivered, output>>

Init ==
    /\ accepted = 0
    /\ delivered = 0
    /\ output = [i \in 1 .. 0 |-> 0]

(* The producer appends n units, as far as they fit. *)
Put(n) ==
    /\ accepted + n - delivered <= Capacity
    /\ accepted' = accepted + n
    /\ UNCHANGED <<delivered, output>>

(* The consumer receives the n oldest units, in order. *)
Take(n) ==
    /\ delivered + n <= accepted
    /\ delivered' = delivered + n
    /\ output' = [i \in 1 .. n |-> delivered + i]
    /\ UNCHANGED accepted

(* Everything still queued is dropped: none of it is delivered later. *)
Discard ==
    /\ delivered' = accepted
    /\ UNCHANGED <<accepted, output>>

Next ==
    \/ \E n \in 1 .. Capacity : Put(n)
    \/ \E n \in 0 .. Capacity : Take(n)
    \/ Discard

Spec == Init /\ [][Next]_fifoVars
=============================================================================
