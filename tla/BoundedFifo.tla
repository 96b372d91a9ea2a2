---------------------------- MODULE BoundedFifo ----------------------------
(* What Queue<T> promises its users: a bounded first-in first-out buffer   *)
(* that can be switched off.  While it is off an element may still come in *)
(* or go out (the calls that were under way), but none is ever lost,       *)
(* duplicated, reordered or stored past the capacity.                      *)
EXTENDS Naturals, Sequences

CONSTANTS Values, Capacity

VARIABLES
  items,  \* the buffered elements, oldest first
  off     \* the queue is stopped

fifoVars == <<items, off>>

FifoInit == items = <<>> /\ off = FALSE

Put(v) == Len(items) < Capacity /\ items' = Append(items, v) /\ UNCHANGED off

Take == items # <<>> /\ items' = Tail(items) /\ UNCHANGED off

Switch(b) == off # b /\ off' = b /\ UNCHANGED items

FifoNext ==
  \/ \E v \in Values : Put(v)
  \/ Take
  \/ \E b \in BOOLEAN : Switch(b)

FifoSpec == FifoInit /\ [][FifoNext]_fifoVars
=============================================================================
