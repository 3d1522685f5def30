------------------------------ MODULE LossyFifo ------------------------------
(****************************************************************************)
(* What MOTORDRIVER/Queue.c promises its callers: a bounded FIFO of         *)
(* messages that never refuses one.  When it is full, the next message      *)
(* does not wait and does not replace the oldest: everything that was       *)
(* queued is dropped and the new message is alone in the queue.             *)
(****************************************************************************)
EXTENDS Integers, Sequences

CONSTANTS Msgs,      \* the messages callers put in the queue
          Blank,     \* a caller's buffer before anything was copied to it
          MaxCount   \* capacity

VARIABLES items,     \* the queued messages, oldest first
          pe,        \* the caller's buffer: the last message copied out
          ret        \* the value the last call returned

vars == <<items, pe, ret>>

Init == items = <<>> /\ pe = Blank /\ ret = 0

Clear == items' = <<>> /\ ret' = 0 /\ UNCHANGED pe

Put(m) ==
  /\ items' = IF Len(items) < MaxCount THEN Append(items, m) ELSE <<m>>
  /\ ret' = 0
  /\ UNCHANGED pe

Take ==
  /\ items # <<>>
  /\ pe' = Head(items)
  /\ items' = Tail(items)
  /\ ret' = 0

Peek ==
  /\ items # <<>>
  /\ pe' = Head(items)
  /\ ret' = 0
  /\ UNCHANGED items

Drop == items # <<>> /\ items' = Tail(items) /\ ret' = 0 /\ UNCHANGED pe

Refuse == items = <<>> /\ ret' = -1 /\ UNCHANGED <<items, pe>>

Next == Clear \/ (\E m \in Msgs : Put(m)) \/ Take \/ Peek \/ Drop \/ Refuse

Spec == Init /\ [][Next]_vars
==============================================================================
