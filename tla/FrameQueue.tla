------------------------------ MODULE FrameQueue ------------------------------
(***************************************************************************)
(* What an Ethernet receive path promises: frames wait in order in slots,  *)
(* each is handed over once, and none waits for ever; one is lost only     *)
(* when every slot holds a frame or lacks a buffer.                        *)
(***************************************************************************)
EXTENDS Naturals, Sequences

CONSTANT Slots           \* how many frames can wait

VARIABLES
  arrived,               \* frames seen on the wire; they are numbered
  waiting,               \* received and not yet handed over
  short,                 \* slots without a buffer
  last                   \* the last frame handed over; 0: none

qvars == <<arrived, waiting, short, last>>

\* The link is down.
Init ==
  /\ arrived = 0
  /\ waiting = <<>>
  /\ short = Slots
  /\ last = 0

Receive ==
  /\ Len(waiting) + short < Slots
  /\ arrived' = arrived + 1
  /\ waiting' = Append(waiting, arrived')
  /\ UNCHANGED <<short, last>>

Lose ==
  /\ Len(waiting) + short = Slots
  /\ arrived' = arrived + 1
  /\ UNCHANGED <<waiting, short, last>>

\* The frame goes with its buffer.
HandOver ==
  /\ waiting # <<>>
  /\ last' = Head(waiting)
  /\ waiting' = Tail(waiting)
  /\ short' = short + 1
  /\ UNCHANGED arrived

Refill ==
  /\ short' \in 0..short - 1
  /\ UNCHANGED <<arrived, waiting, last>>

LinkDown ==
  /\ waiting = <<>>
  /\ short' = Slots
  /\ UNCHANGED <<arrived, waiting, last>>

Next == Receive \/ Lose \/ HandOver \/ Refill \/ LinkDown

Spec == Init /\ [][Next]_qvars /\ WF_qvars(HandOver)
===============================================================================
