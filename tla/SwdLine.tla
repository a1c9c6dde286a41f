-------------------------------- MODULE SwdLine --------------------------------
(***************************************************************************)
(* One SWD transaction on the wire: SWD_Transfer_LL in                     *)
(* Core/Src/CMSIS-DAP/SW_DP.c (225-452).                                   *)
(*                                                                         *)
(* A transaction is a row of clock cycles whose meaning only their number  *)
(* tells, and in which probe and target take turns at driving one line.    *)
(* The SPIs move 4 to 16 cycles at a time, so the code cuts the row into   *)
(* transfers that begin and end anywhere in it and puts the word together  *)
(* with shifts.  One step is one SPI transfer and the code behind it.      *)
(*                                                                         *)
(* A bit is identified by the cycle it was sampled in.  A target without   *)
(* an answer ("none") leaves the line alone.                               *)
(***************************************************************************)
EXTENDS Naturals, Sequences, SequencesExt

CONSTANT Turnaround      \* DAP_Data.swd_conf.turnaround

ASSUME LineAssumption == Turnaround \in 1..4

VARIABLES
  op,                    \* the bit RnW of the request: "read" or "write"
  reply,                 \* what the target acknowledges
  damaged,               \* the cycle in which the line is disturbed; 0: none
  pc,                    \* the next SPI transfer
  line,                  \* what the probe does in each cycle so far
  ack,                   \* ack; "none" before it has been read
  word                   \* read_data: the cycles that went into each bit

vars == <<op, reply, damaged, pc, line, ack, word>>

Item(kind, n) == [i \in 1..n |-> <<kind, i>>]
DataItems(from, n) == [i \in 1..n |-> <<"data", from + i - 1>>]

-------------------------------------------------------------------------------
\* ARM IHI 0031: the cycles of a transaction as the target counts them.  "ack",
\* "value" and "check" are driven by the target; nobody drives a turnaround.
Frame ==
  Item("request", 8) \o Item("turn", Turnaround) \o Item("ack", 3) \o
    (IF reply # "OK" THEN Item("turn", Turnaround)
     ELSE IF op = "read"
     THEN Item("value", 32) \o Item("check", 1) \o Item("turn", Turnaround)
     ELSE Item("turn", Turnaround) \o DataItems(0, 32) \o Item("parity", 1))

CycleOf(item) == CHOOSE c \in DOMAIN Frame : Frame[c] = item
AckCycles     == {c \in DOMAIN Frame : Frame[c][1] = "ack"}
ValueCycles   == {c \in DOMAIN Frame : Frame[c][1] \in {"value", "check"}}

Init ==
  /\ op \in {"read", "write"}
  /\ reply \in {"OK", "WAIT", "FAULT", "none"}
  /\ damaged \in {0} \cup ValueCycles
  /\ pc = "request"
  /\ line = <<>>
  /\ ack = "none"
  /\ word = [b \in 0..31 |-> {}]

-------------------------------------------------------------------------------
\* The cycle of bit i of the transfer that comes next.
Sampled(i) == Len(line) + 1 + i

Drive(items) == line' = line \o items                \* SPI_SwitchPhaseToWrite
Listen(n)    == line' = line \o Item("released", n)  \* SPI_SwitchPhaseToListen

Request ==
  /\ pc = "request"
  /\ Drive(Item("request", 8))
  /\ pc' = "ack"
  /\ UNCHANGED <<op, reply, damaged, ack, word>>

\* dummyRead >> 1 & 0x7
AckRead == IF {Sampled(i) : i \in 1..3} = AckCycles THEN reply ELSE "garbled"

\* word |= the bits of the transfer, the first of which comes to bit `to`.
Merge(first, last, to) ==
  word' = [b \in 0..31 |->
             word[b] \cup {Sampled(i) : i \in {j \in first..last : to + j - first = b}}]

\* The end of the acknowledge is already the first bit of the word; without an OK
\* it is the turnaround.
ReadAck ==
  /\ pc = "ack" /\ op = "read"
  /\ Listen(4 + Turnaround)
  /\ ack' = AckRead
  /\ IF ack' = "OK"
     THEN pc' = "low" /\ Merge(4, 3 + Turnaround, 0)
     ELSE pc' = "done" /\ UNCHANGED word
  /\ UNCHANGED <<op, reply, damaged>>

ReadLow ==
  /\ pc = "low" /\ op = "read"
  /\ Listen(16)
  /\ Merge(0, 15, 1)
  /\ pc' = "middle"
  /\ UNCHANGED <<op, reply, damaged, ack>>

\* Mutant: shifted as if the first bit had not come with the acknowledge.
ReadMiddleShifted ==
  /\ pc = "middle" /\ op = "read"
  /\ Listen(8)
  /\ Merge(0, 7, 16)
  /\ pc' = "high"
  /\ UNCHANGED <<op, reply, damaged, ack>>

ReadMiddle ==
  /\ pc = "middle" /\ op = "read"
  /\ Listen(8)
  /\ Merge(0, 7, 17)
  /\ pc' = "high"
  /\ UNCHANGED <<op, reply, damaged, ack>>

\* Mutant: the turnaround is taken for the parity.
LastBit == Sampled(7 + Turnaround)

ParityBit == Sampled(6 + Turnaround)                 \* parityIdx

\* The rest of the word, its parity and the turnaround.
ReadHigh ==
  /\ pc = "high" /\ op = "read"
  /\ Listen(8 + Turnaround)
  /\ Merge(0, 7, 25)
  /\ ack' = (IF damaged \in (UNION {word'[b] : b \in 0..31}) \cup {ParityBit}
             THEN "ERROR" ELSE ack)
  /\ pc' = "done"
  /\ UNCHANGED <<op, reply, damaged>>

WriteAck ==
  /\ pc = "ack" /\ op = "write"
  /\ Listen(2 * Turnaround + 3)
  /\ ack' = AckRead
  /\ pc' = (IF ack' = "OK" THEN "low" ELSE "done")
  /\ UNCHANGED <<op, reply, damaged, word>>

WriteLow ==
  /\ pc = "low" /\ op = "write"
  /\ Drive(DataItems(0, 16))
  /\ pc' = "middle"
  /\ UNCHANGED <<op, reply, damaged, ack, word>>

WriteMiddle ==
  /\ pc = "middle" /\ op = "write"
  /\ Drive(DataItems(16, 8))
  /\ pc' = "high"
  /\ UNCHANGED <<op, reply, damaged, ack, word>>

\* Mutant: the parity is not put behind the word.
WriteHighNoParity ==
  /\ pc = "high" /\ op = "write"
  /\ Drive(DataItems(24, 8) \o Item("zero", 8))
  /\ pc' = "done"
  /\ UNCHANGED <<op, reply, damaged, ack, word>>

\* An SPI transfer of 9 cycles is one of 16: the rest are zeros.
WriteHigh ==
  /\ pc = "high" /\ op = "write"
  /\ Drive(DataItems(24, 8) \o Item("parity", 1) \o Item("zero", 7))
  /\ pc' = "done"
  /\ UNCHANGED <<op, reply, damaged, ack, word>>

Next ==
  \/ Request
  \/ ReadAck \/ ReadLow \/ ReadMiddle \/ ReadHigh
  \/ WriteAck \/ WriteLow \/ WriteMiddle \/ WriteHigh

Spec == Init /\ [][Next]_vars

-------------------------------------------------------------------------------
\* Whatever the target answers, a transaction ends with the target waiting for the
\* next request: the probe has clocked it through its whole frame, has driven
\* exactly the cycles that are the probe's, and has held the line low after it.
EndsInStep ==
  pc = "done" =>
    /\ Len(line) >= Len(Frame)
    /\ \A c \in DOMAIN line :
         IF c > Len(Frame) THEN line[c][1] = "zero"
         ELSE IF Frame[c][1] \in {"request", "data", "parity"} THEN line[c] = Frame[c]
         ELSE line[c][1] = "released"

\* A read returns the bits of the word in order, each sampled in its own cycle.
WordInOrder ==
  pc = "done" /\ op = "read" /\ ack = "OK" =>
    \A b \in 0..31 : word[b] = {CycleOf(<<"value", b + 1>>)}

\* What SWD_Transfer returns is what the target has acknowledged, except that a
\* disturbance anywhere in the word or its parity makes it an ERROR.
AckHonest ==
  pc = "done" => ack = IF damaged # 0 THEN "ERROR" ELSE reply
================================================================================
