------------------------------- MODULE SpiSequence -------------------------------
(***************************************************************************)
(* How a bit sequence of a DAP command is clocked out through the SPI      *)
(* peripherals, which move 4 to 16 bits at a time: calculate_xfer_sizes    *)
(* (Core/Src/helper.c) and its two users, SWJ_Sequence (SW_DP.c) and       *)
(* apply_jtag_xfer (JTAG_DP.c).                                            *)
(*                                                                         *)
(* One step is one SPI transfer.  A bit is its number in the request's     *)
(* data, so the output has for each clock cycle the number of the bit that *)
(* it carried, or NoBit.                                                   *)
(***************************************************************************)
EXTENDS Integers, Sequences

CONSTANT MaxBits         \* bound: bits per sequence (256 for SWJ, a 16-bit count for JTAG)

ASSUME BitsAssumption == MaxBits \in Nat \ {0}

User == {"swj", "jtag"}

NoBit == -1              \* what a cycle carries that the request has no bit for

VARIABLES
  user,                  \* which of the two functions runs
  count,                 \* its bit count
  left,                  \* xFerSizes: what each of the three loops still has to do
  ptr,                   \* bytes the data pointer has been advanced
  currentBit,
  out,                   \* the clock cycles so far: the number of the bit in each
  chunks                 \* the sizes of the transfers so far

vars == <<user, count, left, ptr, currentBit, out, chunks>>

\* Mutant: the short remainder is not split.
SizesUnsplit(n) == [bytes |-> n \div 8, rm1 |-> n % 8, rm2 |-> 0]

\* Mutant: three bytes are taken back for the two remainders.
SizesThreeBack(n) ==
  IF n % 8 \in 1..3 /\ n > 8
  THEN LET bytes == IF n \div 8 - 2 > 0 THEN n \div 8 - 3 ELSE 0
       IN  [bytes |-> bytes, rm1 |-> 4, rm2 |-> n - 8 * bytes - 4]
  ELSE [bytes |-> n \div 8, rm1 |-> n % 8, rm2 |-> 0]

\* Mutant: the first remainder is forgotten.
SizesForgetting(n) ==
  IF n % 8 \in 1..3 /\ n > 8
  THEN LET bytes == IF n \div 8 - 2 > 0 THEN n \div 8 - 2 ELSE 0
       IN  [bytes |-> bytes, rm1 |-> 4, rm2 |-> n - 8 * bytes]
  ELSE [bytes |-> n \div 8, rm1 |-> n % 8, rm2 |-> 0]

\* calculate_xfer_sizes: bytes, then up to two remainders.  A remainder of one to
\* three bits is made longer with the bits of the last bytes.
XferSizes(n) ==
  IF n % 8 \in 1..3 /\ n > 8
  THEN LET bytes == IF n \div 8 - 2 > 0 THEN n \div 8 - 2 ELSE 0
       IN  [bytes |-> bytes, rm1 |-> 4, rm2 |-> n - 8 * bytes - 4]
  ELSE [bytes |-> n \div 8, rm1 |-> n % 8, rm2 |-> 0]

TypeOK ==
  /\ user \in User
  /\ count \in 1..MaxBits
  /\ left \in [bytes : Nat, rm1 : 0..7, rm2 : 0..15]
  /\ ptr \in Nat
  /\ currentBit \in 0..MaxBits
  /\ out \in Seq(Nat \cup {NoBit})
  /\ chunks \in Seq(1..15)

Init ==
  /\ user \in User
  /\ count \in 1..MaxBits
  /\ left = XferSizes(count)
  /\ ptr = 0
  /\ currentBit = 0
  /\ out = <<>>
  /\ chunks = <<>>

-------------------------------------------------------------------------------
\* The n bits from number b on.
Bits(b, n) == [i \in 1..n |-> b + i - 1]

\* The data sizes the SPI has.
SpiSizes == 4..16

\* How many cycles the SPI makes of a data size of n.  Sizes below four are reserved
\* values of its register, and what it makes of one is its own affair: some size it
\* has, with nothing of the request in the cycles behind the n bits.
SpiCycles(n) == IF n \in SpiSizes THEN {n} ELSE SpiSizes

\* One transfer of n bits from number b on; xFer runs both SPIs in lock step.  The
\* size is written to the register as it is, and counted as it is.
Transfer(b, n) ==
  /\ \E cycles \in SpiCycles(n) :
       out' = out \o Bits(b, n) \o [i \in 1..cycles - n |-> NoBit]
  /\ chunks' = Append(chunks, n)
  /\ currentBit' = currentBit + n

\* Mutant: the base moves with the byte loop in both functions.
RestMoved == 8 * ptr + currentBit

\* Where the remainders are extracted from: apply_jtag_xfer from the request's
\* data at currentBit, SWJ_Sequence from the pointer its byte loop has advanced,
\* at currentBit.
RestFrom == IF user = "swj" THEN 8 * ptr + currentBit ELSE currentBit

\* while(xFerSizes[IDX_8_BIT])
ByteStep ==
  /\ left.bytes > 0
  /\ Transfer(8 * ptr, 8)
  /\ ptr' = ptr + 1
  /\ left' = [left EXCEPT !.bytes = @ - 1]
  /\ UNCHANGED <<user, count>>

\* while(xFerSizes[IDX_RM1_BIT])
Rest1Step ==
  /\ left.bytes = 0
  /\ left.rm1 > 0
  /\ Transfer(RestFrom, left.rm1)
  /\ left' = [left EXCEPT !.rm1 = 0]
  /\ UNCHANGED <<user, count, ptr>>

\* while(xFerSizes[IDX_RM2_BIT])
Rest2Step ==
  /\ left.bytes = 0
  /\ left.rm1 = 0
  /\ left.rm2 > 0
  /\ Transfer(RestFrom, left.rm2)
  /\ left' = [left EXCEPT !.rm2 = 0]
  /\ UNCHANGED <<user, count, ptr>>

Next == ByteStep \/ Rest1Step \/ Rest2Step

Spec == Init /\ [][Next]_vars

-------------------------------------------------------------------------------
Done == left.bytes = 0 /\ left.rm1 = 0 /\ left.rm2 = 0

\* However a sequence of four bits or more is cut, the target sees exactly count
\* clock cycles: one more or less would leave the SWD or JTAG state machine in
\* another state.  Sequences of one to three bits are excepted: they go out as one
\* transfer of a size the SPI does not have.
ClocksMatchCount == Done /\ count >= 4 => currentBit = count /\ Len(out) = count

\* helper.c:150-152: no transfer is shorter than the SPI's four cycles, as long
\* as there are four bits to send at all, and none is longer than its sixteen.
ChunksSupported ==
  \A i \in DOMAIN chunks : chunks[i] <= 16 /\ (count >= 4 => chunks[i] >= 4)

\* Where SWJ_Sequence, too, sends its bits in order: its byte loop moves the data
\* pointer as well as currentBit, so remainders that come behind a byte are taken
\* from twice as far into the data.
SwjSound == count % 8 = 0 \/ count < 12 \/ count \in 17..19

\* The bits of the request are clocked out in order, without a gap or a repetition,
\* across all three loops: by apply_jtag_xfer at every count, by SWJ_Sequence at
\* those for which its two ways of counting agree.  (Behind a sequence of one to
\* three bits come cycles that it has no bits for.)
BitsInOrder ==
  user = "jtag" \/ SwjSound => \A i \in DOMAIN out : i <= count => out[i] = i - 1
================================================================================
