--------------------------- MODULE SpiSequenceProofs ---------------------------
(***************************************************************************)
(* SpiSequence for sequences of any length.  The division into transfers   *)
(* is arithmetic (XferSizesSum); the rest is that the bits still to do and *)
(* the bits done add up to the count at every step, and that a remainder   *)
(* is read at the place the output has reached: in apply_jtag_xfer always, *)
(* in SWJ_Sequence if it has no remainder or has not moved its pointer.    *)
(***************************************************************************)
EXTENDS SpiSequence, TLAPS

\* What is done and what is left make up the sequence.
Progress ==
  /\ currentBit + 8 * left.bytes + left.rm1 + left.rm2 = count
  /\ count >= 4 \/ currentBit = 0 => Len(out) = currentBit
  /\ currentBit >= 8 * ptr
  /\ left.bytes > 0 => currentBit = 8 * ptr

\* One to three bits are a single transfer.
Short == count < 4 => left.bytes = 0 /\ left.rm2 = 0 /\ left.rm1 \in {0, count}

\* The transfers still to do are of a size the SPI has.
LeftSupported ==
  /\ left.rm2 = 0 \/ left.rm2 >= 4
  /\ count >= 4 => left.rm1 = 0 \/ left.rm1 >= 4

\* Whose remainders are read where the output has got to.
Sound == user = "jtag" \/ SwjSound

RestsInPlace ==
  user = "swj" /\ SwjSound =>
    (left.rm1 = 0 /\ left.rm2 = 0) \/ (left.bytes = 0 /\ ptr = 0)

IInv ==
  /\ TypeOK
  /\ Progress
  /\ Short
  /\ LeftSupported
  /\ RestsInPlace
  /\ ChunksSupported
  /\ BitsInOrder

-------------------------------------------------------------------------------
\* calculate_xfer_sizes loses and invents no bit, and keeps to the sizes that the
\* SPI and extract_nbits_lsb (at most 16 bits) can handle.
LEMMA XferSizesSum ==
  ASSUME NEW n \in Nat
  PROVE  /\ XferSizes(n) \in [bytes : Nat, rm1 : 0..7, rm2 : 0..15]
         /\ 8 * XferSizes(n).bytes + XferSizes(n).rm1 + XferSizes(n).rm2 = n
         /\ XferSizes(n).rm2 = 0 \/ XferSizes(n).rm2 >= 4
         /\ n >= 4 => XferSizes(n).rm1 = 0 \/ XferSizes(n).rm1 >= 4
         /\ n < 4 => XferSizes(n) = [bytes |-> 0, rm1 |-> n, rm2 |-> 0]
<1> DEFINE q == n \div 8
           r == n % 8
<1>1. q \in Nat /\ r \in 0..7 /\ n = 8 * q + r
  OBVIOUS
<1> HIDE DEF q, r
<1>2. CASE r \in 1..3 /\ n > 8
  <2> DEFINE bytes == IF q - 2 > 0 THEN q - 2 ELSE 0
  <2>1. XferSizes(n) = [bytes |-> bytes, rm1 |-> 4, rm2 |-> n - 8 * bytes - 4]
    BY <1>2 DEF XferSizes, q, r
  <2>2. bytes \in Nat /\ n - 8 * bytes - 4 \in 4..15
    BY <1>1, <1>2
  <2> HIDE DEF bytes
  <2> QED
    BY <1>2, <2>1, <2>2
<1>3. CASE ~(r \in 1..3 /\ n > 8)
  <2>1. XferSizes(n) = [bytes |-> q, rm1 |-> r, rm2 |-> 0]
    BY <1>3 DEF XferSizes, q, r
  <2> QED
    BY <1>1, <1>3, <2>1
<1> QED
  BY <1>2, <1>3

\* A count at which SWJ_Sequence keeps its order is cut into bytes or into remainders.
LEMMA SizesOfSound ==
  ASSUME count \in Nat, SwjSound
  PROVE  \/ XferSizes(count).rm1 = 0 /\ XferSizes(count).rm2 = 0
         \/ XferSizes(count).bytes = 0
<1> DEFINE q == count \div 8
           r == count % 8
<1>1. q \in Nat /\ r \in 0..7 /\ count = 8 * q + r
  OBVIOUS
<1> HIDE DEF q, r
<1>2. CASE r = 0
  <2>1. XferSizes(count) = [bytes |-> q, rm1 |-> r, rm2 |-> 0]
    BY <1>2 DEF XferSizes, q, r
  <2> QED
    BY <1>2, <2>1
<1>3. CASE r # 0 /\ (q = 0 \/ (q \in 1..2 /\ r \in 1..3))
  <2>1. CASE q = 0
    <3>1. XferSizes(count) = [bytes |-> q, rm1 |-> r, rm2 |-> 0]
      BY <1>1, <2>1 DEF XferSizes, q, r
    <3> QED
      BY <2>1, <3>1
  <2>2. CASE q \in 1..2 /\ r \in 1..3
    <3> DEFINE bytes == IF q - 2 > 0 THEN q - 2 ELSE 0
    <3>1. XferSizes(count) = [bytes |-> bytes, rm1 |-> 4, rm2 |-> count - 8 * bytes - 4]
      BY <1>1, <2>2 DEF XferSizes, q, r
    <3>2. bytes = 0
      BY <1>1, <2>2
    <3> HIDE DEF bytes
    <3> QED
      BY <3>1, <3>2
  <2> QED
    BY <1>3, <2>1, <2>2
<1>4. r = 0 \/ (r # 0 /\ (q = 0 \/ (q \in 1..2 /\ r \in 1..3)))
  BY <1>1 DEF SwjSound, r
<1> QED
  BY <1>2, <1>3, <1>4

\* Initially everything is left to do.
LEMMA InitIInv == Init => IInv
<1> SUFFICES ASSUME Init PROVE IInv
  OBVIOUS
<1> USE DEF Init
<1>1. count \in Nat
  BY BitsAssumption
<1>2. TypeOK
  <2>1. left \in [bytes : Nat, rm1 : 0..7, rm2 : 0..15]
    BY <1>1, XferSizesSum
  <2>2. currentBit \in 0..MaxBits /\ out \in Seq(Nat \cup {NoBit}) /\ chunks \in Seq(1..15)
    BY BitsAssumption
  <2> QED
    BY <2>1, <2>2 DEF TypeOK
<1>3. Progress
  BY <1>1, <1>2, XferSizesSum DEF Progress, TypeOK
<1>4. LeftSupported /\ Short
  <2>1. LeftSupported
    BY <1>1, XferSizesSum DEF LeftSupported
  <2>2. count < 4 => left = [bytes |-> 0, rm1 |-> count, rm2 |-> 0]
    BY <1>1, XferSizesSum
  <2> QED
    BY <2>1, <2>2 DEF Short
<1>5. ChunksSupported /\ BitsInOrder
  BY DEF ChunksSupported, BitsInOrder
<1>6. RestsInPlace
  BY <1>1, SizesOfSound DEF RestsInPlace
<1> QED
  BY <1>2, <1>3, <1>4, <1>5, <1>6 DEF IInv

\* What stands where in a sequence of two parts.
LEMMA Joined ==
  ASSUME NEW S, NEW s \in Seq(S), NEW t \in Seq(S)
  PROVE  /\ s \o t \in Seq(S) /\ Len(s \o t) = Len(s) + Len(t)
         /\ \A i \in 1..Len(s) : (s \o t)[i] = s[i]
         /\ \A i \in Len(s) + 1..Len(s) + Len(t) : (s \o t)[i] = t[i - Len(s)]
  OBVIOUS

\* One SPI transfer of n bits, as both loops of remainders and the byte loop make
\* it: if it starts where the output has got to, the order is kept.
LEMMA TransferKeeps ==
  ASSUME IInv, NEW b \in Nat, NEW n \in 1..15, Transfer(b, n),
         count' = count, user' = user,
         Sound => b = currentBit,
         count >= 4 => n >= 4,
         count < 4 => n = count /\ currentBit = 0,
         currentBit + n <= MaxBits
  PROVE  /\ out' \in Seq(Nat \cup {NoBit}) /\ chunks' \in Seq(1..15)
         /\ currentBit' \in 0..MaxBits
         /\ count >= 4 \/ currentBit' = 0 => Len(out') = currentBit'
         /\ currentBit' = currentBit + n
         /\ ChunksSupported'
         /\ BitsInOrder'
<1> USE BitsAssumption
<1>1. /\ out \in Seq(Nat \cup {NoBit}) /\ chunks \in Seq(1..15) /\ currentBit \in Nat
      /\ count \in Nat /\ Len(out) \in Nat
  BY DEF IInv, TypeOK
<1>2. PICK cycles \in SpiCycles(n) :
        out' = out \o Bits(b, n) \o [i \in 1..cycles - n |-> NoBit]
  BY DEF Transfer
<1>3. /\ cycles \in Nat /\ cycles >= n /\ (n >= 4 => cycles = n)
  BY DEF SpiCycles, SpiSizes
<1> DEFINE pad == [i \in 1..cycles - n |-> NoBit]
<1>4. Bits(b, n) \in Seq(Nat \cup {NoBit}) /\ Len(Bits(b, n)) = n
  BY DEF Bits
<1>5. pad \in Seq(Nat \cup {NoBit}) /\ Len(pad) = cycles - n
  BY <1>3
<1> DEFINE bits == Bits(b, n)
           head == out \o bits
<1>6. out' = head \o pad
  BY <1>2
<1>a. bits \in Seq(Nat \cup {NoBit}) /\ Len(bits) = n
  BY <1>4
<1> HIDE DEF pad, bits
<1>b. /\ head \in Seq(Nat \cup {NoBit}) /\ Len(head) = Len(out) + n
      /\ \A i \in 1..Len(out) : head[i] = out[i]
      /\ \A i \in Len(out) + 1..Len(out) + n : head[i] = bits[i - Len(out)]
  BY <1>1, <1>a, Joined
<1> HIDE DEF head
<1>c. /\ head \o pad \in Seq(Nat \cup {NoBit}) /\ Len(head \o pad) = Len(head) + Len(pad)
      /\ \A i \in 1..Len(head) : (head \o pad)[i] = head[i]
  <2>1. head \in Seq(Nat \cup {NoBit}) /\ pad \in Seq(Nat \cup {NoBit})
    BY <1>5, <1>b
  <2> QED
    BY <2>1, Joined, Zenon
<1>d. /\ out' \in Seq(Nat \cup {NoBit}) /\ Len(out') = Len(head) + (cycles - n)
      /\ \A i \in 1..Len(head) : out'[i] = head[i]
  BY <1>5, <1>6, <1>c
<1>e. 1..Len(out) \subseteq 1..Len(head) /\ Len(out) + 1..Len(out) + n \subseteq 1..Len(head)
  BY <1>1, <1>b
<1>7. /\ out' \in Seq(Nat \cup {NoBit}) /\ Len(out') = Len(out) + cycles
      /\ \A i \in 1..Len(out) : out'[i] = out[i]
      /\ \A i \in Len(out) + 1..Len(out) + n : out'[i] = Bits(b, n)[i - Len(out)]
  <2>1. Len(out') = Len(out) + cycles
    BY <1>1, <1>3, <1>b, <1>d
  <2>2. \A i \in 1..Len(out) : out'[i] = out[i]
    BY <1>b, <1>d, <1>e, Zenon
  <2>3. \A i \in Len(out) + 1..Len(out) + n : out'[i] = bits[i - Len(out)]
    BY <1>b, <1>d, <1>e, Zenon
  <2> QED
    BY <1>d, <2>1, <2>2, <2>3 DEF bits
<1>8. chunks' \in Seq(1..15) /\ currentBit' = currentBit + n
  BY <1>1 DEF Transfer
<1>9. currentBit' \in 0..MaxBits /\ currentBit' # 0
  BY <1>1, <1>8
<1>10. Len(out) = currentBit
  BY <1>1 DEF IInv, Progress
<1>11. count >= 4 \/ currentBit' = 0 => Len(out') = currentBit'
  BY <1>3, <1>7, <1>8, <1>9, <1>10
<1>12. ChunksSupported'
  <2> SUFFICES ASSUME NEW i \in DOMAIN chunks'
               PROVE  chunks'[i] <= 16 /\ (count >= 4 => chunks'[i] >= 4)
    BY DEF ChunksSupported
  <2>0. chunks' = Append(chunks, n)
    BY DEF Transfer
  <2>1. CASE i \in DOMAIN chunks
    <3>1. chunks'[i] = chunks[i]
      BY <1>1, <2>0, <2>1
    <3> QED
      BY <2>1, <3>1 DEF IInv, ChunksSupported
  <2>2. CASE i = Len(chunks) + 1
    BY <1>1, <2>0, <2>2
  <2> QED
    BY <1>1, <2>0, <2>1, <2>2
<1>13. BitsInOrder'
  <2>0. Sound' <=> Sound
    BY DEF Sound, SwjSound
  <2> SUFFICES ASSUME Sound, NEW i \in DOMAIN out', i <= count
               PROVE  out'[i] = i - 1
    BY <2>0 DEF BitsInOrder, Sound
  <2>1. CASE i \in 1..Len(out)
    <3>1. out'[i] = out[i]
      BY <1>7, <2>1
    <3> QED
      BY <1>1, <2>1, <3>1 DEF IInv, BitsInOrder, Sound
  <2>2. CASE i \in Len(out) + 1..Len(out) + n
    <3>1. out'[i] = Bits(b, n)[i - Len(out)]
      BY <1>7, <2>2
    <3>2. i - Len(out) \in 1..n
      BY <1>1, <2>2
    <3>3. Bits(b, n)[i - Len(out)] = b + (i - Len(out)) - 1
      BY <3>2 DEF Bits
    <3>4. b = Len(out)
      BY <1>10
    <3> QED
      BY <1>1, <2>2, <3>1, <3>3, <3>4
  <2>3. i \in 1..Len(out) + n
    <3>1. i \in 1..Len(out) + cycles
      BY <1>7
    <3>2. CASE count >= 4
      BY <1>3, <3>1, <3>2
    <3>3. CASE count < 4
      BY <1>1, <1>10, <3>1, <3>3
    <3> QED
      BY <1>1, <3>2, <3>3
  <2> QED
    BY <1>1, <2>1, <2>2, <2>3
<1> QED
  BY <1>7, <1>8, <1>9, <1>11, <1>12, <1>13

\* Each loop keeps the invariant.
LEMMA NextIInv == IInv /\ [Next]_vars => IInv'
<1> SUFFICES ASSUME IInv, [Next]_vars PROVE IInv'
  OBVIOUS
<1>0. /\ left \in [bytes : Nat, rm1 : 0..7, rm2 : 0..15]
      /\ ptr \in Nat /\ currentBit \in Nat /\ count \in 1..MaxBits /\ MaxBits \in Nat
      /\ user \in User
  BY BitsAssumption DEF IInv, TypeOK
<1>p. /\ currentBit + 8 * left.bytes + left.rm1 + left.rm2 = count
      /\ currentBit >= 8 * ptr
      /\ left.bytes > 0 => currentBit = 8 * ptr
  BY Zenon DEF IInv, Progress
<1>f. left.bytes \in Nat /\ left.rm1 \in Nat /\ left.rm2 \in Nat
  <2>1. left.bytes \in Nat /\ left.rm1 \in 0..7 /\ left.rm2 \in 0..15
    BY <1>0
  <2> QED
    BY <2>1
<1>n. /\ ptr \in Nat /\ currentBit \in Nat /\ count \in Nat /\ MaxBits \in Nat
      /\ count <= MaxBits
  BY <1>0
<1>1. CASE ByteStep
  <2>1. /\ Transfer(8 * ptr, 8) /\ currentBit = 8 * ptr
        /\ left' = [left EXCEPT !.bytes = @ - 1] /\ left.bytes > 0
        /\ ptr' = ptr + 1 /\ user' = user /\ count' = count
    BY <1>1 DEF ByteStep, IInv, Progress
  <2>2. currentBit + 8 <= MaxBits
    <3>1. left.bytes > 0
      BY <2>1
    <3> QED
      BY <1>n, <1>p, <1>f, <3>1
  <2>a. count >= 4
    BY <1>0, <2>1 DEF IInv, Short
  <2>3. /\ out' \in Seq(Nat \cup {NoBit}) /\ chunks' \in Seq(1..15)
        /\ currentBit' \in 0..MaxBits
        /\ (count >= 4 \/ currentBit' = 0 => Len(out') = currentBit') /\ currentBit' = currentBit + 8
        /\ ChunksSupported' /\ BitsInOrder'
    BY <1>0, <2>1, <2>2, <2>a, TransferKeeps
  <2>4. /\ left' \in [bytes : Nat, rm1 : 0..7, rm2 : 0..15]
        /\ left'.bytes = left.bytes - 1 /\ left'.rm1 = left.rm1 /\ left'.rm2 = left.rm2
    BY <1>0, <2>1
  <2>5. TypeOK'
    BY <1>0, <2>1, <2>3, <2>4 DEF TypeOK
  <2>6. Progress'
    <3>1. /\ ptr' = ptr + 1 /\ currentBit' = currentBit + 8 /\ count' = count
          /\ currentBit = 8 * ptr
      BY <2>1, <2>3
    <3>2. /\ currentBit' + 8 * left'.bytes + left'.rm1 + left'.rm2 = count'
          /\ currentBit' = 8 * ptr'
      BY <1>n, <1>p, <1>f, <2>4, <3>1
    <3> QED
      BY <1>n, <2>3, <3>1, <3>2 DEF Progress
  <2>7. LeftSupported'
    BY <2>1, <2>4 DEF IInv, LeftSupported
  <2>b. Short'
    BY <2>1, <2>4 DEF IInv, Short
  <2>8. RestsInPlace'
    BY <1>0, <2>1, <2>4 DEF IInv, RestsInPlace, SwjSound
  <2> QED
    BY <2>3, <2>5, <2>6, <2>7, <2>8, <2>b DEF IInv
<1>2. CASE Rest1Step
  <2>1. /\ Transfer(RestFrom, left.rm1) /\ left.bytes = 0 /\ left.rm1 > 0
        /\ left' = [left EXCEPT !.rm1 = 0]
        /\ ptr' = ptr /\ user' = user /\ count' = count
    BY <1>2 DEF Rest1Step
  <2>a. count < 4 => left.rm1 = count /\ currentBit = 0
    <3>1. count < 4 => left.rm1 = count /\ left.bytes = 0 /\ left.rm2 = 0
      BY <1>0, <2>1 DEF IInv, Short
    <3> QED
      BY <1>n, <1>p, <1>f, <3>1
  <2>2. currentBit + left.rm1 <= MaxBits /\ (count >= 4 => left.rm1 >= 4)
    BY <1>0, <1>p, <1>f, <2>1 DEF IInv, LeftSupported
  <2>3. RestFrom \in Nat /\ (Sound => RestFrom = currentBit)
    <3>1. Sound /\ user # "jtag" => ptr = 0
      BY <1>0, <2>1 DEF IInv, RestsInPlace, Sound, User
    <3> QED
      BY <1>0, <3>1 DEF RestFrom, User
  <2>4. /\ out' \in Seq(Nat \cup {NoBit}) /\ chunks' \in Seq(1..15)
        /\ currentBit' \in 0..MaxBits
        /\ (count >= 4 \/ currentBit' = 0 => Len(out') = currentBit') /\ currentBit' = currentBit + left.rm1
        /\ ChunksSupported' /\ BitsInOrder'
    <3>1. left.rm1 \in 1..15
      BY <1>0, <2>1
    <3> QED
      BY <2>1, <2>2, <2>3, <2>a, <3>1, TransferKeeps
  <2>5. /\ left' \in [bytes : Nat, rm1 : 0..7, rm2 : 0..15]
        /\ left'.bytes = 0 /\ left'.rm1 = 0 /\ left'.rm2 = left.rm2
    BY <1>0, <2>1
  <2>6. TypeOK'
    BY <1>0, <2>1, <2>4, <2>5 DEF TypeOK
  <2>7. Progress'
    <3>1. /\ ptr' = ptr /\ currentBit' = currentBit + left.rm1 /\ count' = count
          /\ left.bytes = 0
      BY <2>1, <2>4
    <3>2. /\ currentBit' + 8 * left'.bytes + left'.rm1 + left'.rm2 = count'
          /\ currentBit' >= 8 * ptr'
      BY <1>n, <1>p, <1>f, <2>5, <3>1
    <3> QED
      BY <2>1, <2>4, <2>5, <3>2 DEF Progress
  <2>8. LeftSupported'
    BY <2>1, <2>5 DEF IInv, LeftSupported
  <2>b. Short'
    BY <1>0, <2>1, <2>5 DEF IInv, Short
  <2>9. RestsInPlace'
    BY <1>0, <2>1, <2>5 DEF IInv, RestsInPlace, SwjSound
  <2> QED
    BY <2>4, <2>6, <2>7, <2>8, <2>9, <2>b DEF IInv
<1>3. CASE Rest2Step
  <2>1. /\ Transfer(RestFrom, left.rm2) /\ left.bytes = 0 /\ left.rm1 = 0 /\ left.rm2 > 0
        /\ left' = [left EXCEPT !.rm2 = 0]
        /\ ptr' = ptr /\ user' = user /\ count' = count
    BY <1>3 DEF Rest2Step
  <2>a. ~(count < 4)
    BY <1>0, <2>1 DEF IInv, Short
  <2>2. currentBit + left.rm2 <= MaxBits /\ (count >= 4 => left.rm2 >= 4)
    BY <1>0, <1>p, <1>f, <2>1 DEF IInv, LeftSupported
  <2>3. RestFrom \in Nat /\ (Sound => RestFrom = currentBit)
    <3>1. Sound /\ user # "jtag" => ptr = 0
      BY <1>0, <2>1 DEF IInv, RestsInPlace, Sound, User
    <3> QED
      BY <1>0, <3>1 DEF RestFrom, User
  <2>4. /\ out' \in Seq(Nat \cup {NoBit}) /\ chunks' \in Seq(1..15)
        /\ currentBit' \in 0..MaxBits
        /\ (count >= 4 \/ currentBit' = 0 => Len(out') = currentBit') /\ currentBit' = currentBit + left.rm2
        /\ ChunksSupported' /\ BitsInOrder'
    <3>1. left.rm2 \in 1..15
      BY <1>0, <2>1
    <3> QED
      BY <2>1, <2>2, <2>3, <2>a, <3>1, TransferKeeps
  <2>5. /\ left' \in [bytes : Nat, rm1 : 0..7, rm2 : 0..15]
        /\ left'.bytes = 0 /\ left'.rm1 = 0 /\ left'.rm2 = 0
    BY <1>0, <2>1
  <2>6. TypeOK'
    BY <1>0, <2>1, <2>4, <2>5 DEF TypeOK
  <2>7. Progress'
    <3>1. /\ ptr' = ptr /\ currentBit' = currentBit + left.rm2 /\ count' = count
          /\ left.bytes = 0 /\ left.rm1 = 0
      BY <2>1, <2>4
    <3>2. /\ currentBit' + 8 * left'.bytes + left'.rm1 + left'.rm2 = count'
          /\ currentBit' >= 8 * ptr'
      BY <1>n, <1>p, <1>f, <2>5, <3>1
    <3> QED
      BY <2>1, <2>4, <2>5, <3>2 DEF Progress
  <2>8. LeftSupported'
    BY <2>1, <2>5 DEF IInv, LeftSupported
  <2>b. Short'
    BY <1>0, <2>1, <2>5 DEF IInv, Short
  <2>9. RestsInPlace'
    BY <1>0, <2>1, <2>5 DEF IInv, RestsInPlace, SwjSound
  <2> QED
    BY <2>4, <2>6, <2>7, <2>8, <2>9, <2>b DEF IInv
<1>4. CASE UNCHANGED vars
  BY <1>4 DEF vars, IInv, TypeOK, Progress, Short, LeftSupported, RestsInPlace,
              SwjSound, ChunksSupported, BitsInOrder
<1> QED
  BY <1>1, <1>2, <1>3, <1>4 DEF Next

-------------------------------------------------------------------------------
\* The inductive invariant, for sequences of any length.
THEOREM Invariance == Spec => []IInv
  BY InitIInv, NextIInv, PTL DEF Spec

\* The variables keep their types: the remainders fit extract_nbits_lsb.
THEOREM TypeCorrect == Spec => []TypeOK
<1>1. IInv => TypeOK
  BY DEF IInv
<1> QED
  BY <1>1, Invariance, PTL

\* SWJ_Sequence and apply_jtag_xfer clock exactly count cycles, if there are four
\* bits to send.
THEOREM ExactClocks == Spec => []ClocksMatchCount
<1>1. IInv => ClocksMatchCount
  BY DEF IInv, TypeOK, Progress, ClocksMatchCount, Done
<1> QED
  BY <1>1, Invariance, PTL

\* Every transfer is one the SPI can make, if there are four bits to send.
THEOREM SizesSupported == Spec => []ChunksSupported
<1>1. IInv => ChunksSupported
  BY DEF IInv
<1> QED
  BY <1>1, Invariance, PTL

\* apply_jtag_xfer clocks out the bits of its request in order, and SWJ_Sequence
\* those of a request whose count its two offsets agree on.
THEOREM InOrder == Spec => []BitsInOrder
<1>1. IInv => BitsInOrder
  BY DEF IInv
<1> QED
  BY <1>1, Invariance, PTL
================================================================================
