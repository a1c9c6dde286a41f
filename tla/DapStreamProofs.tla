---------------------------- MODULE DapStreamProofs ----------------------------
(***************************************************************************)
(* DapStream for buffers, windows and frames of any size that              *)
(* StreamAssumption allows, and any number of frames.  The invariant (IInv)*)
(* says three things of the stream.  Whatever has gone wrong, the buffer,  *)
(* the history and what is still to come are in the order of writing       *)
(* (InOrder, Proper).  As long as nothing has, the buffer is exactly what  *)
(* was delivered behind the frames that were served (Aligned).  And once   *)
(* something has, the frame whose turn it would be can never be served in  *)
(* turn any more, because a byte of it is lost, or it is malformed, or     *)
(* something else was executed in its place (Frozen): that is what makes   *)
(* the connection an in-order service that stops and never resumes.        *)
(*                                                                         *)
(* The lemmas come in this order: recursive functions unfolded, the places *)
(* of frames on the wire, one round of the loop, the loop, what a callback *)
(* brings, the actions, the properties, the refinement of InOrderRpc.      *)
(***************************************************************************)
EXTENDS DapStream, FiniteSetTheorems, SequenceTheorems, WellFoundedInduction, TLAPS

\* Induction over the naturals, for a property given as the set of what has it.
LEMMA Induction ==
  ASSUME NEW S, 0 \in S, \A n \in Nat : n \in S => n + 1 \in S
  PROVE  Nat \subseteq S
<1> DEFINE T == {n \in Nat : n \notin S}
           Below == {0..n : n \in T}
<1> SUFFICES ASSUME T # {} PROVE FALSE
  OBVIOUS
<1>1. PICK B \in Below : \A C \in Below : ~(<<C, B>> \in StrictSubsetOrdering(Nat))
  <2>1. Below # {}
    OBVIOUS
  <2>2. Below \subseteq FiniteSubsetsOf(Nat)
    <3> SUFFICES ASSUME NEW n \in Nat PROVE 0..n \in FiniteSubsetsOf(Nat)
      OBVIOUS
    <3>1. IsFiniteSet(0..n)  BY FS_Interval
    <3>2. 0..n \in SUBSET Nat  OBVIOUS
    <3> QED BY <3>1, <3>2 DEF FiniteSubsetsOf
  <2> HIDE DEF Below
  <2> QED BY <2>1, <2>2, FS_StrictSubsetOrderingWellFounded, WFMin
<1>2. PICK m \in T : B = 0..m
  OBVIOUS
<1>3. m # 0 /\ m - 1 \in T
  OBVIOUS
<1>4. <<0..m-1, B>> \in StrictSubsetOrdering(Nat)
  BY <1>2, <1>3 DEF StrictSubsetOrdering
<1> QED BY <1>1, <1>3, <1>4

\* The recursive function inside Drain, the states after 0, 1, ... m rounds, exists.
LEMMA LoopUnfolds ==
  ASSUME NEW s, NEW m \in Nat
  PROVE  \E a : a = [k \in 0..m |-> IF k = 0 THEN s ELSE Round(a[k - 1])]
<1> DEFINE S == {n \in Nat : \E a : a = [k \in 0..n |-> IF k = 0 THEN s ELSE Round(a[k - 1])]}
<1>1. 0 \in S
  <2> DEFINE a == [k \in 0..0 |-> s]
  <2>1. a = [k \in 0..0 |-> IF k = 0 THEN s ELSE Round(a[k - 1])]
    OBVIOUS
  <2> QED BY <2>1
<1>2. ASSUME NEW n \in Nat, n \in S PROVE n + 1 \in S
  <2>1. PICK a : a = [k \in 0..n |-> IF k = 0 THEN s ELSE Round(a[k - 1])]
    BY <1>2
  <2> DEFINE b == [k \in 0..n + 1 |-> IF k = n + 1 THEN Round(a[n]) ELSE a[k]]
  <2>2. b = [k \in 0..n + 1 |-> IF k = 0 THEN s ELSE Round(b[k - 1])]
    <3> SUFFICES ASSUME NEW k \in 0..n + 1
                 PROVE  b[k] = IF k = 0 THEN s ELSE Round(b[k - 1])
      OBVIOUS
    <3>1. CASE k = n + 1
      <4>1. b[k - 1] = a[n]  BY <3>1
      <4> QED BY <3>1, <4>1
    <3>2. CASE k \in 0..n
      <4>1. b[k] = a[k] /\ (k # 0 => b[k - 1] = a[k - 1])  BY <3>2
      <4>2. a[k] = IF k = 0 THEN s ELSE Round(a[k - 1])  BY <2>1, <3>2
      <4> QED BY <4>1, <4>2
    <3> QED BY <3>1, <3>2
  <2> HIDE DEF b
  <2> QED BY <2>2
<1> HIDE DEF S
<1>3. m \in S
  BY <1>1, <1>2, Induction
<1> QED BY <1>3 DEF S

\* Drain runs one round after the other, as many as the buffer has bytes.
LEMMA DrainUnfolds ==
  ASSUME NEW s, Len(s.buf) \in Nat
  PROVE  \E a : /\ a[0] = s
                /\ \A k \in 1..Len(s.buf) : a[k] = Round(a[k - 1])
                /\ Drain(s) = a[Len(s.buf)]
<1> DEFINE m == Len(s.buf)
           after[k \in 0..m] == IF k = 0 THEN s ELSE Round(after[k - 1])
<1>1. after = [k \in 0..m |-> IF k = 0 THEN s ELSE Round(after[k - 1])]
  BY LoopUnfolds
<1>2. Drain(s) = after[m]
  BY DEF Drain
<1>3. /\ after[0] = s
      /\ \A k \in 1..m : after[k] = Round(after[k - 1])
  <2> HIDE DEF after
  <2> QED BY <1>1
<1> HIDE DEF after
<1> QED BY <1>2, <1>3


-------------------------------------------------------------------------------
\* The recursive function inside FlattenSeq exists.
LEMMA FlattenUnfolds ==
  ASSUME NEW s, NEW m \in Nat
  PROVE  \E a : a = [i \in 1..m |-> IF i = 1 THEN s[i] ELSE a[i - 1] \o s[i]]
<1> DEFINE S == {n \in Nat : \E a : a = [i \in 1..n |-> IF i = 1 THEN s[i] ELSE a[i - 1] \o s[i]]}
<1>1. 0 \in S
  <2> DEFINE a == [i \in 1..0 |-> s[i]]
  <2>1. a = [i \in 1..0 |-> IF i = 1 THEN s[i] ELSE a[i - 1] \o s[i]]
    OBVIOUS
  <2> HIDE DEF a
  <2> QED BY <2>1
<1>2. ASSUME NEW n \in Nat, n \in S PROVE n + 1 \in S
  <2>1. PICK a : a = [i \in 1..n |-> IF i = 1 THEN s[i] ELSE a[i - 1] \o s[i]]
    BY <1>2
  <2> DEFINE b == [i \in 1..n + 1 |-> IF i = 1 THEN s[1]
                                      ELSE IF i = n + 1 THEN a[n] \o s[n + 1] ELSE a[i]]
  <2>2. b = [i \in 1..n + 1 |-> IF i = 1 THEN s[i] ELSE b[i - 1] \o s[i]]
    <3> SUFFICES ASSUME NEW i \in 1..n + 1
                 PROVE  b[i] = IF i = 1 THEN s[i] ELSE b[i - 1] \o s[i]
      OBVIOUS
    <3>1. \A j \in 1..n : a[j] = IF j = 1 THEN s[j] ELSE a[j - 1] \o s[j]
      BY <2>1
    <3>2. \A j \in 1..n : b[j] = a[j]
      BY <3>1
    <3> QED BY <3>1, <3>2
  <2> HIDE DEF b
  <2>3. \E c : c = [i \in 1..n + 1 |-> IF i = 1 THEN s[i] ELSE c[i - 1] \o s[i]]
    BY <2>2, Zenon
  <2>4. n + 1 \in Nat
    OBVIOUS
  <2> QED BY <2>3, <2>4, Zenon
<1> HIDE DEF S
<1>3. m \in S
  BY <1>1, <1>2, Induction
<1> QED BY <1>3 DEF S

\* FlattenSeq appends the sequences one by one.
LEMMA FlattenIs ==
  ASSUME NEW X, NEW s \in Seq(Seq(X)), Len(s) > 0
  PROVE  \E a \in [1..Len(s) -> Seq(X)] :
           /\ a[1] = s[1]
           /\ \A i \in Nat : i + 2 \in 1..Len(s) => a[i + 2] = a[i + 1] \o s[i + 2]
           /\ FlattenSeq(s) = a[Len(s)]
<1> DEFINE m == Len(s)
           flatten[i \in 1..m] == IF i = 1 THEN s[i] ELSE flatten[i - 1] \o s[i]
<1>m. m \in Nat
  OBVIOUS
<1>1. flatten = [i \in 1..m |-> IF i = 1 THEN s[i] ELSE flatten[i - 1] \o s[i]]
  <2> HIDE DEF m
  <2>1. \E a : a = [i \in 1..m |-> IF i = 1 THEN s[i] ELSE a[i - 1] \o s[i]]
    BY <1>m, FlattenUnfolds
  <2> QED BY <2>1, Zenon
<1>2. FlattenSeq(s) = flatten[m]
  BY DEF FlattenSeq
<1> HIDE DEF flatten, m
<1>3. flatten[1] = s[1]
  <2>1. 1 \in 1..m
    BY <1>m DEF m
  <2> QED BY <2>1, <1>1
<1>4. \A i \in Nat : i + 2 \in 1..m => flatten[i + 2] = flatten[i + 1] \o s[i + 2]
  <2> SUFFICES ASSUME NEW i \in Nat, i + 2 \in 1..m
               PROVE  flatten[i + 2] = flatten[i + 1] \o s[i + 2]
    OBVIOUS
  <2>1. flatten[i + 2] = IF i + 2 = 1 THEN s[i + 2] ELSE flatten[(i + 2) - 1] \o s[i + 2]
    BY <1>1
  <2>2. i + 2 # 1 /\ (i + 2) - 1 = i + 1
    OBVIOUS
  <2> QED BY <2>1, <2>2
<1>5. \A i \in 1..m : s[i] \in Seq(X)
  BY DEF m
<1>6. \A i \in Nat : i + 1 \in 1..m => flatten[i + 1] \in Seq(X)
  <2> DEFINE S == {i \in Nat : i + 1 \in 1..m => flatten[i + 1] \in Seq(X)}
  <2>1. 0 \in S
    BY <1>3, <1>5
  <2>2. ASSUME NEW i \in Nat, i \in S PROVE i + 1 \in S
    <3> SUFFICES ASSUME i + 2 \in 1..m PROVE flatten[i + 2] \in Seq(X)
      OBVIOUS
    <3>1. flatten[i + 1] \in Seq(X) /\ s[i + 2] \in Seq(X)
      BY <1>m, <1>5, <2>2
    <3>2. flatten[i + 1] \o s[i + 2] \in Seq(X)
      BY <3>1, ConcatProperties
    <3> QED BY <3>2, <1>4
  <2> HIDE DEF S
  <2>3. Nat \subseteq S
    BY <2>1, <2>2, Induction
  <2> QED BY <2>3 DEF S
<1>7. \A i \in 1..m : flatten[i] \in Seq(X)
  <2> SUFFICES ASSUME NEW i \in 1..m PROVE flatten[i] \in Seq(X)
    OBVIOUS
  <2>1. i - 1 \in Nat /\ (i - 1) + 1 = i
    OBVIOUS
  <2> QED BY <2>1, <1>6
<1>8. flatten \in [1..m -> Seq(X)]
  BY <1>1, <1>7
<1> QED BY <1>m, <1>2, <1>3, <1>4, <1>8 DEF m

\* FlattenSeq of one sequence more appends that one.
LEMMA FlattenLonger ==
  ASSUME NEW X, NEW s \in Seq(Seq(X)), NEW t \in Seq(Seq(X)),
         Len(t) = Len(s) + 1,
         \A i \in 1..Len(s) : t[i] = s[i]
  PROVE  /\ FlattenSeq(s) \in Seq(X)
         /\ FlattenSeq(t) = FlattenSeq(s) \o t[Len(t)]
<1>0. Len(s) \in Nat /\ Len(t) > 0
  OBVIOUS
<1>1. PICK b \in [1..Len(t) -> Seq(X)] :
           /\ b[1] = t[1]
           /\ \A i \in Nat : i + 2 \in 1..Len(t) => b[i + 2] = b[i + 1] \o t[i + 2]
           /\ FlattenSeq(t) = b[Len(t)]
  BY <1>0, FlattenIs
<1>2. CASE Len(s) = 0
  <2>1. FlattenSeq(s) = <<>>
    BY <1>2 DEF FlattenSeq
  <2>2. FlattenSeq(t) = t[1] /\ t[1] \in Seq(X)
    BY <1>1, <1>2
  <2> QED BY <2>1, <2>2, <1>2
<1>3. CASE Len(s) # 0
  <2>1. PICK a \in [1..Len(s) -> Seq(X)] :
           /\ a[1] = s[1]
           /\ \A i \in Nat : i + 2 \in 1..Len(s) => a[i + 2] = a[i + 1] \o s[i + 2]
           /\ FlattenSeq(s) = a[Len(s)]
    <3>1. Len(s) > 0
      BY <1>0, <1>3
    <3> QED BY <3>1, FlattenIs
  <2> DEFINE S == {i \in Nat : i + 1 \in 1..Len(s) => a[i + 1] = b[i + 1]}
  <2>2. 0 \in S
    BY <1>1, <2>1
  <2>3. ASSUME NEW i \in Nat, i \in S PROVE i + 1 \in S
    <3> SUFFICES ASSUME i + 2 \in 1..Len(s) PROVE a[i + 2] = b[i + 2]
      OBVIOUS
    <3>1. a[i + 1] = b[i + 1]
      BY <1>0, <2>3
    <3>2. i + 2 \in 1..Len(t) /\ t[i + 2] = s[i + 2]
      BY <1>0
    <3> QED BY <3>1, <3>2, <1>1, <2>1
  <2> HIDE DEF S
  <2>4. Nat \subseteq S
    BY <2>2, <2>3, Induction
  <2>5. a[Len(s)] = b[Len(s)]
    <3>1. Len(s) - 1 \in Nat /\ (Len(s) - 1) + 1 = Len(s)
      BY <1>0, <1>3
    <3>2. Len(s) - 1 \in S
      BY <3>1, <2>4
    <3> QED BY <3>1, <3>2, <1>0, <1>3 DEF S
  <2>6. b[Len(t)] = b[Len(s)] \o t[Len(t)]
    <3>1. Len(s) - 1 \in Nat /\ (Len(s) - 1) + 1 = Len(s) /\ (Len(s) - 1) + 2 = Len(t)
      BY <1>0, <1>3
    <3>2. (Len(s) - 1) + 2 \in 1..Len(t)
      BY <3>1
    <3> QED BY <1>1, <3>1, <3>2
  <2>7. FlattenSeq(s) \in Seq(X)
    <3>1. Len(s) \in 1..Len(s)
      BY <1>0, <1>3
    <3> QED BY <3>1, <2>1
  <2> QED BY <2>5, <2>6, <2>7, <2>1, <1>1
<1> QED BY <1>2, <1>3, <1>0

-------------------------------------------------------------------------------
\* The wire, its pieces and the places of frames in it, for any list of frames fs.
FrameBytes(fs, n) == [k \in 1..Hdr + fs[n].len |-> <<n, k>>]
FirstParts(fs, n) == [i \in 1..n |-> FrameBytes(fs, i)]
EndOf(fs, n) == Len(FlattenSeq(FirstParts(fs, n)))
WireOf(fs) == FlattenSeq(FirstParts(fs, Len(fs)))
Byte == Nat \X Nat

\* What DapStream calls Wire and Ends are those of the frames written so far.
LEMMA WireIsWireOf ==
  /\ Wire = WireOf(frames)
  /\ \A n : Ends(n) = EndOf(frames, n)
  /\ Wire' = WireOf(frames')
  /\ \A n : Ends(n)' = EndOf(frames', n)
BY DEF Wire, WireOf, Bytes, FrameBytes, FirstParts, Ends, EndOf

\* Every frame has a length, and takes at least its header on the wire.
LEMMA LenIsNat ==
  ASSUME NEW fs \in Seq(Frame)
  PROVE  /\ Len(fs) \in Nat
         /\ \A n \in 1..Len(fs) : fs[n].len \in Nat /\ Hdr + fs[n].len \in Nat \ {0}
<1>1. \A f \in Frame : f.len \in Nat
  <2>1. \A f \in Frame : [len |-> f.len, head |-> f.head] \in Header
    BY StreamAssumption
  <2> QED BY <2>1 DEF Header
<1>2. Hdr \in Nat \ {0}
  BY StreamAssumption
<1>3. Len(fs) \in Nat /\ \A n \in 1..Len(fs) : fs[n] \in Frame
  OBVIOUS
<1>4. ASSUME NEW n \in 1..Len(fs)
      PROVE  fs[n].len \in Nat /\ Hdr + fs[n].len \in Nat \ {0}
  <2> DEFINE l == fs[n].len
  <2>1. l \in Nat
    BY <1>1, <1>3
  <2> HIDE DEF l
  <2>2. Hdr + l \in Nat \ {0}
    BY <2>1, <1>2
  <2> QED BY <2>1, <2>2 DEF l
<1> QED BY <1>3, <1>4

\* The frames' bytes, as the list of sequences FlattenSeq is given.
LEMMA PartsTyped ==
  ASSUME NEW fs \in Seq(Frame), NEW n \in 0..Len(fs)
  PROVE  /\ FirstParts(fs, n) \in Seq(Seq(Byte))
         /\ Len(FirstParts(fs, n)) = n
         /\ \A i \in 1..n : FirstParts(fs, n)[i] = FrameBytes(fs, i)
<1>1. n \in Nat
  BY LenIsNat
<1>2. ASSUME NEW i \in 1..n PROVE FrameBytes(fs, i) \in Seq(Byte)
  <2>1. i \in 1..Len(fs) /\ i \in Nat
    BY LenIsNat
  <2>2. Hdr + fs[i].len \in Nat
    BY <2>1, LenIsNat
  <2>3. \A k \in 1..Hdr + fs[i].len : <<i, k>> \in Byte
    BY <2>1, <2>2 DEF Byte
  <2> DEFINE m == Hdr + fs[i].len
  <2>4. [k \in 1..m |-> <<i, k>>] \in [1..m -> Byte]
    BY <2>3
  <2> HIDE DEF m
  <2>5. m \in Nat
    BY <2>2 DEF m
  <2>6. [k \in 1..m |-> <<i, k>>] \in Seq(Byte)
    BY <2>4, <2>5, SeqDef
  <2> QED BY <2>6 DEF m, FrameBytes
<1> QED BY <1>1, <1>2 DEF FirstParts

\* A frame ends where the one before it does, and its own bytes later.
LEMMA EndsAdd ==
  ASSUME NEW fs \in Seq(Frame)
  PROVE  /\ EndOf(fs, 0) = 0
         /\ EndOf(fs, Len(fs)) = Len(WireOf(fs))
         /\ WireOf(fs) \in Seq(Byte)
         /\ \A n \in 0..Len(fs) : EndOf(fs, n) \in Nat
         /\ \A n \in Nat : n + 1 \in 1..Len(fs) =>
              /\ EndOf(fs, n + 1) = EndOf(fs, n) + Hdr + fs[n + 1].len
              /\ FlattenSeq(FirstParts(fs, n)) \in Seq(Byte)
              /\ FlattenSeq(FirstParts(fs, n + 1))
                   = FlattenSeq(FirstParts(fs, n)) \o FrameBytes(fs, n + 1)
<1>0. Len(fs) \in Nat
  BY LenIsNat
<1>1. EndOf(fs, 0) = 0 /\ FlattenSeq(FirstParts(fs, 0)) = <<>>
  <2>1. FirstParts(fs, 0) = <<>> /\ Len(FirstParts(fs, 0)) = 0
    BY <1>0, PartsTyped DEF FirstParts
  <2> QED BY <2>1 DEF FlattenSeq, EndOf
<1>2. ASSUME NEW n \in Nat, n + 1 \in 1..Len(fs)
      PROVE  /\ EndOf(fs, n + 1) = EndOf(fs, n) + Hdr + fs[n + 1].len
             /\ EndOf(fs, n + 1) \in Nat
             /\ FlattenSeq(FirstParts(fs, n)) \in Seq(Byte)
             /\ FlattenSeq(FirstParts(fs, n + 1)) \in Seq(Byte)
             /\ FlattenSeq(FirstParts(fs, n + 1))
                  = FlattenSeq(FirstParts(fs, n)) \o FrameBytes(fs, n + 1)
  <2> DEFINE s == FirstParts(fs, n)
             t == FirstParts(fs, n + 1)
             b == FrameBytes(fs, n + 1)
  <2>1. n \in 0..Len(fs) /\ n + 1 \in 0..Len(fs)
    BY <1>0, <1>2
  <2>2. /\ s \in Seq(Seq(Byte)) /\ Len(s) = n
        /\ t \in Seq(Seq(Byte)) /\ Len(t) = n + 1
        /\ \A i \in 1..n : t[i] = s[i]
        /\ t[n + 1] = b
    BY <2>1, PartsTyped
  <2>3. b \in Seq(Byte) /\ Len(b) = Hdr + fs[n + 1].len
    <3>1. t[n + 1] \in Seq(Byte)
      BY <2>2
    <3>2. Hdr + fs[n + 1].len \in Nat
      BY <1>2, LenIsNat
    <3> QED BY <3>1, <3>2, <2>2 DEF FrameBytes
  <2> HIDE DEF s, t, b
  <2>4. FlattenSeq(s) \in Seq(Byte) /\ FlattenSeq(t) = FlattenSeq(s) \o b
    BY <2>2, FlattenLonger
  <2>5. /\ FlattenSeq(t) \in Seq(Byte)
        /\ Len(FlattenSeq(t)) = Len(FlattenSeq(s)) + Len(b)
    BY <2>3, <2>4, ConcatProperties
  <2>6. Len(FlattenSeq(s)) + Len(b) = Len(FlattenSeq(s)) + Hdr + fs[n + 1].len
    <3>1. Len(FlattenSeq(s)) \in Nat /\ fs[n + 1].len \in Nat /\ Hdr \in Nat
      BY <1>2, <2>4, LenIsNat, StreamAssumption
    <3> QED BY <3>1, <2>3
  <2>7. Len(FlattenSeq(t)) \in Nat
    BY <2>5
  <2> QED BY <2>4, <2>5, <2>6, <2>7 DEF EndOf, s, t, b
<1>3. ASSUME NEW n \in 0..Len(fs)
      PROVE  EndOf(fs, n) \in Nat /\ FlattenSeq(FirstParts(fs, n)) \in Seq(Byte)
  <2>1. CASE n = 0
    <3>1. <<>> \in Seq(Byte) /\ 0 \in Nat
      OBVIOUS
    <3> QED BY <3>1, <2>1, <1>1
  <2>2. CASE n # 0
    <3>1. n - 1 \in Nat /\ (n - 1) + 1 = n /\ n \in 1..Len(fs)
      BY <1>0, <2>2
    <3> QED BY <3>1, <1>2
  <2> QED BY <2>1, <2>2
<1>4. EndOf(fs, Len(fs)) = Len(WireOf(fs))
  BY DEF EndOf, WireOf
<1>5. WireOf(fs) \in Seq(Byte)
  <2>1. Len(fs) \in 0..Len(fs)
    BY <1>0
  <2> QED BY <2>1, <1>3 DEF WireOf
<1> QED BY <1>1, <1>2, <1>3, <1>4, <1>5

\* w are the first n frames, each from where the last one ends, and nothing else.
LaidOut(fs, w, n) ==
  /\ \A i \in 1..n : \A k \in 1..Hdr + fs[i].len :
       EndOf(fs, i - 1) + k \in 1..EndOf(fs, n) /\ w[EndOf(fs, i - 1) + k] = <<i, k>>
  /\ \A p \in 1..EndOf(fs, n) :
       \E i \in 1..n : \E k \in 1..Hdr + fs[i].len : p = EndOf(fs, i - 1) + k
  /\ \A i \in 0..n : EndOf(fs, i) <= EndOf(fs, n)

\* The wire is laid out so.
LEMMA LaidOutInOrder ==
  ASSUME NEW fs \in Seq(Frame), NEW n \in 0..Len(fs)
  PROVE  LaidOut(fs, FlattenSeq(FirstParts(fs, n)), n)
<1> DEFINE F(i) == FlattenSeq(FirstParts(fs, i))
           S == {i \in Nat : i <= Len(fs) => LaidOut(fs, F(i), i)}
<1>1. 0 \in S
  <2>1. EndOf(fs, 0) = 0
    BY EndsAdd
  <2> QED BY <2>1 DEF LaidOut
<1>2. ASSUME NEW i \in Nat, i \in S PROVE i + 1 \in S
  <2> SUFFICES ASSUME i + 1 <= Len(fs) PROVE LaidOut(fs, F(i + 1), i + 1)
    OBVIOUS
  <2> DEFINE w == F(i)
             v == F(i + 1)
             e == EndOf(fs, i)
             l == Hdr + fs[i + 1].len
  <2>1. i \in 0..Len(fs) /\ i + 1 \in 1..Len(fs)
    BY LenIsNat
  <2>2. LaidOut(fs, w, i)
    BY <1>2, <2>1
  <2>3. l \in Nat /\ e \in Nat
    BY <2>1, LenIsNat, EndsAdd
  <2>4. EndOf(fs, i + 1) = e + l /\ w \in Seq(Byte) /\ v = w \o FrameBytes(fs, i + 1)
    <3>1. EndOf(fs, i + 1) = e + Hdr + fs[i + 1].len
      BY <2>1, EndsAdd
    <3>2. e + Hdr + fs[i + 1].len = e + l
      <4>1. fs[i + 1].len \in Nat /\ Hdr \in Nat
        BY <2>1, LenIsNat, StreamAssumption
      <4> HIDE DEF e
      <4> QED BY <4>1, <2>3
    <3> QED BY <3>1, <3>2, <2>1, EndsAdd
  <2>5. Len(w) = e
    BY DEF EndOf
  <2>6. Len(FrameBytes(fs, i + 1)) = l /\ FrameBytes(fs, i + 1) \in Seq(Byte)
    <3>1. i + 1 \in 0..Len(fs) /\ i + 1 \in 1..i + 1
      BY <2>1
    <3>2. FirstParts(fs, i + 1)[i + 1] \in Seq(Byte)
      BY <3>1, PartsTyped
    <3>3. FrameBytes(fs, i + 1) \in Seq(Byte)
      BY <3>1, <3>2, PartsTyped
    <3>4. Len(FrameBytes(fs, i + 1)) = l
      <4> HIDE DEF l
      <4>1. FrameBytes(fs, i + 1) = [k \in 1..l |-> <<i + 1, k>>]
        BY DEF FrameBytes, l
      <4> QED BY <4>1, <2>3
    <3> QED BY <3>3, <3>4
  <2>7. /\ \A p \in 1..e : v[p] = w[p]
        /\ \A k \in 1..l : v[e + k] = <<i + 1, k>>
    <3> HIDE DEF w, v, e, l
    <3>1. \A p \in 1..e : v[p] = w[p]
      BY <2>3, <2>4, <2>5, <2>6, ConcatProperties
    <3>2. \A k \in 1..l : v[e + k] = FrameBytes(fs, i + 1)[k]
      BY <2>3, <2>4, <2>5, <2>6
    <3>3. \A k \in 1..l : FrameBytes(fs, i + 1)[k] = <<i + 1, k>>
      BY DEF FrameBytes, l
    <3> QED BY <3>1, <3>2, <3>3
  <2>8. \A j \in 0..i : EndOf(fs, j) \in Nat
    BY <2>1, EndsAdd
  <2> HIDE DEF F
  <2>e. EndOf(fs, i + 1) = e + l
    BY <2>4
  <2>9. ASSUME NEW j \in 1..i + 1, NEW k \in 1..Hdr + fs[j].len
        PROVE  EndOf(fs, j - 1) + k \in 1..EndOf(fs, i + 1) /\ v[EndOf(fs, j - 1) + k] = <<j, k>>
    <3>1. CASE j = i + 1
      <4>1. j - 1 = i /\ k \in 1..l
        BY <3>1
      <4>2. EndOf(fs, j - 1) = e
        BY <4>1
      <4>3. e + k \in 1..EndOf(fs, i + 1) /\ v[e + k] = <<j, k>>
        <5> HIDE DEF l, v, e
        <5> QED BY <3>1, <4>1, <2>3, <2>e, <2>7
      <4> HIDE DEF v, e
      <4> QED BY <4>2, <4>3
    <3>2. CASE j \in 1..i
      <4>1. EndOf(fs, j - 1) + k \in 1..e /\ w[EndOf(fs, j - 1) + k] = <<j, k>>
        BY <3>2, <2>2 DEF LaidOut
      <4> DEFINE p == EndOf(fs, j - 1) + k
      <4> HIDE DEF l, v, w, e, p
      <4>2. p \in 1..e /\ w[p] = <<j, k>>
        BY <4>1 DEF p
      <4>3. p \in 1..EndOf(fs, i + 1) /\ v[p] = <<j, k>>
        BY <4>2, <2>3, <2>e, <2>7
      <4> QED BY <4>3 DEF p
    <3> QED BY <3>1, <3>2
  <2>10. ASSUME NEW p \in 1..EndOf(fs, i + 1)
         PROVE  \E j \in 1..i + 1 : \E k \in 1..Hdr + fs[j].len : p = EndOf(fs, j - 1) + k
    <3>1. CASE p \in 1..e
      <4>1. PICK j \in 1..i : \E k \in 1..Hdr + fs[j].len : p = EndOf(fs, j - 1) + k
        BY <3>1, <2>2 DEF LaidOut
      <4> QED BY <4>1
    <3>2. CASE p > e
      <4>1. p - e \in 1..l /\ p = e + (p - e) /\ (i + 1) - 1 = i
        <5> HIDE DEF e, l
        <5> QED BY <2>3, <2>4, <3>2
      <4>2. i + 1 \in 1..i + 1
        OBVIOUS
      <4> QED BY <4>1, <4>2
    <3> QED BY <3>1, <3>2, <2>3
  <2>11. \A j \in 0..i + 1 : EndOf(fs, j) <= EndOf(fs, i + 1)
    <3>1. EndOf(fs, i + 1) \in Nat /\ e <= EndOf(fs, i + 1)
      <4> HIDE DEF e, l
      <4> QED BY <2>3, <2>4
    <3>2. \A j \in 0..i : EndOf(fs, j) <= e
      BY <2>2 DEF LaidOut
    <3> QED BY <3>1, <3>2, <2>3, <2>8
  <2> HIDE DEF v
  <2>12. LaidOut(fs, v, i + 1)
    BY <2>9, <2>10, <2>11 DEF LaidOut
  <2> QED BY <2>12 DEF v, F
<1> HIDE DEF S
<1>3. Nat \subseteq S
  BY <1>1, <1>2, Induction
<1>4. n \in Nat /\ n <= Len(fs)
  BY LenIsNat
<1> QED BY <1>3, <1>4 DEF S

-------------------------------------------------------------------------------
\* The bytes frame n takes on the wire.
Size(n) == Hdr + frames[n].len

\* The order in which bytes were written.
Before(a, b) == a[1] < b[1] \/ (a[1] = b[1] /\ a[2] < b[2])

\* The wire is bytes, and ends where the last frame does.
LEMMA WireTyped ==
  ASSUME frames \in Seq(Frame)
  PROVE  /\ Len(frames) \in Nat
         /\ Len(Wire) \in Nat
         /\ Wire \in Seq(Byte)
         /\ Ends(0) = 0
         /\ Ends(Len(frames)) = Len(Wire)
BY WireIsWireOf, EndsAdd, LenIsNat

\* A frame's size is positive and not less than a header's.
LEMMA SizeTyped ==
  ASSUME frames \in Seq(Frame), NEW n \in 1..Len(frames)
  PROVE  Size(n) \in Nat /\ Size(n) > 0 /\ Hdr <= Size(n)
<1>1. frames[n].len \in Nat /\ Hdr \in Nat /\ Hdr > 0
  BY LenIsNat, StreamAssumption
<1> QED BY <1>1 DEF Size

\* Frames end one after the other, none behind the end of the wire.
LEMMA EndsGrow ==
  ASSUME frames \in Seq(Frame)
  PROVE  /\ \A n \in 0..Len(frames) : Ends(n) \in Nat /\ Ends(n) <= Len(Wire)
         /\ \A m, n \in 0..Len(frames) : m <= n => Ends(m) <= Ends(n)
         /\ \A n \in 1..Len(frames) : Ends(n) = Ends(n - 1) + Size(n)
<1>0. Len(frames) \in Nat
  BY WireTyped
<1>1. \A n \in 0..Len(frames) : Ends(n) \in Nat
  BY WireIsWireOf, EndsAdd
<1>2. ASSUME NEW m \in 0..Len(frames), NEW n \in 0..Len(frames), m <= n
      PROVE  Ends(m) <= Ends(n)
  <2>1. m \in 0..n
    BY <1>0, <1>2
  <2> QED BY <2>1, LaidOutInOrder, WireIsWireOf DEF LaidOut
<1>3. ASSUME NEW n \in 0..Len(frames) PROVE Ends(n) <= Len(Wire)
  <2>1. Len(frames) \in 0..Len(frames) /\ n <= Len(frames)
    BY <1>0
  <2> QED BY <2>1, <1>2, WireTyped
<1>4. ASSUME NEW n \in 1..Len(frames) PROVE Ends(n) = Ends(n - 1) + Size(n)
  <2>1. n - 1 \in Nat /\ (n - 1) + 1 = n /\ n - 1 \in 0..Len(frames)
    BY <1>0
  <2>2. Ends(n) = Ends(n - 1) + Hdr + frames[n].len
    BY <2>1, EndsAdd, WireIsWireOf
  <2>3. Ends(n - 1) \in Nat /\ Hdr \in Nat /\ frames[n].len \in Nat
    BY <2>1, <1>1, LenIsNat, StreamAssumption
  <2> QED BY <2>2, <2>3 DEF Size
<1> QED BY <1>1, <1>2, <1>3, <1>4

\* Byte k of frame n lies k behind the end of frame n - 1, and every byte of the wire is
\* of that kind.
LEMMA WireBytes ==
  ASSUME frames \in Seq(Frame)
  PROVE  /\ \A n \in 1..Len(frames) : \A k \in 1..Size(n) :
              Ends(n - 1) + k \in 1..Len(Wire) /\ Wire[Ends(n - 1) + k] = <<n, k>>
         /\ \A p \in 1..Len(Wire) : \E n \in 1..Len(frames) : \E k \in 1..Size(n) :
              p = Ends(n - 1) + k /\ Wire[p] = <<n, k>>
<1>1. Len(frames) \in 0..Len(frames)
  BY WireTyped
<1>2. LaidOut(frames, Wire, Len(frames))
  BY <1>1, LaidOutInOrder, WireIsWireOf DEF WireOf
<1>3. ASSUME NEW n \in 1..Len(frames), NEW k \in 1..Size(n)
      PROVE  Ends(n - 1) + k \in 1..Len(Wire) /\ Wire[Ends(n - 1) + k] = <<n, k>>
  BY <1>2, WireIsWireOf, WireTyped DEF LaidOut, Size
<1>4. ASSUME NEW p \in 1..Len(Wire)
      PROVE  \E n \in 1..Len(frames) : \E k \in 1..Size(n) :
               p = Ends(n - 1) + k /\ Wire[p] = <<n, k>>
  <2>1. PICK n \in 1..Len(frames) : \E k \in 1..Hdr + frames[n].len : p = Ends(n - 1) + k
    BY <1>2, WireIsWireOf, WireTyped DEF LaidOut
  <2>2. PICK k \in 1..Size(n) : p = Ends(n - 1) + k
    BY <2>1 DEF Size
  <2> QED BY <2>2, <1>3
<1> QED BY <1>3, <1>4

\* What lies further on the wire was written later.
LEMMA WireOrdered ==
  ASSUME frames \in Seq(Frame), NEW p \in 1..Len(Wire), NEW q \in 1..Len(Wire), p < q
  PROVE  Before(Wire[p], Wire[q])
<1>n. PICK n \in 1..Len(frames) :
        \E k \in 1..Size(n) : p = Ends(n - 1) + k /\ Wire[p] = <<n, k>>
  BY WireBytes
<1>1. PICK k \in 1..Size(n) : p = Ends(n - 1) + k /\ Wire[p] = <<n, k>>
  BY <1>n
<1>m. PICK m \in 1..Len(frames) :
        \E j \in 1..Size(m) : q = Ends(m - 1) + j /\ Wire[q] = <<m, j>>
  BY WireBytes
<1>2. PICK j \in 1..Size(m) : q = Ends(m - 1) + j /\ Wire[q] = <<m, j>>
  BY <1>m
<1>3. Len(frames) \in Nat /\ Size(n) \in Nat /\ Size(m) \in Nat
  BY WireTyped, SizeTyped
<1>4. CASE m < n
  <2>1. m \in 0..Len(frames) /\ n - 1 \in 0..Len(frames) /\ m <= n - 1
    BY <1>3, <1>4
  <2>2. Ends(m) <= Ends(n - 1) /\ Ends(m) = Ends(m - 1) + Size(m)
    BY <2>1, EndsGrow
  <2>3. Ends(m - 1) \in Nat /\ Ends(n - 1) \in Nat
    BY <2>1, <1>3, EndsGrow
  <2>4. q <= Ends(m)
    BY <2>2, <2>3, <1>2, <1>3
  <2>5. Ends(n - 1) < p
    BY <2>3, <1>1, <1>3
  <2>6. p \in Nat /\ q \in Nat /\ Ends(m) \in Nat
    BY <2>1, EndsGrow, WireTyped
  <2> QED BY <2>2, <2>3, <2>4, <2>5, <2>6
<1>5. CASE m = n
  <2>1. Ends(n - 1) \in Nat
    BY <1>3, EndsGrow
  <2>2. k < j
    BY <2>1, <1>1, <1>2, <1>3, <1>5
  <2> QED BY <2>2, <1>1, <1>2, <1>5 DEF Before
<1>6. CASE n < m
  BY <1>1, <1>2, <1>6 DEF Before
<1> QED BY <1>3, <1>4, <1>5, <1>6

\* One more frame leaves the wire as it was and adds the frame's bytes behind it.
LEMMA WireGrows ==
  ASSUME frames \in Seq(Frame), NEW f \in Frame, frames' = Append(frames, f)
  PROVE  /\ frames' \in Seq(Frame)
         /\ Len(frames') = Len(frames) + 1
         /\ \A n \in 1..Len(frames) : frames'[n] = frames[n] /\ Size(n)' = Size(n)
         /\ \A n \in 0..Len(frames) : Ends(n)' = Ends(n)
         /\ Len(Wire') \in Nat
         /\ Len(Wire) <= Len(Wire')
         /\ \A p \in 1..Len(Wire) : Wire'[p] = Wire[p]
         /\ \A p \in Len(Wire) + 1..Len(Wire') : Wire'[p][1] = Len(frames) + 1
<1> DEFINE N == Len(frames)
<1>1. /\ N \in Nat
      /\ frames' \in Seq(Frame)
      /\ Len(frames') = N + 1
      /\ \A n \in 1..N : frames'[n] = frames[n]
  OBVIOUS
<1>2. \A n \in 0..N : FirstParts(frames', n) = FirstParts(frames, n)
  BY <1>1 DEF FirstParts, FrameBytes
<1>3. \A n \in 0..N : Ends(n)' = Ends(n)
  BY <1>2, WireIsWireOf DEF EndOf
<1>4. FlattenSeq(FirstParts(frames', N)) = Wire
  <2>1. N \in 0..N
    BY <1>1
  <2> QED BY <2>1, <1>2, WireIsWireOf DEF WireOf
<1>5. Wire' = Wire \o FrameBytes(frames', N + 1)
  <2>1. N + 1 \in 1..Len(frames')
    BY <1>1
  <2>2. FlattenSeq(FirstParts(frames', N + 1)) = Wire \o FrameBytes(frames', N + 1)
    BY <1>1, <1>4, <2>1, EndsAdd
  <2>3. Wire' = FlattenSeq(FirstParts(frames', N + 1))
    BY <1>1, WireIsWireOf DEF WireOf
  <2> QED BY <2>2, <2>3
<1>6. FrameBytes(frames', N + 1) \in Seq(Byte)
  <2>1. N + 1 \in 0..Len(frames') /\ N + 1 \in 1..N + 1
    BY <1>1
  <2> HIDE DEF N
  <2>2. FirstParts(frames', N + 1)[N + 1] \in Seq(Byte)
    <3>1. /\ FirstParts(frames', N + 1) \in Seq(Seq(Byte))
          /\ Len(FirstParts(frames', N + 1)) = N + 1
      BY <2>1, <1>1, PartsTyped
    <3> QED BY <2>1, <3>1
  <2> QED BY <2>1, <2>2, <1>1, PartsTyped
<1>7. \A k \in 1..Len(FrameBytes(frames', N + 1)) :
        FrameBytes(frames', N + 1)[k] = <<N + 1, k>>
  <2> DEFINE m == Hdr + frames'[N + 1].len
  <2>1. m \in Nat
    <3>1. N + 1 \in 1..Len(frames')
      BY <1>1
    <3> QED BY <3>1, <1>1, LenIsNat
  <2> HIDE DEF m
  <2>2. FrameBytes(frames', N + 1) = [k \in 1..m |-> <<N + 1, k>>]
    BY DEF FrameBytes, m
  <2> QED BY <2>1, <2>2
<1> HIDE DEF N
<1>8. Wire \in Seq(Byte)
  BY WireTyped
<1>9. /\ Len(Wire') \in Nat
      /\ Len(Wire) <= Len(Wire')
      /\ \A p \in 1..Len(Wire) : Wire'[p] = Wire[p]
      /\ \A p \in Len(Wire) + 1..Len(Wire') : Wire'[p][1] = N + 1
  <2> DEFINE b == FrameBytes(frames', N + 1)
  <2> HIDE DEF b
  <2>1. b \in Seq(Byte) /\ Wire' = Wire \o b /\ \A k \in 1..Len(b) : b[k] = <<N + 1, k>>
    BY <1>5, <1>6, <1>7 DEF b
  <2>2. Len(Wire') = Len(Wire) + Len(b) /\ Len(Wire) \in Nat /\ Len(b) \in Nat
    BY <1>8, <2>1
  <2>3. \A p \in 1..Len(Wire) : Wire'[p] = Wire[p]
    BY <1>8, <2>1, <2>2
  <2>4. \A p \in Len(Wire) + 1..Len(Wire') : Wire'[p][1] = N + 1
    <3> SUFFICES ASSUME NEW p \in Len(Wire) + 1..Len(Wire') PROVE Wire'[p][1] = N + 1
      OBVIOUS
    <3>1. Wire'[p] = b[p - Len(Wire)] /\ p - Len(Wire) \in 1..Len(b)
      BY <1>8, <2>1, <2>2
    <3> QED BY <3>1, <2>1
  <2> QED BY <2>2, <2>3, <2>4
<1>10. \A n \in 1..N : Size(n)' = Size(n)
  BY <1>1 DEF Size, N
<1> QED BY <1>1, <1>3, <1>9, <1>10 DEF N

-------------------------------------------------------------------------------
\* The loop has ended: the connection is closed, or no whole frame is left.
Stuck(s) == s.end \in Closed \/ Parse(s.buf) = 0

\* A round of a loop that has ended does nothing.
LEMMA StuckStays ==
  ASSUME NEW s, Stuck(s)
  PROVE  Round(s) = s
BY DEF Stuck, Round

\* The rule for the loop: a set of states that rounds do not leave, and in which a round
\* shortens the buffer or the loop has ended, holds Drain's result, where the loop has
\* ended.
LEMMA DrainReaches ==
  ASSUME NEW T, NEW s \in T,
         \A t \in T : /\ Len(t.buf) \in Nat
                      /\ Round(t) \in T
                      /\ Stuck(t) \/ Len(Round(t).buf) < Len(t.buf)
  PROVE  Drain(s) \in T /\ Stuck(Drain(s))
<1> DEFINE m == Len(s.buf)
<1>0. m \in Nat
  OBVIOUS
<1>1. PICK a : /\ a[0] = s
               /\ \A k \in 1..m : a[k] = Round(a[k - 1])
               /\ Drain(s) = a[m]
  BY <1>0, DrainUnfolds
<1> DEFINE S == {k \in Nat : k <= m => a[k] \in T /\ (Stuck(a[k]) \/ Len(a[k].buf) <= m - k)}
<1> HIDE DEF m
<1>2. 0 \in S
  BY <1>0, <1>1 DEF m
<1>3. ASSUME NEW k \in Nat, k \in S PROVE k + 1 \in S
  <2> SUFFICES ASSUME k + 1 <= m
               PROVE  a[k + 1] \in T /\ (Stuck(a[k + 1]) \/ Len(a[k + 1].buf) <= m - (k + 1))
    OBVIOUS
  <2>1. k <= m /\ k + 1 \in 1..m /\ (k + 1) - 1 = k
    BY <1>0
  <2>2. a[k] \in T /\ (Stuck(a[k]) \/ Len(a[k].buf) <= m - k)
    BY <1>3, <2>1
  <2>3. a[k + 1] = Round(a[k])
    BY <1>1, <2>1
  <2>4. a[k + 1] \in T /\ Len(a[k + 1].buf) \in Nat /\ Len(a[k].buf) \in Nat
    BY <2>2, <2>3
  <2>5. CASE Stuck(a[k])
    BY <2>3, <2>4, <2>5, StuckStays
  <2>6. CASE ~Stuck(a[k])
    <3>1. Len(a[k + 1].buf) < Len(a[k].buf) /\ Len(a[k].buf) <= m - k
      BY <2>2, <2>3, <2>6
    <3>2. Len(a[k + 1].buf) <= m - (k + 1)
      BY <1>0, <2>4, <3>1
    <3> QED BY <2>4, <3>2
  <2> QED BY <2>5, <2>6
<1> HIDE DEF S
<1>4. m \in S
  BY <1>0, <1>2, <1>3, Induction
<1>5. a[m] \in T /\ (Stuck(a[m]) \/ Len(a[m].buf) <= 0)
  BY <1>0, <1>4 DEF S
<1>6. CASE Len(a[m].buf) <= 0
  <2>1. Hdr \in Nat /\ Hdr > 0 /\ Len(a[m].buf) \in Nat
    BY <1>5, StreamAssumption
  <2>2. Parse(a[m].buf) = 0
    BY <2>1, <1>6 DEF Parse
  <2> QED BY <1>1, <1>5, <2>2 DEF Stuck
<1> QED BY <1>1, <1>5, <1>6

\* A byte of the wire names a frame that was written and a place in it.
LEMMA WireByteTyped ==
  ASSUME frames \in Seq(Frame), NEW b \in ToSet(Wire)
  PROVE  /\ b \in Byte
         /\ b = <<b[1], b[2]>>
         /\ b[1] \in 1..Len(frames)
         /\ b[2] \in 1..Size(b[1])
         /\ \E p \in 1..Len(Wire) : b = Wire[p]
<1>1. PICK p \in 1..Len(Wire) : b = Wire[p]
  BY WireTyped DEF ToSet
<1>2. PICK n \in 1..Len(frames) : \E k \in 1..Size(n) : p = Ends(n - 1) + k /\ Wire[p] = <<n, k>>
  BY WireBytes
<1>3. PICK k \in 1..Size(n) : Wire[p] = <<n, k>>
  BY <1>2
<1>4. n \in Nat /\ k \in Nat
  BY SizeTyped, WireTyped
<1> QED BY <1>1, <1>3, <1>4 DEF Byte

\* What a buffer can hold.
Buffers == Seq(ToSet(Wire))

\* What goes wrong on a connection that goes on.
Trouble == {"truncated", "discarded", "lost", "hole"}

\* The states of the loop.
LoopStates(fits) ==
  [buf : Buffers, done : Seq(0..Len(frames)), sent : Seq(0..Len(frames)), fits : {fits},
   end : {"open", "header", "send"} \cup Trouble]

\* How many bytes a buffer's first header asks for, itself included.
Taken(buf) == Hdr + HeaderAt(buf).len

\* What is read where a buffer starts is a header, whole or not.
LEMMA HeaderTyped ==
  ASSUME frames \in Seq(Frame), NEW buf \in Buffers, 0 < Len(buf)
  PROVE  /\ buf[1][1] \in 1..Len(frames)
         /\ HeaderAt(buf).len \in Nat
         /\ Taken(buf) \in Nat /\ Taken(buf) > 0 /\ Hdr <= Taken(buf)
<1> DEFINE n == buf[1][1]
           k == buf[1][2]
<1>1. n \in 1..Len(frames) /\ k \in 1..Hdr + frames[n].len
  <2>1. buf[1] \in ToSet(Wire)
    BY DEF Buffers
  <2> QED BY <2>1, WireByteTyped DEF Size
<1>2. frames[n] \in Frame
  BY <1>1
<1>3. /\ [len |-> frames[n].len, head |-> frames[n].head] \in Header
      /\ frames[n].torn[k] \in Header
  <2> HIDE DEF n, k
  <2> QED BY <1>1, <1>2, StreamAssumption
<1>4. HeaderAt(buf) \in Header
  BY <1>3 DEF HeaderAt
<1>5. HeaderAt(buf).len \in Nat
  BY <1>4 DEF Header
<1> DEFINE l == HeaderAt(buf).len
<1> HIDE DEF n, k, l
<1>6. Hdr + l \in Nat /\ Hdr + l > 0 /\ Hdr <= Hdr + l
  BY <1>5, StreamAssumption DEF l
<1> QED BY <1>1, <1>5, <1>6 DEF Taken, l, n

\* A buffer that starts with the first bytes of frame n starts like that frame.
LEMMA SamePrefix ==
  ASSUME frames \in Seq(Frame), NEW buf \in Buffers, NEW n \in 1..Len(frames),
         NEW j \in Nat, j <= Size(n), j <= Len(buf),
         \A i \in 1..j : buf[i] = <<n, i>>
  PROVE  SubSeq(buf, 1, j) = SubSeq(Bytes(n), 1, j)
<1>1. Size(n) \in Nat /\ buf \in Seq(ToSet(Wire)) /\ Len(buf) \in Nat
  BY SizeTyped DEF Buffers
<1>2. SubSeq(buf, 1, j) = [i \in 1..j |-> buf[i]]
  BY <1>1
<1> DEFINE b == Bytes(n)
           X == {<<n, i>> : i \in 1..Size(n)}
<1>3. b = [i \in 1..Size(n) |-> <<n, i>>]
  BY DEF Bytes, Size
<1>4. b \in [1..Size(n) -> X]
  BY <1>3
<1> HIDE DEF b, X
<1>5. b \in Seq(X) /\ Len(b) = Size(n)
  BY <1>1, <1>4
<1>6. SubSeq(b, 1, j) = [i \in 1..j |-> b[i]]
  BY <1>1, <1>5
<1>7. \A i \in 1..j : b[i] = buf[i]
  <2> SUFFICES ASSUME NEW i \in 1..j PROVE b[i] = buf[i]
    OBVIOUS
  <2>1. i \in 1..Size(n)
    BY <1>1
  <2> QED BY <2>1, <1>3
<1> QED BY <1>2, <1>6, <1>7 DEF b

\* A header that stands there whole is read as what it is.
LEMMA WholeHeader ==
  ASSUME frames \in Seq(Frame), NEW buf \in Buffers, NEW n \in 1..Len(frames),
         Hdr <= Len(buf), \A i \in 1..Hdr : buf[i] = <<n, i>>
  PROVE  /\ HeaderAt(buf).len = frames[n].len
         /\ Taken(buf) = Size(n)
         /\ WellFormed(HeaderAt(buf)) <=> WellFormed(frames[n])
<1>1. Hdr \in Nat /\ Hdr > 0 /\ Hdr <= Size(n)
  BY StreamAssumption, SizeTyped
<1>2. SubSeq(buf, 1, Hdr) = SubSeq(Bytes(n), 1, Hdr)
  BY <1>1, SamePrefix
<1>3. buf[1][1] = n
  <2>1. 1 \in 1..Hdr
    BY <1>1
  <2>2. buf[1] = <<n, 1>>
    BY <2>1
  <2> QED BY <2>2
<1>4. HeaderAt(buf) = [len |-> frames[n].len, head |-> frames[n].head]
  BY <1>2, <1>3 DEF HeaderAt
<1>5. HeaderAt(buf).len = frames[n].len /\ HeaderAt(buf).head = frames[n].head
  BY <1>4
<1> QED BY <1>5 DEF Taken, Size, WellFormed

\* What msgbuf_consume leaves of a buffer.
Left(buf) == SubSeq(buf, Taken(buf) + 1, Len(buf))

\* It is shorter by what the header asked for, and otherwise the same.
LEMMA LeftIs ==
  ASSUME frames \in Seq(Frame), NEW buf \in Buffers, 0 < Len(buf), Taken(buf) <= Len(buf)
  PROVE  /\ Left(buf) \in Buffers
         /\ Len(Left(buf)) = Len(buf) - Taken(buf)
         /\ Len(Left(buf)) < Len(buf)
         /\ \A i \in 1..Len(buf) - Taken(buf) : Left(buf)[i] = buf[Taken(buf) + i]
<1>1. Taken(buf) \in Nat /\ Taken(buf) > 0 /\ Len(buf) \in Nat
  BY HeaderTyped DEF Buffers
<1> QED BY <1>1 DEF Left, Buffers

\* What one round does that is not idle: refuse a header, or execute a command.
Refuses(s, r) ==
  /\ r.buf = <<>> /\ r.done = s.done /\ r.sent = s.sent
  /\ r.end = IF mode = "lan" THEN Noted(s.end, "discarded") ELSE "header"

\* A command is executed, and answered, or its answer is lost, or the connection closed.
Executes(s, r, c) ==
  /\ r.done = Append(s.done, c)
  /\ \/ /\ r.sent = Append(s.sent, c) /\ r.end = s.end /\ r.buf = Left(s.buf)
     \/ /\ mode = "lan"
        /\ r.sent = s.sent /\ r.end = Noted(s.end, "lost") /\ r.buf = Left(s.buf)
     \/ /\ mode # "lan"
        /\ r.sent = s.sent /\ r.end = "send" /\ r.buf = <<>>

\* A command that is that of frame n is the bytes of frame n, and its header n's.
LEMMA CommandBytes ==
  ASSUME frames \in Seq(Frame), NEW buf \in Buffers, NEW n \in 1..Len(frames),
         0 < Len(buf), Taken(buf) <= Len(buf), Command(buf, n) = n
  PROVE  /\ Taken(buf) = Size(n)
         /\ \A i \in 1..Size(n) : buf[i] = <<n, i>>
         /\ WellFormed(HeaderAt(buf)) <=> WellFormed(frames[n])
<1>1. SubSeq(buf, 1, Taken(buf)) = Bytes(n)
  <2>1. n # 0
    BY WireTyped
  <2> QED BY <2>1 DEF Command, Taken
<1>2. /\ Size(n) \in Nat /\ Hdr <= Size(n) /\ buf \in Seq(ToSet(Wire)) /\ Len(buf) \in Nat
      /\ Taken(buf) \in Nat
  BY SizeTyped, HeaderTyped DEF Buffers
<1> DEFINE t == Taken(buf)
           z == Size(n)
           b == Bytes(n)
<1>3. b = [i \in 1..z |-> <<n, i>>]
  BY DEF Bytes, Size
<1> HIDE DEF t, z, b
<1>4. Len(SubSeq(buf, 1, t)) = t /\ \A i \in 1..t : SubSeq(buf, 1, t)[i] = buf[i]
  BY <1>2 DEF t
<1>5. Len(b) = z
  <2>1. z \in Nat
    BY <1>2 DEF z
  <2> QED BY <2>1, <1>3
<1>6. t = z
  BY <1>1, <1>4, <1>5 DEF t, b
<1>7. \A i \in 1..z : buf[i] = <<n, i>>
  BY <1>1, <1>3, <1>4, <1>6 DEF t, b
<1>8. WellFormed(HeaderAt(buf)) <=> WellFormed(frames[n])
  <2>1. Hdr <= Len(buf) /\ \A i \in 1..Hdr : i \in 1..z
    BY <1>2, <1>6, StreamAssumption DEF t, z
  <2> QED BY <2>1, <1>7, WholeHeader
<1> QED BY <1>6, <1>7, <1>8 DEF t, z

\* A round that is not idle refuses a header, or executes as many bytes as a well-formed
\* one asks for; if those are the bytes of a frame, it is that frame's header.
LEMMA RoundCases ==
  ASSUME frames \in Seq(Frame), NEW fits, NEW s \in LoopStates(fits), ~Stuck(s)
  PROVE  LET n == s.buf[1][1]
             c == Command(s.buf, n)
         IN  /\ n \in 1..Len(frames)
             /\ Hdr <= Len(s.buf)
             /\ c \in {0, n}
             /\ Round(s) \in LoopStates(fits)
             /\ \/ Refuses(s, Round(s)) /\ ~WellFormed(HeaderAt(s.buf))
                \/ /\ Executes(s, Round(s), c)
                   /\ c # 0 => WellFormed(frames[c])
                   /\ Taken(s.buf) <= Len(s.buf)
<1> DEFINE n == s.buf[1][1]
           c == Command(s.buf, n)
           r == Round(s)
<1>1. /\ s.buf \in Buffers /\ Len(s.buf) \in Nat
      /\ s.done \in Seq(0..Len(frames)) /\ s.sent \in Seq(0..Len(frames))
      /\ s.end \in {"open", "header", "send"} \cup Trouble
      /\ s.end \notin Closed
      /\ Parse(s.buf) # 0
      /\ Hdr \in Nat /\ Hdr > 0
  BY StreamAssumption DEF LoopStates, Stuck, Buffers
<1>2. Hdr <= Len(s.buf) /\ 0 < Len(s.buf)
  BY <1>1 DEF Parse
<1>3. n \in 1..Len(frames) /\ Taken(s.buf) \in Nat
  BY <1>1, <1>2, HeaderTyped
<1>4. c \in {0, n}
  BY DEF Command
<1>5. Len(frames) \in Nat /\ c \in 0..Len(frames)
  BY <1>3, <1>4, WireTyped
<1> HIDE DEF c
<1>6. CASE Parse(s.buf) = -1
  <2>1. r = [s EXCEPT !.buf = <<>>,
                      !.end = IF mode = "lan" THEN Noted(@, "discarded") ELSE "header"]
    BY <1>1, <1>6 DEF Round
  <2>2. <<>> \in Buffers
    BY DEF Buffers
  <2>3. r \in LoopStates(fits) /\ Refuses(s, r)
    BY <1>1, <2>1, <2>2 DEF LoopStates, Refuses, Noted, Trouble
  <2>4. ~WellFormed(HeaderAt(s.buf))
    BY <1>1, <1>6, <1>2 DEF Parse
  <2> QED BY <1>2, <1>3, <1>4, <2>3, <2>4 DEF c
<1>7. CASE Parse(s.buf) # -1
  <2>1. WellFormed(HeaderAt(s.buf)) /\ Taken(s.buf) <= Len(s.buf)
    <3>1. WellFormed(HeaderAt(s.buf)) /\ ~(Len(s.buf) < Taken(s.buf))
      BY <1>1, <1>7, <1>2 DEF Parse, Taken
    <3> QED BY <3>1, <1>1, <1>3
  <2>2. Left(s.buf) \in Buffers /\ <<>> \in Buffers
    BY <1>1, <1>2, <2>1, LeftIs DEF Buffers
  <2>3. /\ Append(s.done, c) \in Seq(0..Len(frames))
        /\ Append(s.sent, c) \in Seq(0..Len(frames))
    BY <1>1, <1>5
  <2>4. Consume(s.buf, Hdr + HeaderAt(s.buf).len) = Left(s.buf)
    BY DEF Consume, Left, Taken
  <2>5. r = IF n \notin s.fits THEN Refused(s, c, Left(s.buf))
            ELSE [s EXCEPT !.done = Append(@, c), !.sent = Append(@, c),
                           !.buf = Left(s.buf)]
    BY <1>1, <1>7, <2>4 DEF Round, c
  <2>6. c # 0 => WellFormed(frames[c])
    <3>1. ASSUME c = n PROVE WellFormed(frames[n])
      BY <1>1, <1>2, <1>3, <2>1, <3>1, CommandBytes DEF c
    <3> QED BY <1>4, <3>1
  <2> HIDE DEF n, r
  <2>7. r \in LoopStates(fits) /\ Executes(s, r, c)
    BY <1>1, <2>2, <2>3, <2>5 DEF LoopStates, Refused, Executes, Noted, Trouble
  <2> QED BY <1>2, <1>3, <1>4, <2>1, <2>6, <2>7 DEF c, n, r
<1> QED BY <1>6, <1>7

-------------------------------------------------------------------------------
\* Buffer, history and the wire behind q are in the order of writing.
InOrder(buf, done, q) ==
  /\ \A i, j \in DOMAIN buf : i < j => Before(buf[i], buf[j])
  /\ \A i \in DOMAIN buf : \A p \in q + 1..Len(Wire) : Before(buf[i], Wire[p])
  /\ \A d \in DOMAIN done : \A i \in DOMAIN buf : done[d] < buf[i][1]
  /\ \A d \in DOMAIN done : \A p \in q + 1..Len(Wire) : done[d] < Wire[p][1]

\* What was executed was well formed, and executed in the order of writing.
Proper(done) ==
  /\ \A i \in DOMAIN done : done[i] # 0 => WellFormed(frames[done[i]])
  /\ \A i, j \in DOMAIN done : i < j /\ done[j] # 0 => done[i] < done[j]

\* What a round keeps, whatever has been lost of the stream.
Sound(s, q) ==
  /\ InOrder(s.buf, s.done, q)
  /\ Proper(s.done)
  /\ Len(s.sent) <= Len(s.done)
  /\ s.end \in Closed => s.buf = <<>>
  /\ mode = "remote" => s.end \in {"open"} \cup Closed

\* What comes after the last byte of a frame belongs to a later one.
LEMMA AfterLastByte ==
  ASSUME frames \in Seq(Frame), NEW n \in 1..Len(frames), NEW b \in ToSet(Wire),
         Before(<<n, Size(n)>>, b)
  PROVE  n < b[1]
<1>1. b[1] \in 1..Len(frames) /\ b[2] \in 1..Size(b[1])
  BY WireByteTyped
<1>2. Size(n) \in Nat /\ Size(b[1]) \in Nat /\ Len(frames) \in Nat
  BY <1>1, SizeTyped, WireTyped
<1>3. CASE b[1] = n
  BY <1>1, <1>2, <1>3 DEF Before
<1> QED BY <1>1, <1>2, <1>3 DEF Before

\* Executing a command and consuming it keeps the order.
LEMMA LeftInOrder ==
  ASSUME frames \in Seq(Frame), NEW q \in 0..Len(Wire),
         NEW buf \in Buffers, NEW done \in Seq(0..Len(frames)),
         NEW n \in 1..Len(frames), 0 < Len(buf), Taken(buf) <= Len(buf),
         NEW c \in {0, n}, c = Command(buf, n),
         InOrder(buf, done, q)
  PROVE  InOrder(Left(buf), Append(done, c), q)
<1> DEFINE left == Left(buf)
           more == Append(done, c)
<1>1. /\ left \in Buffers
      /\ Len(left) = Len(buf) - Taken(buf)
      /\ \A i \in 1..Len(left) : left[i] = buf[Taken(buf) + i]
  BY LeftIs
<1>2. /\ Len(buf) \in Nat /\ DOMAIN buf = 1..Len(buf) /\ DOMAIN left = 1..Len(left)
      /\ Taken(buf) \in Nat /\ Taken(buf) > 0 /\ Len(Wire) \in Nat /\ Len(frames) \in Nat
  BY <1>1, HeaderTyped, WireTyped DEF Buffers
<1> HIDE DEF left
<1>3. \A i \in DOMAIN left : Taken(buf) + i \in DOMAIN buf /\ left[i] = buf[Taken(buf) + i]
  <2> SUFFICES ASSUME NEW i \in 1..Len(left)
               PROVE  Taken(buf) + i \in DOMAIN buf /\ left[i] = buf[Taken(buf) + i]
    BY <1>2
  <2>1. Taken(buf) + i \in 1..Len(buf)
    BY <1>1, <1>2
  <2> QED BY <2>1, <1>1, <1>2
<1>4. /\ \A d \in DOMAIN more : more[d] = c \/ (d \in DOMAIN done /\ more[d] = done[d])
      /\ \A d \in DOMAIN more : more[d] \in Nat
  <2>1. c \in 0..Len(frames)
    BY <1>2
  <2>2. /\ DOMAIN more = 1..Len(done) + 1
        /\ DOMAIN done = 1..Len(done)
        /\ Len(done) \in Nat
        /\ \A d \in 1..Len(done) : more[d] = done[d] /\ done[d] \in Nat
        /\ more[Len(done) + 1] = c
    BY <1>2, <2>1
  <2> HIDE DEF more
  <2>3. c \in Nat
    BY <1>2, <2>1
  <2> QED BY <2>2, <2>3
<1>5. ASSUME NEW b \in ToSet(Wire),
             \A i \in 1..Taken(buf) : Before(buf[i], b)
      PROVE  c < b[1]
  <2>1. b[1] \in 1..Len(frames)
    BY WireByteTyped
  <2>2. CASE c = 0
    BY <1>2, <2>1, <2>2
  <2>3. CASE c = n
    <3>0. Taken(buf) \in 1..Taken(buf)
      BY <1>2
    <3>1. Taken(buf) = Size(n) /\ \A i \in 1..Size(n) : buf[i] = <<n, i>>
      BY <2>3, CommandBytes
    <3>2. Before(<<n, Size(n)>>, b)
      BY <3>0, <1>5, <3>1
    <3> QED BY <2>3, <3>2, AfterLastByte
  <2> QED BY <2>2, <2>3
<1> HIDE DEF more
<1>6. \A i, j \in DOMAIN left : i < j => Before(left[i], left[j])
  <2> SUFFICES ASSUME NEW i \in DOMAIN left, NEW j \in DOMAIN left, i < j
               PROVE  Before(buf[Taken(buf) + i], buf[Taken(buf) + j])
    BY <1>3
  <2>1. Taken(buf) + i < Taken(buf) + j
    BY <1>1, <1>2
  <2> QED BY <2>1, <1>3 DEF InOrder
<1>7. \A i \in DOMAIN left : \A p \in q + 1..Len(Wire) : Before(left[i], Wire[p])
  BY <1>3 DEF InOrder
<1>8. ASSUME NEW d \in DOMAIN more, NEW i \in DOMAIN left PROVE more[d] < left[i][1]
  <2>1. CASE d \in DOMAIN done /\ more[d] = done[d]
    BY <1>3, <2>1 DEF InOrder
  <2>2. CASE more[d] = c
    <3>1. left[i] \in ToSet(Wire)
      BY <1>1, <1>2 DEF Buffers
    <3>2. \A k \in 1..Taken(buf) : Before(buf[k], left[i])
      <4> SUFFICES ASSUME NEW k \in 1..Taken(buf) PROVE Before(buf[k], buf[Taken(buf) + i])
        BY <1>3
      <4>1. k \in DOMAIN buf /\ k < Taken(buf) + i
        BY <1>1, <1>2
      <4> QED BY <4>1, <1>3 DEF InOrder
    <3> QED BY <2>2, <3>1, <3>2, <1>5
  <2> QED BY <1>4, <2>1, <2>2
<1>9. ASSUME NEW d \in DOMAIN more, NEW p \in q + 1..Len(Wire) PROVE more[d] < Wire[p][1]
  <2>1. CASE d \in DOMAIN done /\ more[d] = done[d]
    BY <2>1 DEF InOrder
  <2>2. CASE more[d] = c
    <3>0. p \in 1..Len(Wire)
      BY <1>2
    <3>1. Wire[p] \in ToSet(Wire)
      <4>1. p \in DOMAIN Wire
        BY <3>0, WireTyped
      <4> QED BY <4>1 DEF ToSet
    <3>2. \A k \in 1..Taken(buf) : Before(buf[k], Wire[p])
      <4> SUFFICES ASSUME NEW k \in 1..Taken(buf) PROVE Before(buf[k], Wire[p])
        OBVIOUS
      <4>1. k \in DOMAIN buf
        BY <1>2
      <4> QED BY <4>1 DEF InOrder
    <3> QED BY <2>2, <3>1, <3>2, <1>5
  <2> QED BY <1>4, <2>1, <2>2
<1> QED BY <1>6, <1>7, <1>8, <1>9 DEF InOrder, left, more

\* So does emptying the buffer.
LEMMA EmptyInOrder ==
  ASSUME NEW done, NEW q, NEW buf, InOrder(buf, done, q)
  PROVE  InOrder(<<>>, done, q)
BY DEF InOrder

\* A frame that is executed comes after all that were.
LEMMA MoreProper ==
  ASSUME frames \in Seq(Frame), NEW q,
         NEW buf \in Buffers, NEW done \in Seq(0..Len(frames)),
         NEW n \in 1..Len(frames), NEW c \in {0, n}, 0 < Len(buf), n = buf[1][1],
         c # 0 => WellFormed(frames[c]), InOrder(buf, done, q), Proper(done)
  PROVE  Proper(Append(done, c)) /\ \A d \in DOMAIN done : c # 0 => done[d] < c
<1>1. \A d \in DOMAIN done : done[d] < n
  BY DEF InOrder, Buffers
<1>2. Len(frames) \in Nat /\ c \in 0..Len(frames)
  BY WireTyped
<1> DEFINE more == Append(done, c)
<1>3. /\ DOMAIN more = 1..Len(done) + 1
      /\ DOMAIN done = 1..Len(done)
      /\ Len(done) \in Nat
      /\ \A i \in 1..Len(done) : more[i] = done[i]
      /\ more[Len(done) + 1] = c
  BY <1>2
<1> HIDE DEF more
<1>4. \A i \in DOMAIN more : more[i] # 0 => WellFormed(frames[more[i]])
  BY <1>3 DEF Proper
<1>5. ASSUME NEW i \in DOMAIN more, NEW j \in DOMAIN more, i < j, more[j] # 0
      PROVE  more[i] < more[j]
  <2>1. i \in 1..Len(done) /\ more[i] = done[i]
    BY <1>3, <1>5
  <2>2. CASE j \in 1..Len(done)
    BY <1>3, <1>5, <2>1, <2>2 DEF Proper
  <2>3. CASE j = Len(done) + 1
    BY <1>1, <1>3, <1>5, <2>1, <2>3
  <2> QED BY <1>3, <2>2, <2>3
<1> QED BY <1>1, <1>4, <1>5 DEF Proper, more

\* A round keeps Sound, and shortens the buffer unless the loop has ended.
LEMMA RoundSound ==
  ASSUME frames \in Seq(Frame), NEW q \in 0..Len(Wire), NEW fits, NEW s \in LoopStates(fits),
         Sound(s, q)
  PROVE  /\ Len(s.buf) \in Nat
         /\ Round(s) \in LoopStates(fits)
         /\ Sound(Round(s), q)
         /\ Stuck(s) \/ Len(Round(s).buf) < Len(s.buf)
<1>1. Len(s.buf) \in Nat /\ s.buf \in Buffers
  BY DEF LoopStates, Buffers
<1>2. CASE Stuck(s)
  BY <1>1, <1>2, StuckStays
<1>3. CASE ~Stuck(s)
  <2> DEFINE n == s.buf[1][1]
             c == Command(s.buf, n)
             r == Round(s)
  <2>1. /\ n \in 1..Len(frames) /\ Hdr <= Len(s.buf) /\ c \in {0, n}
        /\ r \in LoopStates(fits)
        /\ Refuses(s, r) \/ /\ Executes(s, r, c)
                            /\ c # 0 => WellFormed(frames[c])
                            /\ Taken(s.buf) <= Len(s.buf)
    BY <1>3, RoundCases
  <2>2. Hdr \in Nat /\ Hdr > 0 /\ s.end \notin Closed
    BY <1>3, StreamAssumption DEF Stuck
  <2>3. s.done \in Seq(0..Len(frames)) /\ s.sent \in Seq(0..Len(frames))
    BY DEF LoopStates
  <2>4. CASE Refuses(s, r)
    <3>1. InOrder(r.buf, r.done, q) /\ Proper(r.done) /\ Len(r.sent) <= Len(r.done)
      BY <2>4, EmptyInOrder DEF Sound, Refuses
    <3>2. Len(r.buf) < Len(s.buf) /\ r.buf = <<>>
      BY <1>1, <2>1, <2>2, <2>4 DEF Refuses
    <3>3. mode = "remote" => r.end \in {"open"} \cup Closed
      BY <2>4 DEF Refuses, Closed
    <3> QED BY <1>1, <2>1, <3>1, <3>2, <3>3 DEF Sound
  <2>5. CASE /\ Executes(s, r, c)
             /\ c # 0 => WellFormed(frames[c])
             /\ Taken(s.buf) <= Len(s.buf)
    <3>0. InOrder(s.buf, s.done, q) /\ Proper(s.done) /\ Len(s.sent) <= Len(s.done)
      BY DEF Sound
    <3> HIDE DEF n, r, c
    <3>d. n = s.buf[1][1] /\ c = Command(s.buf, n)
      BY DEF n, c
    <3>s. 0 < Len(s.buf)
      BY <1>1, <2>1, <2>2
    <3>1. InOrder(Left(s.buf), r.done, q)
      BY <1>1, <2>1, <2>3, <2>5, <3>0, <3>d, <3>s, LeftInOrder DEF Executes
    <3>2. InOrder(r.buf, r.done, q)
      BY <2>5, <3>1, EmptyInOrder DEF Executes
    <3>3. Proper(r.done)
      <4>1. Proper(Append(s.done, c))
        BY <1>1, <2>1, <2>3, <2>5, <3>0, <3>d, <3>s, MoreProper
      <4> QED BY <2>5, <4>1 DEF Executes
    <3>4. Len(r.sent) <= Len(r.done)
      BY <2>3, <2>5, <3>0 DEF Executes
    <3>5. Len(r.buf) < Len(s.buf)
      <4>1. Len(Left(s.buf)) < Len(s.buf) /\ Len(<<>>) < Len(s.buf)
        BY <1>1, <2>5, <3>s, LeftIs
      <4> QED BY <4>1, <2>5 DEF Executes
    <3>6. r.end \in Closed => r.buf = <<>>
      BY <2>2, <2>5 DEF Executes, Noted, Closed
    <3>7. mode = "remote" => r.end \in {"open"} \cup Closed
      BY <2>5 DEF Executes, Sound, Closed
    <3> QED BY <1>1, <2>1, <3>2, <3>3, <3>4, <3>5, <3>6, <3>7 DEF Sound, r
  <2> QED BY <2>1, <2>4, <2>5
<1> QED BY <1>2, <1>3

-------------------------------------------------------------------------------
\* Nothing lost: exactly the first frames were executed and answered, and the buffer is the
\* wire from there to L.
Aligned(buf, done, sent, L) ==
  /\ Len(done) <= Len(frames)
  /\ Len(sent) = Len(done)
  /\ \A i \in 1..Len(done) : done[i] = i /\ sent[i] = i
  /\ Ends(Len(done)) <= L
  /\ Len(buf) = L - Ends(Len(done))
  /\ \A i \in 1..Len(buf) : buf[i] = Wire[Ends(Len(done)) + i]

\* Exactly the first k were executed and answered in turn.
Turn(done, sent, k) ==
  /\ k <= Len(sent)
  /\ \A i \in 1..k : done[i] = i /\ sent[i] = i
  /\ ~(k < Len(sent) /\ done[k + 1] = k + 1 /\ sent[k + 1] = k + 1)

\* Frame f can no longer be executed: it is malformed, or a byte of it is gone.
Damaged(buf, q, f) ==
  /\ f \in 1..Len(frames)
  /\ \/ ~WellFormed(frames[f])
     \/ \E p \in 1..q : Wire[p][1] = f /\ \A i \in DOMAIN buf : buf[i] # Wire[p]

\* The service has ended behind k: the next in turn is never answered in turn.
Frozen(buf, done, sent, q, k) ==
  Turn(done, sent, k) /\ (k < Len(done) \/ Damaged(buf, q, k + 1))

\* Clean, of a history whose turn ended at k.
CleanOf(done, k) == k + IF Len(done) > k /\ done[k + 1] = k + 1 THEN 1 ELSE 0

\* An aligned buffer starts with the first byte of the frame after those executed.
LEMMA AlignedHead ==
  ASSUME frames \in Seq(Frame), NEW L \in 0..Len(Wire),
         NEW buf \in Buffers, NEW done \in Seq(0..Len(frames)), NEW sent,
         Aligned(buf, done, sent, L)
  PROVE  LET m == Len(done) IN
         /\ m \in 0..Len(frames) /\ Ends(m) \in Nat
         /\ Ends(m) < Len(Wire) =>
              /\ m + 1 \in 1..Len(frames)
              /\ Ends(m + 1) = Ends(m) + Size(m + 1)
              /\ Size(m + 1) \in Nat /\ Size(m + 1) > 0 /\ Hdr <= Size(m + 1)
              /\ \A i \in 1..Size(m + 1) : /\ Ends(m) + i \in 1..Len(Wire)
                                           /\ Wire[Ends(m) + i] = <<m + 1, i>>
         /\ Len(buf) > 0 => Ends(m) < Len(Wire) /\ buf[1] = <<m + 1, 1>>
<1> DEFINE m == Len(done)
<1>1. m \in 0..Len(frames) /\ Len(frames) \in Nat /\ Ends(m) \in Nat /\ Len(Wire) \in Nat
  <2>1. m \in 0..Len(frames) /\ Len(frames) \in Nat
    BY WireTyped DEF Aligned
  <2> QED BY <2>1, EndsGrow, WireTyped
<1>2. ASSUME Ends(m) < Len(Wire)
      PROVE  /\ m + 1 \in 1..Len(frames)
             /\ Ends(m + 1) = Ends(m) + Size(m + 1)
             /\ Size(m + 1) \in Nat /\ Size(m + 1) > 0 /\ Hdr <= Size(m + 1)
             /\ \A i \in 1..Size(m + 1) : /\ Ends(m) + i \in 1..Len(Wire)
                                          /\ Wire[Ends(m) + i] = <<m + 1, i>>
  <2>1. m # Len(frames)
    BY <1>1, <1>2, WireTyped
  <2>2. m + 1 \in 1..Len(frames) /\ (m + 1) - 1 = m
    BY <1>1, <2>1
  <2>3. Ends(m + 1) = Ends(m) + Size(m + 1)
    BY <2>2, EndsGrow
  <2>4. \A i \in 1..Size(m + 1) : /\ Ends((m + 1) - 1) + i \in 1..Len(Wire)
                                  /\ Wire[Ends((m + 1) - 1) + i] = <<m + 1, i>>
    BY <2>2, WireBytes
  <2>5. Ends((m + 1) - 1) = Ends(m)
    BY <2>2
  <2> QED BY <2>2, <2>3, <2>4, <2>5, SizeTyped
<1>3. ASSUME Len(buf) > 0 PROVE Ends(m) < Len(Wire) /\ buf[1] = <<m + 1, 1>>
  <2>1. Len(buf) \in Nat
    BY DEF Buffers
  <2>2. Len(buf) = L - Ends(m)
    BY DEF Aligned
  <2>3. Ends(m) < Len(Wire)
    BY <1>1, <1>3, <2>1, <2>2
  <2>4. 1 \in 1..Len(buf)
    BY <1>3, <2>1
  <2>5. buf[1] = Wire[Ends(m) + 1]
    BY <2>4 DEF Aligned
  <2>6. 1 \in 1..Size(m + 1)
    BY <1>2, <2>3
  <2> QED BY <1>2, <2>3, <2>5, <2>6
<1> QED BY <1>1, <1>2, <1>3

\* So what it is parsed as is that frame's header, and what is executed that frame.
LEMMA AlignedParse ==
  ASSUME frames \in Seq(Frame), NEW L \in 0..Len(Wire),
         NEW buf \in Buffers, NEW done \in Seq(0..Len(frames)), NEW sent,
         Aligned(buf, done, sent, L), Hdr <= Len(buf)
  PROVE  LET n == Len(done) + 1 IN
         /\ buf[1][1] = n
         /\ n \in 1..Len(frames)
         /\ Taken(buf) = Size(n)
         /\ WellFormed(HeaderAt(buf)) <=> WellFormed(frames[n])
         /\ Size(n) <= Len(buf) => Command(buf, n) = n
<1> DEFINE m == Len(done)
           n == m + 1
<1>1. Hdr \in Nat /\ Hdr > 0 /\ Len(buf) \in Nat /\ buf \in Seq(ToSet(Wire))
  BY StreamAssumption DEF Buffers
<1>2. Len(buf) > 0
  BY <1>1
<1>3. /\ buf[1] = <<n, 1>>
      /\ n \in 1..Len(frames)
      /\ Size(n) \in Nat /\ Size(n) > 0 /\ Hdr <= Size(n)
      /\ \A i \in 1..Size(n) : Wire[Ends(m) + i] = <<n, i>>
  BY <1>2, AlignedHead
<1>4. \A i \in 1..Len(buf) : buf[i] = Wire[Ends(m) + i]
  BY DEF Aligned
<1> HIDE DEF n
<1>5. \A i \in 1..Len(buf) : i <= Size(n) => buf[i] = <<n, i>>
  <2> SUFFICES ASSUME NEW i \in 1..Len(buf), i <= Size(n) PROVE buf[i] = <<n, i>>
    OBVIOUS
  <2>1. i \in 1..Size(n)
    BY <1>1, <1>3
  <2> QED BY <2>1, <1>3, <1>4
<1>6. Bytes(n) = [i \in 1..Size(n) |-> <<n, i>>]
  BY DEF Bytes, Size
<1>7. \A i \in 1..Hdr : buf[i] = <<n, i>>
  <2> SUFFICES ASSUME NEW i \in 1..Hdr PROVE buf[i] = <<n, i>>
    OBVIOUS
  <2>1. i \in 1..Len(buf) /\ i <= Size(n)
    BY <1>1, <1>3
  <2> QED BY <2>1, <1>5
<1>8. Taken(buf) = Size(n) /\ (WellFormed(HeaderAt(buf)) <=> WellFormed(frames[n]))
  BY <1>3, <1>7, WholeHeader
<1>9. ASSUME Size(n) <= Len(buf) PROVE Command(buf, n) = n
  <2>1. \A i \in 1..Size(n) : buf[i] = <<n, i>>
    <3> SUFFICES ASSUME NEW i \in 1..Size(n) PROVE buf[i] = <<n, i>>
      OBVIOUS
    <3>1. i \in 1..Len(buf) /\ i <= Size(n)
      BY <1>1, <1>3, <1>9
    <3> QED BY <3>1, <1>5
  <2>2. SubSeq(buf, 1, Size(n)) = SubSeq(Bytes(n), 1, Size(n))
    <3>1. Size(n) <= Size(n)
      BY <1>3
    <3> QED BY <2>1, <3>1, <1>3, <1>9, SamePrefix
  <2>3. SubSeq(Bytes(n), 1, Size(n)) = Bytes(n)
    <3> DEFINE b == Bytes(n)
               z == Size(n)
               X == {<<n, i>> : i \in 1..z}
    <3>1. b \in [1..z -> X] /\ z \in Nat
      BY <1>3, <1>6
    <3> HIDE DEF b, z, X
    <3>2. b \in Seq(X) /\ Len(b) = z
      BY <3>1
    <3>3. SubSeq(b, 1, z) = b
      BY <3>1, <3>2
    <3> QED BY <3>3 DEF b, z
  <2> QED BY <1>8, <2>2, <2>3 DEF Command, Taken
<1>10. buf[1][1] = n
  BY <1>3
<1> QED BY <1>3, <1>8, <1>9, <1>10 DEF n

\* Where an aligned buffer has no whole frame, the next has not arrived as a whole.
LEMMA NextIncomplete ==
  ASSUME frames \in Seq(Frame), NEW L \in 0..Len(Wire),
         NEW buf \in Buffers, NEW done \in Seq(0..Len(frames)), NEW sent,
         Aligned(buf, done, sent, L), Parse(buf) = 0, Len(done) < Len(frames)
  PROVE  L < Ends(Len(done) + 1)
<1> DEFINE m == Len(done)
           n == m + 1
<1>1. /\ m \in 0..Len(frames) /\ Ends(m) \in Nat /\ L \in Nat /\ Len(frames) \in Nat
      /\ Len(buf) \in Nat /\ Len(buf) = L - Ends(m) /\ Hdr \in Nat
  <2>1. m \in 0..Len(frames) /\ Ends(m) \in Nat
    BY AlignedHead
  <2>2. Len(buf) \in Nat
    BY DEF Buffers
  <2>3. L \in Nat /\ Len(frames) \in Nat /\ Hdr \in Nat
    BY WireTyped, StreamAssumption
  <2> QED BY <2>1, <2>2, <2>3 DEF Aligned
<1>2. /\ n \in 1..Len(frames) /\ n - 1 = m
      /\ Ends(n) = Ends(m) + Size(n) /\ Ends(n) \in Nat
  <2>1. n \in 1..Len(frames) /\ n - 1 = m /\ n \in 0..Len(frames)
    BY <1>1
  <2> QED BY <2>1, EndsGrow
<1>3. Size(n) \in Nat /\ Hdr <= Size(n)
  BY <1>2, SizeTyped
<1>4. Len(buf) < Size(n)
  <2>1. CASE Len(buf) < Hdr
    BY <2>1, <1>1, <1>3
  <2>2. CASE Hdr <= Len(buf)
    <3>1. Taken(buf) = Size(n)
      BY <2>2, AlignedParse
    <3>2. ~(Len(buf) < Hdr)
      BY <1>1, <2>2
    <3>3. Len(buf) < Taken(buf)
      BY <3>2 DEF Parse, Taken
    <3> QED BY <3>1, <3>3
  <2> QED BY <1>1, <2>1, <2>2
<1> QED BY <1>1, <1>2, <1>3, <1>4

\* Where bytes of an unfinished frame are missing, the turn is over.
LEMMA CutShort ==
  ASSUME frames \in Seq(Frame), NEW L \in 0..Len(Wire), NEW q \in 0..Len(Wire), L < q,
         NEW buf \in Buffers, NEW done \in Seq(0..Len(frames)), NEW sent,
         Aligned(buf, done, sent, L), Parse(buf) = 0
  PROVE  Frozen(buf, done, sent, q, Len(done))
<1> DEFINE m == Len(done)
<1>1. /\ m \in 0..Len(frames) /\ Ends(m) \in Nat /\ L \in Nat /\ q \in Nat
      /\ Len(Wire) \in Nat /\ Len(frames) \in Nat /\ Len(buf) \in Nat
      /\ Len(buf) = L - Ends(m) /\ Ends(m) <= L /\ q <= Len(Wire)
      /\ DOMAIN buf = 1..Len(buf)
  <2>1. m \in 0..Len(frames) /\ Ends(m) \in Nat
    BY AlignedHead
  <2>2. Len(buf) \in Nat /\ DOMAIN buf = 1..Len(buf)
    BY DEF Buffers
  <2>3. L \in Nat /\ Len(frames) \in Nat /\ Len(Wire) \in Nat /\ q \in Nat /\ q <= Len(Wire)
    BY WireTyped
  <2> QED BY <2>1, <2>2, <2>3 DEF Aligned
<1>2. Ends(m) < Len(Wire)
  BY <1>1
<1>3. /\ m + 1 \in 1..Len(frames)
      /\ Ends(m + 1) = Ends(m) + Size(m + 1)
      /\ Size(m + 1) \in Nat
      /\ \A i \in 1..Size(m + 1) : Wire[Ends(m) + i] = <<m + 1, i>>
  BY <1>2, AlignedHead
<1>4. L < Ends(m + 1)
  <2>1. m < Len(frames)
    BY <1>1, <1>3
  <2> QED BY <2>1, NextIncomplete
<1>5. Wire[L + 1][1] = m + 1
  <2> DEFINE i == L + 1 - Ends(m)
  <2>1. i \in 1..Size(m + 1) /\ Ends(m) + i = L + 1
    BY <1>1, <1>3, <1>4
  <2> HIDE DEF i
  <2>2. Wire[Ends(m) + i] = <<m + 1, i>>
    BY <1>3, <2>1
  <2> QED BY <2>1, <2>2
<1>6. ASSUME NEW i \in DOMAIN buf PROVE buf[i] # Wire[L + 1]
  <2> DEFINE j == Ends(m) + i
  <2>1. buf[i] = Wire[j]
    BY <1>1 DEF Aligned
  <2>2. j \in 1..Len(Wire) /\ L + 1 \in 1..Len(Wire) /\ j < L + 1
    BY <1>1
  <2> HIDE DEF j
  <2>3. Before(Wire[j], Wire[L + 1])
    BY <2>2, WireOrdered
  <2>4. Wire[L + 1] \in ToSet(Wire)
    <3>1. L + 1 \in DOMAIN Wire
      BY <2>2, WireTyped
    <3> QED BY <3>1 DEF ToSet
  <2>5. Wire[L + 1][1] \in Nat /\ Wire[L + 1][2] \in Nat
    BY <2>4, WireByteTyped DEF Byte
  <2> QED BY <2>1, <2>3, <2>5 DEF Before
<1>7. Damaged(buf, q, m + 1)
  <2>1. L + 1 \in 1..q
    BY <1>1
  <2> QED BY <1>3, <1>5, <1>6, <2>1 DEF Damaged
<1>8. Turn(done, sent, m)
  BY <1>1 DEF Turn, Aligned
<1> QED BY <1>7, <1>8 DEF Frozen

\* A round on an aligned buffer serves the next frame, or ends the service.
LEMMA RoundAligned ==
  ASSUME frames \in Seq(Frame), NEW q \in 0..Len(Wire), NEW L \in 0..Len(Wire), NEW fits,
         NEW s \in LoopStates(fits), Aligned(s.buf, s.done, s.sent, L), ~Stuck(s)
  PROVE  LET r == Round(s) IN
         /\ \A i \in DOMAIN r.done : r.done[i] = i
         /\ Len(s.done) <= Len(r.done)
         /\ \/ Aligned(r.buf, r.done, r.sent, L) /\ r.end = s.end
            \/ r.end # "open" /\ Frozen(r.buf, r.done, r.sent, q, Len(s.done))
<1> DEFINE m == Len(s.done)
           n == m + 1
           c == Command(s.buf, n)
           r == Round(s)
<1>1. /\ s.buf \in Buffers /\ Len(s.buf) \in Nat
      /\ s.done \in Seq(0..Len(frames)) /\ s.sent \in Seq(0..Len(frames))
      /\ DOMAIN s.done = 1..m
      /\ Len(s.sent) = m /\ m \in Nat
      /\ \A i \in 1..m : s.done[i] = i /\ s.sent[i] = i
  BY DEF LoopStates, Buffers, Aligned
<1>2. /\ s.buf[1][1] \in 1..Len(frames)
      /\ Hdr <= Len(s.buf)
      /\ \/ Refuses(s, r) /\ ~WellFormed(HeaderAt(s.buf))
         \/ Executes(s, r, Command(s.buf, s.buf[1][1])) /\ Taken(s.buf) <= Len(s.buf)
  BY RoundCases
<1>3. /\ s.buf[1][1] = n
      /\ n \in 1..Len(frames)
      /\ Taken(s.buf) = Size(n)
      /\ WellFormed(HeaderAt(s.buf)) <=> WellFormed(frames[n])
      /\ Size(n) <= Len(s.buf) => c = n
  BY <1>1, <1>2, AlignedParse
<1>4. Hdr \in Nat /\ Hdr > 0 /\ Len(frames) \in Nat
  BY StreamAssumption, WireTyped
<1> HIDE DEF m, n, c, r
<1>n. n = m + 1
  BY DEF n
<1>5. CASE Refuses(s, r) /\ ~WellFormed(frames[n])
  <2>1. Turn(r.done, r.sent, m)
    BY <1>1, <1>5 DEF Turn, Refuses
  <2>2. Damaged(r.buf, q, m + 1)
    BY <1>3, <1>5, <1>n DEF Damaged
  <2>3. r.end # "open"
    BY <1>5 DEF Refuses, Noted
  <2>4. r.done = s.done
    BY <1>5 DEF Refuses
  <2> QED BY <1>1, <2>1, <2>2, <2>3, <2>4 DEF Frozen, r, m
<1>6. CASE Executes(s, r, n) /\ Size(n) <= Len(s.buf)
  <2>1. n \in 0..Len(frames)
    BY <1>3, <1>4
  <2>2. /\ r.done = Append(s.done, n)
        /\ DOMAIN r.done = 1..n /\ Len(r.done) = n
        /\ \A i \in 1..n : r.done[i] = i
    <3>1. r.done = Append(s.done, n)
      BY <1>6 DEF Executes
    <3>2. Len(r.done) = n /\ DOMAIN r.done = 1..n
      BY <1>1, <1>n, <2>1, <3>1 DEF m
    <3>3. \A i \in 1..m : r.done[i] = i
      BY <1>1, <3>1 DEF m
    <3>4. r.done[n] = n
      BY <1>1, <1>n, <3>1 DEF m
    <3> QED BY <1>1, <1>n, <3>1, <3>2, <3>3, <3>4
  <2>3. CASE r.sent = Append(s.sent, n) /\ r.end = s.end /\ r.buf = Left(s.buf)
    <3>1. Len(r.sent) = n /\ \A i \in 1..n : r.sent[i] = i
      <4>1. Len(r.sent) = n /\ \A i \in 1..m : r.sent[i] = i
        BY <1>1, <1>n, <2>3
      <4>2. r.sent[n] = n
        BY <1>1, <1>n, <2>3
      <4> QED BY <1>1, <1>n, <4>1, <4>2
    <3>2. /\ Ends(m) \in Nat /\ Size(n) \in Nat /\ Size(n) > 0 /\ L \in Nat
          /\ Ends(n) = Ends(m) + Size(n)
      <4>1. Len(s.buf) > 0
        BY <1>1, <1>2, <1>4
      <4>2. Ends(m) \in Nat /\ Ends(m) < Len(Wire)
        BY <1>1, <4>1, AlignedHead DEF m
      <4>3. Size(m + 1) \in Nat /\ Size(m + 1) > 0 /\ Ends(m + 1) = Ends(m) + Size(m + 1)
        BY <1>1, <4>2, AlignedHead DEF m
      <4> QED BY <4>2, <4>3, <1>n, WireTyped
    <3>3. Len(s.buf) = L - Ends(m) /\ \A i \in 1..Len(s.buf) : s.buf[i] = Wire[Ends(m) + i]
      BY DEF Aligned, m
    <3>4. /\ Len(r.buf) = Len(s.buf) - Size(n)
          /\ \A i \in 1..Len(r.buf) : r.buf[i] = s.buf[Size(n) + i]
      <4>1. 0 < Len(s.buf) /\ Taken(s.buf) <= Len(s.buf)
        BY <1>1, <1>2, <1>3, <1>4, <1>6
      <4>2. /\ Len(Left(s.buf)) = Len(s.buf) - Taken(s.buf)
            /\ \A i \in 1..Len(s.buf) - Taken(s.buf) : Left(s.buf)[i] = s.buf[Taken(s.buf) + i]
        BY <1>1, <4>1, LeftIs
      <4> QED BY <1>3, <2>3, <4>2
    <3>5. Ends(n) <= L /\ Len(r.buf) = L - Ends(n)
      BY <1>1, <1>6, <3>2, <3>3, <3>4
    <3>6. \A i \in 1..Len(r.buf) : r.buf[i] = Wire[Ends(n) + i]
      <4> SUFFICES ASSUME NEW i \in 1..Len(r.buf) PROVE r.buf[i] = Wire[Ends(n) + i]
        OBVIOUS
      <4> DEFINE j == Size(n) + i
      <4>1. j \in 1..Len(s.buf) /\ Ends(m) + j = Ends(n) + i
        <5>1. Len(r.buf) = Len(s.buf) - Size(n) /\ Len(s.buf) \in Nat
          BY <1>1, <3>4
        <5> QED BY <5>1, <3>2
      <4>2. r.buf[i] = s.buf[j]
        BY <3>4
      <4> HIDE DEF j
      <4> QED BY <4>1, <4>2, <3>3
    <3>7. Aligned(r.buf, r.done, r.sent, L)
      <4>1. Len(r.done) = n /\ n <= Len(frames)
        BY <1>3, <1>4, <2>2
      <4>2. \A i \in 1..n : r.done[i] = i
        BY <2>2
      <4> QED BY <4>1, <4>2, <3>1, <3>5, <3>6 DEF Aligned
    <3>8. m <= Len(r.done) /\ r.end = s.end /\ \A i \in DOMAIN r.done : r.done[i] = i
      BY <1>1, <1>n, <2>2, <2>3
    <3> QED BY <3>7, <3>8 DEF r, m
  <2>4. CASE r.sent = s.sent /\ r.end # "open"
    <3>1. Turn(r.done, r.sent, m)
      BY <1>1, <1>n, <2>2, <2>4 DEF Turn
    <3>2. m < Len(r.done)
      BY <1>1, <1>n, <2>2
    <3> QED BY <1>1, <1>n, <2>2, <2>4, <3>1, <3>2 DEF Frozen, r, m
  <2>5. (r.sent = s.sent /\ r.end # "open")
        \/ (r.sent = Append(s.sent, n) /\ r.end = s.end /\ r.buf = Left(s.buf))
    BY <1>6 DEF Executes, Noted
  <2> QED BY <2>3, <2>4, <2>5
<1>7. \/ Refuses(s, r) /\ ~WellFormed(frames[n])
      \/ Executes(s, r, n) /\ Size(n) <= Len(s.buf)
  BY <1>2, <1>3 DEF c
<1> QED BY <1>5, <1>6, <1>7

\* After the service has ended a round does not resume it.
LEMMA RoundFrozen ==
  ASSUME frames \in Seq(Frame), NEW q \in 0..Len(Wire), NEW fits, NEW s \in LoopStates(fits),
         Sound(s, q), ~Stuck(s), s.end # "open",
         NEW k \in Nat, Frozen(s.buf, s.done, s.sent, q, k)
  PROVE  LET r == Round(s) IN
         /\ r.end # "open"
         /\ Frozen(r.buf, r.done, r.sent, q, k)
         /\ CleanOf(r.done, k) = CleanOf(s.done, k)
<1> DEFINE n == s.buf[1][1]
           c == Command(s.buf, n)
           r == Round(s)
<1>1. /\ s.buf \in Buffers /\ Len(s.buf) \in Nat /\ DOMAIN s.buf = 1..Len(s.buf)
      /\ s.done \in Seq(0..Len(frames)) /\ s.sent \in Seq(0..Len(frames))
      /\ DOMAIN s.done = 1..Len(s.done)
      /\ Len(s.done) \in Nat /\ Len(s.sent) \in Nat
      /\ Len(s.sent) <= Len(s.done)
  BY DEF LoopStates, Buffers, Sound
<1>2. /\ n \in 1..Len(frames) /\ Hdr <= Len(s.buf) /\ c \in {0, n}
      /\ Refuses(s, r) \/ /\ Executes(s, r, c)
                          /\ c # 0 => WellFormed(frames[c])
                          /\ Taken(s.buf) <= Len(s.buf)
  BY RoundCases
<1>d. n = s.buf[1][1] /\ c = Command(s.buf, n)
  OBVIOUS
<1> HIDE DEF n, c, r
<1>3. Hdr \in Nat /\ Hdr > 0 /\ Len(frames) \in Nat /\ c \in 0..Len(frames) /\ c \in Nat
  <2>1. Hdr \in Nat /\ Hdr > 0 /\ Len(frames) \in Nat
    BY StreamAssumption, WireTyped
  <2>2. n \in 1..Len(frames) /\ c \in {0, n}
    BY <1>2
  <2> QED BY <2>1, <2>2
<1>4. CASE Refuses(s, r)
  <2>1. r.end # "open" /\ r.done = s.done /\ r.sent = s.sent /\ r.buf = <<>>
    BY <1>4 DEF Refuses, Noted
  <2>2. ASSUME Damaged(s.buf, q, k + 1) PROVE Damaged(<<>>, q, k + 1)
    BY <2>2 DEF Damaged
  <2> QED BY <2>1, <2>2 DEF Frozen, r
<1>5. CASE /\ Executes(s, r, c)
           /\ c # 0 => WellFormed(frames[c])
           /\ Taken(s.buf) <= Len(s.buf)
  <2>1. /\ r.done = Append(s.done, c)
        /\ r.sent = s.sent \/ r.sent = Append(s.sent, c)
        /\ r.end # "open"
    BY <1>5 DEF Executes, Noted
  <2>2. /\ Len(r.done) = Len(s.done) + 1
        /\ \A i \in 1..Len(s.done) : r.done[i] = s.done[i]
        /\ r.done[Len(s.done) + 1] = c
    BY <1>1, <1>3, <2>1
  <2>3. /\ Len(r.sent) = Len(s.sent) \/ Len(r.sent) = Len(s.sent) + 1
        /\ \A i \in 1..Len(s.sent) : r.sent[i] = s.sent[i]
        /\ Len(r.sent) = Len(s.sent) + 1 => r.sent[Len(s.sent) + 1] = c
    <3>1. CASE r.sent = s.sent
      BY <1>1, <3>1
    <3>2. CASE r.sent = Append(s.sent, c)
      BY <1>1, <1>3, <3>2
    <3> QED BY <2>1, <3>1, <3>2
  <2>4. \A d \in 1..Len(s.done) : c # 0 => s.done[d] < c
    <3>1. 0 < Len(s.buf) /\ InOrder(s.buf, s.done, q) /\ Proper(s.done)
      BY <1>1, <1>2, <1>3 DEF Sound
    <3> QED BY <1>1, <1>2, <1>5, <1>d, <3>1, MoreProper
  <2>5. /\ k <= Len(s.sent) /\ \A i \in 1..k : s.done[i] = i /\ s.sent[i] = i
        /\ ~(k < Len(s.sent) /\ s.done[k + 1] = k + 1 /\ s.sent[k + 1] = k + 1)
        /\ k < Len(s.done) \/ Damaged(s.buf, q, k + 1)
    BY DEF Frozen, Turn
  <2>l. /\ Len(s.done) \in Nat /\ Len(s.sent) \in Nat
        /\ k <= Len(s.sent) /\ Len(s.sent) <= Len(s.done)
        /\ Len(r.done) = Len(s.done) + 1
        /\ Len(r.sent) = Len(s.sent) \/ Len(r.sent) = Len(s.sent) + 1
    BY <1>1, <2>2, <2>3, <2>5
  <2>6. k < Len(r.done) /\ k <= Len(r.sent)
    BY <2>l
  <2>7. \A i \in 1..k : r.done[i] = i /\ r.sent[i] = i
    <3> SUFFICES ASSUME NEW i \in 1..k PROVE r.done[i] = i /\ r.sent[i] = i
      OBVIOUS
    <3>1. i \in 1..Len(s.done) /\ i \in 1..Len(s.sent)
      BY <2>l
    <3> QED BY <3>1, <2>2, <2>3, <2>5
  <2>c. ASSUME k = Len(s.done), c = k + 1 PROVE FALSE
    <3>1. c = n /\ WellFormed(frames[n])
      BY <1>2, <1>5, <2>c
    <3>2. Damaged(s.buf, q, n)
      BY <1>1, <2>5, <2>c, <3>1
    <3>3. PICK p \in 1..q : Wire[p][1] = n /\ \A i \in DOMAIN s.buf : s.buf[i] # Wire[p]
      BY <3>1, <3>2 DEF Damaged
    <3>4. Wire[p] \in ToSet(Wire)
      <4>1. p \in DOMAIN Wire
        BY WireTyped
      <4> QED BY <4>1 DEF ToSet
    <3>5. Wire[p] = <<n, Wire[p][2]>> /\ Wire[p][2] \in 1..Size(n)
      BY <3>3, <3>4, WireByteTyped
    <3>6. Taken(s.buf) = Size(n) /\ \A i \in 1..Size(n) : s.buf[i] = <<n, i>>
      <4>1. 0 < Len(s.buf)
        BY <1>1, <1>2, <1>3
      <4> QED BY <1>1, <1>2, <1>5, <1>d, <3>1, <4>1, CommandBytes
    <3>7. Wire[p][2] \in DOMAIN s.buf
      <4>1. Size(n) \in Nat /\ Size(n) <= Len(s.buf)
        BY <1>2, <1>5, <3>6, SizeTyped
      <4> QED BY <1>1, <3>5, <4>1
    <3>8. s.buf[Wire[p][2]] = <<n, Wire[p][2]>>
      BY <3>5, <3>6
    <3> QED BY <3>3, <3>5, <3>7, <3>8
  <2>8. ASSUME k < Len(r.sent), r.done[k + 1] = k + 1, r.sent[k + 1] = k + 1 PROVE FALSE
    <3>1. CASE k < Len(s.done)
      <4>1. s.done[k + 1] = k + 1
        <5>1. k + 1 \in 1..Len(s.done)
          BY <2>l, <3>1
        <5> QED BY <5>1, <2>2, <2>8
      <4>2. ~(k < Len(s.sent))
        <5> SUFFICES ASSUME k < Len(s.sent) PROVE FALSE
          OBVIOUS
        <5>1. k + 1 \in 1..Len(s.sent)
          BY <2>l
        <5>2. s.sent[k + 1] = k + 1
          BY <5>1, <2>3, <2>8
        <5> QED BY <5>2, <2>5, <4>1
      <4>3. k = Len(s.sent) /\ c = k + 1
        <5>1. k = Len(s.sent) /\ Len(r.sent) = Len(s.sent) + 1
          BY <2>l, <2>8, <4>2
        <5> QED BY <5>1, <2>3, <2>8
      <4>4. k + 1 \in 1..Len(s.done) /\ c # 0
        BY <1>1, <3>1, <4>3
      <4>5. s.done[k + 1] < c
        BY <2>4, <4>4
      <4> QED BY <1>3, <4>1, <4>3, <4>5
    <3>2. CASE k = Len(s.done)
      BY <2>2, <2>8, <2>c, <3>2
    <3> QED BY <1>1, <2>5, <3>1, <3>2
  <2>9. CleanOf(r.done, k) = CleanOf(s.done, k)
    <3>1. CASE k < Len(s.done)
      <4>1. k + 1 \in 1..Len(s.done)
        BY <2>l, <3>1
      <4>2. r.done[k + 1] = s.done[k + 1]
        BY <2>2, <4>1
      <4> QED BY <2>l, <3>1, <4>2 DEF CleanOf
    <3>2. CASE k = Len(s.done)
      <4>1. r.done[k + 1] # k + 1
        BY <2>2, <2>c, <3>2
      <4>2. ~(Len(s.done) > k)
        BY <2>l, <3>2
      <4> QED BY <4>1, <4>2 DEF CleanOf
    <3>3. k < Len(s.done) \/ k = Len(s.done)
      BY <2>l
    <3> QED BY <3>1, <3>2, <3>3
  <2> QED BY <2>1, <2>6, <2>7, <2>8, <2>9 DEF Frozen, Turn, r
<1> QED BY <1>2, <1>4, <1>5

-------------------------------------------------------------------------------
\* Nothing but whole frames, the first ones, in turn.
InTurnOnly(done) == \A i \in DOMAIN done : done[i] = i

\* The invariant, of a buffer, the histories, the bytes taken so far and the trouble.
Sane(buf, done, sent, q, end) ==
  /\ q \in 0..Len(Wire)
  /\ buf \in Buffers
  /\ done \in Seq(0..Len(frames))
  /\ sent \in Seq(0..Len(frames)) /\ Len(sent) <= Len(done)
  /\ end \in {"open", "header", "send", "peer"} \cup Trouble
  /\ Parse(buf) = 0
  /\ InOrder(buf, done, q)
  /\ Proper(done)
  /\ mode = "remote" => InTurnOnly(done) /\ end \in {"open"} \cup Closed
  /\ end = "open" => Aligned(buf, done, sent, q)
  /\ end \in Trouble => \E k \in Nat : Frozen(buf, done, sent, q, k)

\* The inductive invariant.
IInv ==
  /\ mode \in {"remote", "tls", "lan"}
  /\ frames \in Seq(Frame) /\ Len(frames) <= MaxFrames
  /\ Sane(rx, executed, answered, delivered, why)

\* The loop on an aligned buffer: it serves all whole frames there are, or the service
\* ends there.
LEMMA DrainServes ==
  ASSUME frames \in Seq(Frame), NEW q \in 0..Len(Wire), NEW L \in 0..Len(Wire), NEW fits,
         NEW s \in LoopStates(fits), Sound(s, q),
         Aligned(s.buf, s.done, s.sent, L),
         (s.end = "open" /\ L = q) \/ (s.end = "truncated" /\ L < q)
  PROVE  LET r == Drain(s) IN
         /\ r \in LoopStates(fits)
         /\ Sane(r.buf, r.done, r.sent, q, r.end)
         /\ \/ r.end = "open" /\ Len(s.done) <= Len(r.done)
            \/ /\ r.end # "open"
               /\ \E k \in Nat : Len(s.done) <= k /\ Frozen(r.buf, r.done, r.sent, q, k)
<1> DEFINE m == Len(s.done)
           Going(t) == /\ Aligned(t.buf, t.done, t.sent, L)
                       /\ (t.end = "open" /\ L = q) \/ (t.end = "truncated" /\ L < q)
                       /\ m <= Len(t.done)
           Over(t) == /\ t.end # "open"
                      /\ \E k \in Nat : m <= k /\ Frozen(t.buf, t.done, t.sent, q, k)
           T == {t \in LoopStates(fits) : /\ Sound(t, q)
                                          /\ mode = "remote" => InTurnOnly(t.done)
                                          /\ Going(t) \/ Over(t)}
<1>0. m \in Nat /\ DOMAIN s.done = 1..m
  BY DEF LoopStates
<1> HIDE DEF m
<1>1. s \in T
  BY <1>0 DEF m, Aligned, InTurnOnly
<1>2. ASSUME NEW t \in T
      PROVE  Len(t.buf) \in Nat /\ Round(t) \in T /\ (Stuck(t) \/ Len(Round(t).buf) < Len(t.buf))
  <2>1. /\ Len(t.buf) \in Nat /\ Round(t) \in LoopStates(fits) /\ Sound(Round(t), q)
        /\ Stuck(t) \/ Len(Round(t).buf) < Len(t.buf)
    BY RoundSound
  <2>2. CASE Stuck(t)
    BY <2>1, <2>2, StuckStays
  <2>3. CASE ~Stuck(t) /\ Going(t)
    <3> DEFINE r == Round(t)
    <3>1. /\ \A i \in DOMAIN r.done : r.done[i] = i
          /\ Len(t.done) <= Len(r.done)
          /\ \/ Aligned(r.buf, r.done, r.sent, L) /\ r.end = t.end
             \/ r.end # "open" /\ Frozen(r.buf, r.done, r.sent, q, Len(t.done))
      BY <2>3, RoundAligned
    <3>2. Len(t.done) \in Nat /\ Len(r.done) \in Nat
      BY <2>1 DEF LoopStates
    <3> HIDE DEF r
    <3>3. m <= Len(t.done) /\ m <= Len(r.done)
      BY <1>0, <2>3, <3>1, <3>2
    <3>4. Going(r) \/ Over(r)
      BY <2>3, <3>1, <3>2, <3>3
    <3>5. InTurnOnly(r.done)
      BY <3>1 DEF InTurnOnly
    <3> QED BY <2>1, <3>4, <3>5 DEF r
  <2>4. CASE ~Stuck(t) /\ Over(t)
    <3> DEFINE r == Round(t)
    <3>1. PICK k \in Nat : m <= k /\ Frozen(t.buf, t.done, t.sent, q, k)
      BY <2>4
    <3>2. r.end # "open" /\ Frozen(r.buf, r.done, r.sent, q, k)
      BY <2>4, <3>1, RoundFrozen
    <3>3. mode # "remote"
      BY <2>4 DEF Sound, Stuck
    <3> QED BY <2>1, <3>1, <3>2, <3>3
  <2> QED BY <2>1, <2>2, <2>3, <2>4
<1> DEFINE r == Drain(s)
<1>3. r \in T /\ Stuck(r)
  <2> HIDE DEF T
  <2> QED BY <1>1, <1>2, DrainReaches
<1> HIDE DEF r
<1>4. Parse(r.buf) = 0
  <2>1. CASE r.end \in Closed
    <3>1. r.buf = <<>>
      BY <1>3, <2>1 DEF Sound
    <3>2. Hdr \in Nat /\ Hdr > 0 /\ Len(<<>>) = 0
      BY StreamAssumption
    <3> QED BY <3>1, <3>2 DEF Parse
  <2>2. CASE r.end \notin Closed
    BY <1>3, <2>2 DEF Stuck
  <2> QED BY <2>1, <2>2
<1>5. /\ r.buf \in Buffers
      /\ r.done \in Seq(0..Len(frames))
      /\ r.sent \in Seq(0..Len(frames)) /\ Len(r.sent) <= Len(r.done)
      /\ r.end \in {"open", "header", "send"} \cup Trouble
      /\ InOrder(r.buf, r.done, q)
      /\ Proper(r.done)
      /\ mode = "remote" => InTurnOnly(r.done) /\ r.end \in {"open"} \cup Closed
  BY <1>3 DEF LoopStates, Sound
<1>6. CASE Going(r)
  <2>1. CASE r.end = "open"
    BY <1>3, <1>4, <1>5, <1>6, <2>1 DEF Sane, r, m, Trouble
  <2>2. CASE r.end = "truncated" /\ L < q
    <3>1. Frozen(r.buf, r.done, r.sent, q, Len(r.done))
      BY <1>4, <1>5, <1>6, <2>2, CutShort
    <3>2. Len(r.done) \in Nat /\ m <= Len(r.done)
      BY <1>5, <1>6
    <3> QED BY <1>3, <1>4, <1>5, <2>2, <3>1, <3>2 DEF Sane, r, m, Trouble
  <2> QED BY <1>6, <2>1, <2>2
<1>7. CASE Over(r)
  <2>1. Sane(r.buf, r.done, r.sent, q, r.end)
    BY <1>4, <1>5, <1>7 DEF Sane
  <2> QED BY <1>3, <1>7, <2>1 DEF r, m
<1> QED BY <1>3, <1>6, <1>7

\* The loop after the service has ended.
LEMMA DrainStaysFrozen ==
  ASSUME frames \in Seq(Frame), NEW q \in 0..Len(Wire), NEW fits,
         NEW s \in LoopStates(fits), Sound(s, q), s.end # "open", mode # "remote",
         NEW k \in Nat, Frozen(s.buf, s.done, s.sent, q, k)
  PROVE  LET r == Drain(s) IN
         /\ Sane(r.buf, r.done, r.sent, q, r.end)
         /\ r.end # "open" /\ Frozen(r.buf, r.done, r.sent, q, k)
         /\ CleanOf(r.done, k) = CleanOf(s.done, k)
<1> DEFINE T == {t \in LoopStates(fits) : /\ Sound(t, q)
                                          /\ t.end # "open"
                                          /\ Frozen(t.buf, t.done, t.sent, q, k)
                                          /\ CleanOf(t.done, k) = CleanOf(s.done, k)}
<1>1. s \in T
  OBVIOUS
<1>2. ASSUME NEW t \in T
      PROVE  Len(t.buf) \in Nat /\ Round(t) \in T /\ (Stuck(t) \/ Len(Round(t).buf) < Len(t.buf))
  <2>1. /\ Len(t.buf) \in Nat /\ Round(t) \in LoopStates(fits) /\ Sound(Round(t), q)
        /\ Stuck(t) \/ Len(Round(t).buf) < Len(t.buf)
    BY RoundSound
  <2>2. CASE Stuck(t)
    BY <2>1, <2>2, StuckStays
  <2>3. CASE ~Stuck(t)
    BY <2>1, <2>3, RoundFrozen
  <2> QED BY <2>2, <2>3
<1> DEFINE r == Drain(s)
<1>3. r \in T /\ Stuck(r)
  <2> HIDE DEF T
  <2> QED BY <1>1, <1>2, DrainReaches
<1> HIDE DEF r
<1>4. Parse(r.buf) = 0
  <2>1. CASE r.end \in Closed
    <3>1. r.buf = <<>>
      BY <1>3, <2>1 DEF Sound
    <3>2. Hdr \in Nat /\ Hdr > 0 /\ Len(<<>>) = 0
      BY StreamAssumption
    <3> QED BY <3>1, <3>2 DEF Parse
  <2>2. CASE r.end \notin Closed
    BY <1>3, <2>2 DEF Stuck
  <2> QED BY <2>1, <2>2
<1>5. Sane(r.buf, r.done, r.sent, q, r.end)
  BY <1>3, <1>4 DEF Sane, Sound, LoopStates
<1> QED BY <1>3, <1>5 DEF r

-------------------------------------------------------------------------------
\* A buffer in which the parser finds no whole frame and no fault is shorter than one.
LEMMA ShortBuffer ==
  ASSUME frames \in Seq(Frame), NEW buf \in Buffers, Parse(buf) = 0
  PROVE  Len(buf) \in Nat /\ Len(buf) < Hdr + PktSize
<1>1. Len(buf) \in Nat /\ Hdr \in Nat /\ PktSize \in Nat /\ PktSize > 0 /\ Hdr > 0
  BY StreamAssumption DEF Buffers
<1>2. CASE Len(buf) < Hdr
  BY <1>1, <1>2
<1>3. CASE ~(Len(buf) < Hdr)
  <2> DEFINE h == HeaderAt(buf)
  <2>1. 0 < Len(buf)
    BY <1>1, <1>3
  <2>2. WellFormed(h) /\ Len(buf) < Hdr + h.len
    BY <1>3 DEF Parse
  <2>3. h.len \in Nat
    BY <2>1, HeaderTyped
  <2> HIDE DEF h
  <2>4. Len(buf) < Hdr + PktSize
    BY <1>1, <2>2, <2>3 DEF WellFormed
  <2> QED BY <1>1, <2>4
<1> QED BY <1>2, <1>3

\* What a callback brings is there, and no more than a window.
LEMMA BroughtIs ==
  ASSUME frames \in Seq(Frame), delivered \in 0..Len(Wire), NEW n \in Brought
  PROVE  n \in Nat /\ n > 0 /\ n <= Wnd /\ delivered + n <= Len(Wire)
<1> DEFINE a == IF mode = "tls" THEN Dec ELSE Wnd
           b == Len(Wire) - delivered
<1>1. a \in Nat /\ a <= Wnd /\ Wnd \in Nat
  BY StreamAssumption
<1>2. b \in Nat /\ Len(Wire) \in Nat /\ delivered \in Nat
  BY WireTyped
<1> HIDE DEF a
<1>3. PICK c \in {a, b} : c = Min({a, b}) /\ c <= a /\ c <= b
  <2> HIDE DEF b
  <2>1. \E x \in {a, b} : \A y \in {a, b} : x <= y
    BY <1>1, <1>2
  <2> QED BY <2>1 DEF Min
<1>4. n \in 1..c
  BY <1>3 DEF Brought, a
<1> QED BY <1>1, <1>2, <1>3, <1>4

\* The first a of n more bytes come into the buffer: the order is kept, an aligned buffer
\* stays aligned up to there, and a service that has ended stays so.
LEMMA MoreDelivered ==
  ASSUME frames \in Seq(Frame), NEW q \in 0..Len(Wire), NEW n \in Nat, q + n <= Len(Wire),
         NEW a \in 0..n, NEW buf \in Buffers, NEW done \in Seq(0..Len(frames)), NEW sent,
         InOrder(buf, done, q)
  PROVE  LET more == buf \o SubSeq(Wire, q + 1, q + a) IN
         /\ more \in Buffers
         /\ InOrder(more, done, q + n)
         /\ Aligned(buf, done, sent, q) => Aligned(more, done, sent, q + a)
         /\ \A k \in Nat : Frozen(buf, done, sent, q, k) => Frozen(more, done, sent, q + n, k)
<1> DEFINE new == SubSeq(Wire, q + 1, q + a)
           more == buf \o new
<1>1. /\ Len(Wire) \in Nat /\ q \in Nat /\ a \in Nat /\ a <= n /\ q <= Len(Wire)
      /\ Len(buf) \in Nat /\ DOMAIN buf = 1..Len(buf) /\ buf \in Seq(ToSet(Wire))
  BY WireTyped DEF Buffers
<1>2. /\ new \in Seq(ToSet(Wire))
      /\ Len(new) = a
      /\ \A i \in 1..a : new[i] = Wire[q + i]
  <2> DEFINE X == ToSet(Wire)
  <2>1. Wire \in Seq(X)
    <3>1. Wire \in Seq(Byte)
      BY WireTyped
    <3>2. \A i \in 1..Len(Wire) : Wire[i] \in X
      BY <3>1 DEF ToSet
    <3> HIDE DEF X
    <3> QED BY <3>1, <3>2
  <2> HIDE DEF X
  <2>2. new \in Seq(X) /\ Len(new) = a /\ \A i \in 1..a : new[i] = Wire[q + i]
    BY <1>1, <2>1
  <2> QED BY <2>2 DEF X
<1> HIDE DEF new
<1>3. /\ more \in Buffers
      /\ Len(more) = Len(buf) + a
      /\ DOMAIN more = 1..Len(buf) + a
      /\ \A i \in 1..Len(buf) : more[i] = buf[i]
      /\ \A i \in 1..a : more[Len(buf) + i] = Wire[q + i]
  <2>1. more \in Buffers /\ Len(more) = Len(buf) + a /\ DOMAIN more = 1..Len(buf) + a
    <3> DEFINE X == ToSet(Wire)
    <3> HIDE DEF X
    <3>1. buf \in Seq(X) /\ new \in Seq(X)
      BY <1>1, <1>2 DEF X
    <3>2. more \in Seq(X) /\ Len(more) = Len(buf) + a
      <4>1. Len(new) = a
        BY <1>2
      <4>2. buf \o new \in Seq(X) /\ Len(buf \o new) = Len(buf) + a
        BY <3>1, <4>1, ConcatProperties
      <4> QED BY <4>2
    <3>3. DOMAIN more = 1..Len(buf) + a
      BY <3>2
    <3> QED BY <3>2, <3>3 DEF Buffers, X
  <2>2. \A i \in 1..Len(buf) : more[i] = buf[i]
    BY <1>1, <1>2
  <2>3. \A i \in 1..a : more[Len(buf) + i] = new[i]
    BY <1>1, <1>2
  <2> QED BY <1>2, <2>1, <2>2, <2>3
<1> HIDE DEF more
<1>4. ASSUME NEW i \in DOMAIN more
      PROVE  \/ i \in DOMAIN buf /\ more[i] = buf[i]
             \/ /\ i > Len(buf) /\ q + (i - Len(buf)) \in q + 1..q + a
                /\ more[i] = Wire[q + (i - Len(buf))]
  <2>1. CASE i <= Len(buf)
    BY <1>1, <1>3, <2>1
  <2>2. CASE i > Len(buf)
    <3> DEFINE j == i - Len(buf)
    <3>1. j \in 1..a /\ Len(buf) + j = i
      BY <1>1, <1>3, <2>2
    <3> HIDE DEF j
    <3>2. more[i] = Wire[q + j] /\ q + j \in q + 1..q + a
      BY <1>1, <1>3, <3>1
    <3> QED BY <2>2, <3>2 DEF j
  <2> QED BY <1>1, <1>3, <2>1, <2>2
<1>5. ASSUME NEW i \in DOMAIN more, NEW j \in DOMAIN more, i < j
      PROVE  Before(more[i], more[j])
  <2>1. CASE i \in DOMAIN buf /\ more[i] = buf[i] /\ j \in DOMAIN buf /\ more[j] = buf[j]
    BY <1>5, <2>1 DEF InOrder
  <2>2. CASE /\ i \in DOMAIN buf /\ more[i] = buf[i]
             /\ q + (j - Len(buf)) \in q + 1..q + a /\ more[j] = Wire[q + (j - Len(buf))]
    <3> DEFINE p == q + (j - Len(buf))
    <3>1. p \in q + 1..Len(Wire)
      BY <1>1, <2>2
    <3> HIDE DEF p
    <3>2. Before(buf[i], Wire[p])
      BY <2>2, <3>1 DEF InOrder
    <3> QED BY <2>2, <3>2 DEF p
  <2>3. CASE /\ q + (i - Len(buf)) \in q + 1..q + a /\ more[i] = Wire[q + (i - Len(buf))]
             /\ q + (j - Len(buf)) \in q + 1..q + a /\ more[j] = Wire[q + (j - Len(buf))]
    <3> DEFINE p == q + (i - Len(buf))
               o == q + (j - Len(buf))
    <3>1. p \in 1..Len(Wire) /\ o \in 1..Len(Wire) /\ p < o
      <4>1. i \in 1..Len(buf) + a /\ j \in 1..Len(buf) + a
        BY <1>3
      <4>2. p \in q + 1..q + a /\ o \in q + 1..q + a
        BY <2>3
      <4> QED BY <1>1, <1>5, <4>1, <4>2
    <3> HIDE DEF p, o
    <3>2. Before(Wire[p], Wire[o])
      BY <3>1, WireOrdered
    <3> QED BY <2>3, <3>2 DEF p, o
  <2>4. i > Len(buf) => j \notin DOMAIN buf
    BY <1>1, <1>3, <1>5
  <2> QED BY <1>4, <2>1, <2>2, <2>3, <2>4
<1>6. ASSUME NEW i \in DOMAIN more, NEW p \in q + n + 1..Len(Wire)
      PROVE  Before(more[i], Wire[p])
  <2>0. p \in q + 1..Len(Wire) /\ p \in 1..Len(Wire)
    BY <1>1
  <2>1. CASE i \in DOMAIN buf /\ more[i] = buf[i]
    BY <2>0, <2>1 DEF InOrder
  <2>2. CASE q + (i - Len(buf)) \in q + 1..q + a /\ more[i] = Wire[q + (i - Len(buf))]
    <3> DEFINE o == q + (i - Len(buf))
    <3>1. o \in 1..Len(Wire) /\ o < p
      BY <1>1, <1>3, <2>2
    <3> HIDE DEF o
    <3>2. Before(Wire[o], Wire[p])
      BY <2>0, <3>1, WireOrdered
    <3> QED BY <2>2, <3>2 DEF o
  <2> QED BY <1>4, <2>1, <2>2
<1>7. ASSUME NEW d \in DOMAIN done, NEW i \in DOMAIN more PROVE done[d] < more[i][1]
  <2>1. CASE i \in DOMAIN buf /\ more[i] = buf[i]
    BY <2>1 DEF InOrder
  <2>2. CASE q + (i - Len(buf)) \in q + 1..q + a /\ more[i] = Wire[q + (i - Len(buf))]
    <3> DEFINE o == q + (i - Len(buf))
    <3>1. o \in q + 1..Len(Wire)
      BY <1>1, <2>2
    <3> HIDE DEF o
    <3>2. done[d] < Wire[o][1]
      BY <3>1 DEF InOrder
    <3> QED BY <2>2, <3>2 DEF o
  <2> QED BY <1>4, <2>1, <2>2
<1>8. ASSUME NEW d \in DOMAIN done, NEW p \in q + n + 1..Len(Wire) PROVE done[d] < Wire[p][1]
  <2>1. p \in q + 1..Len(Wire)
    BY <1>1
  <2> QED BY <2>1 DEF InOrder
<1>9. InOrder(more, done, q + n)
  BY <1>5, <1>6, <1>7, <1>8 DEF InOrder
<1>10. ASSUME Aligned(buf, done, sent, q) PROVE Aligned(more, done, sent, q + a)
  <2> DEFINE e == Ends(Len(done))
  <2>1. /\ e \in Nat /\ e <= q /\ Len(buf) = q - e
        /\ \A i \in 1..Len(buf) : buf[i] = Wire[e + i]
    <3>1. e \in Nat
      BY <1>10, AlignedHead
    <3> QED BY <1>10, <3>1 DEF Aligned
  <2> HIDE DEF e
  <2>2. e <= q + a /\ Len(more) = q + a - e
    BY <1>1, <1>3, <2>1
  <2>3. ASSUME NEW i \in 1..Len(more) PROVE more[i] = Wire[e + i]
    <3>1. i \in DOMAIN more /\ e + i = q + (i - Len(buf))
      BY <1>1, <1>3, <2>1
    <3>2. DOMAIN buf = 1..Len(buf)
      BY <1>1
    <3> QED BY <1>4, <2>1, <3>1, <3>2
  <2>4. /\ Len(done) <= Len(frames) /\ Len(sent) = Len(done)
        /\ \A i \in 1..Len(done) : done[i] = i /\ sent[i] = i
    BY <1>10 DEF Aligned
  <2>5. \A i \in 1..Len(more) : more[i] = Wire[e + i]
    BY <2>3
  <2>6. /\ Ends(Len(done)) <= q + a
        /\ Len(more) = (q + a) - Ends(Len(done))
    <3>1. e <= q + a /\ Len(more) = (q + a) - e
      BY <1>1, <2>1, <2>2
    <3> QED BY <3>1 DEF e
  <2>7. \A i \in 1..Len(more) : more[i] = Wire[Ends(Len(done)) + i]
    BY <2>5 DEF e
  <2> HIDE DEF e
  <2> QED BY <2>4, <2>6, <2>7 DEF Aligned
<1>11. ASSUME NEW k \in Nat, Frozen(buf, done, sent, q, k) PROVE Frozen(more, done, sent, q + n, k)
  <2>1. ASSUME NEW p \in 1..q, \A i \in DOMAIN buf : buf[i] # Wire[p],
               NEW i \in DOMAIN more
        PROVE  more[i] # Wire[p] /\ p \in 1..q + n
    <3>0. p \in 1..q + n
      BY <1>1
    <3>1. CASE i \in DOMAIN buf /\ more[i] = buf[i]
      BY <2>1, <3>0, <3>1
    <3>2. CASE q + (i - Len(buf)) \in q + 1..q + a /\ more[i] = Wire[q + (i - Len(buf))]
      <4> DEFINE o == q + (i - Len(buf))
      <4>1. o \in 1..Len(Wire) /\ p \in 1..Len(Wire) /\ p < o
        BY <1>1, <1>3, <3>2
      <4> HIDE DEF o
      <4>2. Before(Wire[p], Wire[o])
        BY <4>1, WireOrdered
      <4>3. Wire[p][1] \in Nat /\ Wire[p][2] \in Nat
        <5>1. Wire[p] \in Byte
          BY <4>1, WireTyped
        <5> QED BY <5>1 DEF Byte
      <4>4. Wire[o] # Wire[p]
        BY <4>2, <4>3 DEF Before
      <4> QED BY <3>0, <3>2, <4>4 DEF o
    <3> QED BY <1>4, <3>1, <3>2
  <2>2. ASSUME Damaged(buf, q, k + 1) PROVE Damaged(more, q + n, k + 1)
    <3>1. CASE ~WellFormed(frames[k + 1])
      BY <2>2, <3>1 DEF Damaged
    <3>2. CASE \E p \in 1..q : Wire[p][1] = k + 1 /\ \A i \in DOMAIN buf : buf[i] # Wire[p]
      <4>1. PICK p \in 1..q : Wire[p][1] = k + 1 /\ \A i \in DOMAIN buf : buf[i] # Wire[p]
        BY <3>2
      <4>2. p \in 1..q + n
        BY <1>1
      <4>3. \A i \in DOMAIN more : more[i] # Wire[p]
        BY <2>1, <4>1
      <4> QED BY <2>2, <4>1, <4>2, <4>3 DEF Damaged
    <3> QED BY <2>2, <3>1, <3>2 DEF Damaged
  <2> QED BY <1>11, <2>2 DEF Frozen
<1> QED BY <1>3, <1>9, <1>10, <1>11 DEF more, new

-------------------------------------------------------------------------------
\* The part of a pbuf that fits is the front of it.
LEMMA PieceOfWire ==
  ASSUME frames \in Seq(Frame), NEW q \in 0..Len(Wire), NEW n \in Nat, q + n <= Len(Wire),
         NEW room \in Int, room < n
  PROVE  SubSeq(SubSeq(Wire, q + 1, q + n), 1, room)
           = SubSeq(Wire, q + 1, q + (IF room > 0 THEN room ELSE 0))
<1>1. Wire \in Seq(Byte) /\ Len(Wire) \in Nat
  BY WireTyped
<1>2. CASE room > 0
  <2>1. SubSeq(Wire, q + 1, q + n) = [i \in 1..n |-> Wire[q + i]]
    BY <1>1
  <2>2. SubSeq(Wire, q + 1, q + n) \in Seq(Byte) /\ Len(SubSeq(Wire, q + 1, q + n)) = n
    BY <1>1
  <2> DEFINE b == SubSeq(Wire, q + 1, q + n)
  <2> HIDE DEF b
  <2>3. SubSeq(b, 1, room) = [i \in 1..room |-> b[i]]
    BY <2>2, <1>2 DEF b
  <2>4. \A i \in 1..room : b[i] = Wire[q + i]
    BY <2>1, <1>2 DEF b
  <2>5. SubSeq(Wire, q + 1, q + room) = [i \in 1..room |-> Wire[q + i]]
    BY <1>1, <1>2
  <2> QED BY <1>2, <2>3, <2>4, <2>5 DEF b
<1>3. CASE ~(room > 0)
  <2>1. SubSeq(SubSeq(Wire, q + 1, q + n), 1, room) = <<>>
    BY <1>3, SubSeqEmpty
  <2>2. SubSeq(Wire, q + 1, q + 0) = <<>>
    <3>1. q + 1 \in Int /\ q + 0 \in Int /\ q + 0 < q + 1
      BY <1>1
    <3> QED BY <3>1, SubSeqEmpty
  <2> QED BY <1>3, <2>1, <2>2
<1> QED BY <1>2, <1>3

\* One receive callback: what remains of the stream is sane, the service goes on or ends,
\* and once ended it is not resumed.
LEMMA RecvStep ==
  ASSUME IInv, NEW n \in Brought, NEW fits, Recv(n, fits)
  PROVE  /\ Sane(rx', executed', answered', delivered', why')
         /\ why = "open" =>
              \/ why' = "open" /\ Len(executed) <= Len(executed')
              \/ /\ why' # "open"
                 /\ \E k \in Nat : /\ Len(executed) <= k
                                   /\ Frozen(rx', executed', answered', delivered', k)
         /\ why # "open" =>
              /\ why' # "open"
              /\ \A k \in Nat : Frozen(rx, executed, answered, delivered, k) =>
                                  /\ Frozen(rx', executed', answered', delivered', k)
                                  /\ CleanOf(executed', k) = CleanOf(executed, k)
<1> DEFINE q == delivered + n
           room == Capacity - Len(rx)
           cut == n > room
           part == IF cut THEN SubSeq(Arriving(n), 1, room) ELSE Arriving(n)
           a == IF cut THEN (IF room > 0 THEN room ELSE 0) ELSE n
           s == [buf |-> rx \o part, done |-> executed, sent |-> answered, fits |-> fits,
                 end |-> IF cut THEN Noted(why, "truncated") ELSE why]
           r == Drain(s)
<1>1. /\ frames \in Seq(Frame) /\ mode \in {"remote", "tls", "lan"}
      /\ delivered \in 0..Len(Wire) /\ Len(Wire) \in Nat
      /\ rx \in Buffers
      /\ executed \in Seq(0..Len(frames))
      /\ answered \in Seq(0..Len(frames)) /\ Len(answered) <= Len(executed)
      /\ why \in {"open"} \cup Trouble
      /\ why # "open" => mode # "remote"
      /\ InOrder(rx, executed, delivered) /\ Proper(executed)
      /\ mode = "remote" => InTurnOnly(executed)
      /\ Len(rx) \in Nat /\ Len(rx) < Hdr + PktSize
  <2>1. frames \in Seq(Frame) /\ rx \in Buffers /\ Parse(rx) = 0
    BY DEF IInv, Sane
  <2>2. Len(rx) \in Nat /\ Len(rx) < Hdr + PktSize
    BY <2>1, ShortBuffer
  <2>3. Live
    BY DEF Recv
  <2>4. why \in {"open"} \cup Trouble
    BY <2>3 DEF IInv, Sane, Live, Closed
  <2>5. why # "open" => mode # "remote"
    BY <2>3 DEF IInv, Sane, Live
  <2> QED BY <2>1, <2>2, <2>4, <2>5, WireTyped DEF IInv, Sane
<1>2. n \in Nat /\ n > 0 /\ n <= Wnd /\ delivered + n <= Len(Wire) /\ delivered \in Nat
  BY <1>1, BroughtIs
<1>3. room \in Int /\ (cut => mode = "lan")
  <2>1. Hdr \in Nat /\ PktSize \in Nat /\ Wnd \in Nat /\ Hdr + PktSize - 1 + Wnd <= MsgBuf
    BY StreamAssumption
  <2>2. MsgBuf \in Nat
    BY <2>1 DEF MsgBuf
  <2> QED BY <1>1, <1>2, <2>1, <2>2 DEF Capacity
<1> HIDE DEF room
<1>4. /\ a \in 0..n
      /\ cut => a < n
      /\ ~cut => a = n
      /\ part = SubSeq(Wire, delivered + 1, delivered + a)
  <2>1. cut => part = SubSeq(Wire, delivered + 1, delivered + (IF room > 0 THEN room ELSE 0))
    BY <1>1, <1>2, <1>3, PieceOfWire DEF Arriving
  <2>2. a \in 0..n /\ (cut => a < n) /\ (~cut => a = n)
    BY <1>2, <1>3
  <2> QED BY <2>1, <2>2 DEF Arriving
<1>5. /\ q \in 0..Len(Wire) /\ delivered + a \in 0..Len(Wire)
      /\ cut => delivered + a < q
      /\ ~cut => delivered + a = q
  <2> HIDE DEF a, part, cut
  <2> QED BY <1>1, <1>2, <1>4
<1> HIDE DEF a, part, q, cut
<1>6. q = delivered + n
  BY DEF q
<1>7. LET more == rx \o part IN
      /\ more \in Buffers
      /\ InOrder(more, executed, q)
      /\ Aligned(rx, executed, answered, delivered) => Aligned(more, executed, answered, delivered + a)
      /\ \A k \in Nat : Frozen(rx, executed, answered, delivered, k)
                          => Frozen(more, executed, answered, q, k)
  BY <1>1, <1>2, <1>4, <1>6, MoreDelivered
<1>8. s.end \in {"open"} \cup Trouble
  BY <1>1 DEF Noted, Trouble
<1>9. s \in LoopStates(fits) /\ Sound(s, q)
  <2>1. s \in LoopStates(fits)
    BY <1>1, <1>7, <1>8 DEF LoopStates
  <2>2. s.end \notin Closed
    BY <1>8 DEF Trouble, Closed
  <2>3. mode = "remote" => s.end = "open"
    BY <1>1, <1>3
  <2> QED BY <1>1, <1>7, <2>1, <2>2, <2>3 DEF Sound
<1>10. /\ delivered' = q
       /\ rx' = r.buf /\ why' = r.end /\ executed' = r.done /\ answered' = r.sent
  <2>1. ~(cut /\ mode # "lan")
    BY <1>3
  <2> QED BY <2>1 DEF Recv, part, room, cut, q
<1>11. CASE why = "open"
  <2>1. Aligned(s.buf, s.done, s.sent, delivered + a)
    BY <1>7, <1>11 DEF IInv, Sane
  <2>2. (s.end = "open" /\ delivered + a = q) \/ (s.end = "truncated" /\ delivered + a < q)
    BY <1>5, <1>11 DEF Noted
  <2>3. s.done = executed
    OBVIOUS
  <2> HIDE DEF s
  <2>4. /\ Sane(r.buf, r.done, r.sent, q, r.end)
        /\ \/ r.end = "open" /\ Len(s.done) <= Len(r.done)
           \/ /\ r.end # "open"
              /\ \E k \in Nat : Len(s.done) <= k /\ Frozen(r.buf, r.done, r.sent, q, k)
    BY <1>1, <1>5, <1>9, <2>1, <2>2, DrainServes
  <2> HIDE DEF r
  <2> QED BY <1>10, <1>11, <2>3, <2>4
<1>12. CASE why # "open"
  <2>1. \E k \in Nat : Frozen(rx, executed, answered, delivered, k)
    BY <1>1, <1>12 DEF IInv, Sane
  <2>2. mode # "remote" /\ s.end # "open"
    BY <1>1, <1>12 DEF Noted
  <2>3. ASSUME NEW k \in Nat, Frozen(rx, executed, answered, delivered, k)
        PROVE  /\ Sane(r.buf, r.done, r.sent, q, r.end)
               /\ r.end # "open" /\ Frozen(r.buf, r.done, r.sent, q, k)
               /\ CleanOf(r.done, k) = CleanOf(executed, k)
    <3>1. Frozen(s.buf, s.done, s.sent, q, k)
      BY <1>7, <2>3
    <3>2. s.done = executed
      OBVIOUS
    <3> HIDE DEF s
    <3> QED BY <1>1, <1>5, <1>9, <2>2, <3>1, <3>2, DrainStaysFrozen
  <2> HIDE DEF r, s
  <2> QED BY <1>10, <1>12, <2>1, <2>3
<1> QED BY <1>11, <1>12

-------------------------------------------------------------------------------
\* The same stream: what is said of the new buffer and history is the new statement.
LEMMA SaneAfter ==
  ASSUME frames' = frames, mode' = mode,
         Sane(rx', executed', answered', delivered', why')
  PROVE  Sane(rx, executed, answered, delivered, why)'
<1>1. Wire' = Wire /\ \A n : Ends(n)' = Ends(n)
  BY WireIsWireOf
<1>2. Buffers' = Buffers
  BY <1>1 DEF Buffers
<1>3. \A f : WellFormed(f)' = WellFormed(f)
  BY DEF WellFormed
<1>4. Parse(rx)' = 0
  <2>1. Parse(rx') = 0
    BY DEF Sane
  <2> QED BY <2>1, <1>3 DEF Parse, HeaderAt, Bytes
<1>5. InOrder(rx, executed, delivered)'
  <2>1. InOrder(rx', executed', delivered')
    BY DEF Sane
  <2> QED BY <2>1, <1>1 DEF InOrder, Before
<1>6. Proper(executed)'
  <2>1. Proper(executed')
    BY DEF Sane
  <2> QED BY <2>1, <1>3 DEF Proper
<1>7. why' = "open" => Aligned(rx, executed, answered, delivered)'
  <2>1. why' = "open" => Aligned(rx', executed', answered', delivered')
    BY DEF Sane
  <2> QED BY <2>1, <1>1 DEF Aligned
<1>8. \A k : Frozen(rx', executed', answered', delivered', k)
               => Frozen(rx, executed, answered, delivered, k)'
  BY <1>1, <1>3 DEF Frozen, Turn, Damaged
<1>9. why' \in Trouble => \E k \in Nat : Frozen(rx, executed, answered, delivered, k)'
  <2>1. why' \in Trouble => \E k \in Nat : Frozen(rx', executed', answered', delivered', k)
    BY DEF Sane
  <2> QED BY <2>1, <1>8
<1> HIDE DEF Trouble
<1> QED BY <1>1, <1>2, <1>4, <1>5, <1>6, <1>7, <1>9 DEF Sane, InTurnOnly, Trouble, Closed

\* A new connection is sane.
LEMMA InitSane == Init => IInv
<1> SUFFICES ASSUME Init PROVE IInv
  OBVIOUS
<1>1. frames \in Seq(Frame) /\ Len(frames) = 0 /\ Len(frames) <= MaxFrames
  BY StreamAssumption DEF Init
<1>2. /\ Hdr \in Nat /\ Hdr > 0 /\ Len(Wire) \in Nat /\ Ends(0) = 0
      /\ rx = <<>> /\ Len(rx) = 0 /\ executed = <<>> /\ answered = <<>>
      /\ Len(executed) = 0 /\ delivered = 0 /\ why = "open"
  BY <1>1, WireTyped, StreamAssumption DEF Init
<1>3. rx \in Buffers /\ executed \in Seq(0..Len(frames)) /\ answered \in Seq(0..Len(frames))
  BY <1>2 DEF Buffers
<1>4. Parse(rx) = 0
  BY <1>2 DEF Parse
<1>5. InOrder(rx, executed, delivered) /\ Proper(executed) /\ InTurnOnly(executed)
  BY <1>2 DEF InOrder, Proper, InTurnOnly
<1>6. Aligned(rx, executed, answered, delivered)
  BY <1>1, <1>2 DEF Aligned
<1> QED BY <1>1, <1>2, <1>3, <1>4, <1>5, <1>6 DEF IInv, Sane, Init, Trouble

\* Writing a frame changes nothing of what has been delivered.
LEMMA ClientSendSane ==
  ASSUME IInv, ClientSend
  PROVE  /\ IInv'
         /\ \A k \in Nat : Frozen(rx, executed, answered, delivered, k)
                             => Frozen(rx, executed, answered, delivered, k)'
<1> DEFINE N == Len(frames)
<1>0. /\ frames \in Seq(Frame) /\ N <= MaxFrames /\ mode \in {"remote", "tls", "lan"}
      /\ delivered \in 0..Len(Wire) /\ rx \in Buffers
      /\ executed \in Seq(0..N) /\ answered \in Seq(0..N) /\ Len(answered) <= Len(executed)
      /\ Parse(rx) = 0 /\ InOrder(rx, executed, delivered) /\ Proper(executed)
  BY DEF IInv, Sane
<1>1. PICK f \in Frame : frames' = Append(frames, f)
  BY DEF ClientSend
<1>2. /\ mode' = mode /\ delivered' = delivered /\ rx' = rx /\ executed' = executed
      /\ answered' = answered /\ why' = why /\ N < MaxFrames
  BY DEF ClientSend
<1>3. /\ frames' \in Seq(Frame)
      /\ Len(frames') = N + 1
      /\ \A n \in 1..N : frames'[n] = frames[n]
      /\ \A n \in 0..N : Ends(n)' = Ends(n)
      /\ Len(Wire') \in Nat
      /\ Len(Wire) <= Len(Wire')
      /\ \A p \in 1..Len(Wire) : Wire'[p] = Wire[p]
      /\ \A p \in Len(Wire) + 1..Len(Wire') : Wire'[p][1] = N + 1
  BY <1>0, <1>1, WireGrows
<1>4. /\ N \in Nat /\ Len(Wire) \in Nat /\ delivered \in Nat /\ delivered <= Len(Wire)
      /\ MaxFrames \in Nat
      /\ DOMAIN rx = 1..Len(rx) /\ Len(rx) \in Nat
      /\ DOMAIN executed = 1..Len(executed) /\ Len(executed) \in Nat
      /\ \A d \in DOMAIN executed : executed[d] \in 0..N
  <2>1. N \in Nat /\ Len(Wire) \in Nat /\ MaxFrames \in Nat
    BY <1>0, WireTyped, StreamAssumption
  <2>2. DOMAIN rx = 1..Len(rx) /\ Len(rx) \in Nat
    BY <1>0 DEF Buffers
  <2>3. /\ DOMAIN executed = 1..Len(executed) /\ Len(executed) \in Nat
        /\ \A d \in DOMAIN executed : executed[d] \in 0..N
    BY <1>0
  <2>4. delivered \in Nat /\ delivered <= Len(Wire)
    BY <1>0, <2>1
  <2> QED BY <2>1, <2>2, <2>3, <2>4
<1>5. \A i \in DOMAIN rx : rx[i] \in ToSet(Wire) /\ rx[i][1] \in 1..N
  <2> SUFFICES ASSUME NEW i \in DOMAIN rx PROVE rx[i] \in ToSet(Wire) /\ rx[i][1] \in 1..N
    OBVIOUS
  <2>1. rx[i] \in ToSet(Wire)
    BY <1>0 DEF Buffers
  <2> QED BY <1>0, <2>1, WireByteTyped
<1> HIDE DEF N
<1>6. \A g : WellFormed(g)' = WellFormed(g)
  BY <1>2 DEF WellFormed
<1>7. delivered' \in 0..Len(Wire')
  BY <1>2, <1>3, <1>4
<1>8. rx' \in Buffers'
  <2>1. ToSet(Wire) \subseteq ToSet(Wire')
    <3> SUFFICES ASSUME NEW p \in 1..Len(Wire) PROVE Wire[p] \in ToSet(Wire')
      BY <1>0, WireTyped DEF ToSet
    <3>1. p \in DOMAIN Wire'
      <4>1. Wire' \in Seq(Byte)
        BY <1>3, WireIsWireOf, EndsAdd
      <4> QED BY <4>1, <1>3, <1>4
    <3> QED BY <3>1, <1>3 DEF ToSet
  <2> QED BY <1>0, <1>2, <2>1, SeqMonotonic DEF Buffers
<1>9. executed' \in Seq(0..Len(frames')) /\ answered' \in Seq(0..Len(frames'))
  <2>1. 0..N \subseteq 0..Len(frames')
    BY <1>3, <1>4
  <2>2. executed \in Seq(0..N) /\ answered \in Seq(0..N)
    BY <1>0 DEF N
  <2> QED BY <1>2, <2>1, <2>2, SeqMonotonic
<1>10. Parse(rx)' = 0
  <2>1. CASE Len(rx) < Hdr
    BY <2>1, <1>2 DEF Parse
  <2>2. CASE ~(Len(rx) < Hdr)
    <3> DEFINE n == rx[1][1]
    <3>1. n \in 1..N
      <4>1. Hdr \in Nat /\ Hdr > 0
        BY StreamAssumption
      <4> QED BY <1>4, <1>5, <2>2, <4>1
    <3>2. frames'[n] = frames[n]
      BY <1>3, <3>1
    <3>3. Parse(rx) = 0
      BY <1>0
    <3>4. HeaderAt(rx)' = HeaderAt(rx)
      BY <1>2, <3>2 DEF HeaderAt, Bytes
    <3> QED BY <2>2, <3>3, <3>4, <1>2, <1>6 DEF Parse
  <2> QED BY <2>1, <2>2
<1>11. ASSUME NEW p \in delivered + 1..Len(Wire')
       PROVE  \/ p \in delivered + 1..Len(Wire) /\ Wire'[p] = Wire[p]
              \/ Wire'[p][1] = N + 1
  <2>1. CASE p <= Len(Wire)
    BY <1>3, <1>4, <2>1
  <2>2. CASE p > Len(Wire)
    BY <1>3, <1>4, <2>2
  <2> QED BY <1>4, <2>1, <2>2
<1>12. InOrder(rx, executed, delivered)'
  <2>1. ASSUME NEW i \in DOMAIN rx, NEW p \in delivered + 1..Len(Wire')
        PROVE  Before(rx[i], Wire'[p])
    <3>1. rx[i][1] < N + 1
      BY <1>4, <1>5
    <3> QED BY <1>0, <1>11, <3>1 DEF InOrder, Before
  <2>2. ASSUME NEW d \in DOMAIN executed, NEW p \in delivered + 1..Len(Wire')
        PROVE  executed[d] < Wire'[p][1]
    <3>1. executed[d] < N + 1
      BY <1>4
    <3> QED BY <1>0, <1>11, <3>1 DEF InOrder
  <2>3. /\ \A i, j \in DOMAIN rx : i < j => Before(rx[i], rx[j])
        /\ \A d \in DOMAIN executed : \A i \in DOMAIN rx : executed[d] < rx[i][1]
    BY <1>0 DEF InOrder
  <2> QED BY <1>2, <2>1, <2>2, <2>3 DEF InOrder, Before
<1>13. Proper(executed)'
  <2>1. \A i \in DOMAIN executed : executed[i] # 0 => frames'[executed[i]] = frames[executed[i]]
    BY <1>3, <1>4
  <2> QED BY <1>0, <1>2, <1>6, <2>1 DEF Proper
<1>14. ASSUME why = "open" PROVE Aligned(rx, executed, answered, delivered)'
  <2>1. Aligned(rx, executed, answered, delivered)
    BY <1>14 DEF IInv, Sane
  <2> DEFINE e == Ends(Len(executed))
  <2>2. Len(executed) \in 0..N /\ e \in Nat
    BY <1>0, <2>1, AlignedHead DEF N
  <2>3. Ends(Len(executed))' = e
    BY <1>2, <1>3, <2>2
  <2>4. e <= delivered /\ Len(rx) = delivered - e /\ \A i \in 1..Len(rx) : rx[i] = Wire[e + i]
    BY <2>1 DEF Aligned
  <2> HIDE DEF e
  <2>5. ASSUME NEW i \in 1..Len(rx) PROVE rx[i] = Wire'[e + i]
    <3>1. e + i \in 1..Len(Wire)
      BY <1>4, <2>2, <2>4
    <3> QED BY <1>3, <2>4, <3>1
  <2>6. Len(executed) <= Len(frames')
    BY <1>3, <1>4, <2>2
  <2>7. /\ Len(answered) = Len(executed)
        /\ \A i \in 1..Len(executed) : executed[i] = i /\ answered[i] = i
    BY <2>1 DEF Aligned
  <2> QED BY <1>2, <2>3, <2>4, <2>5, <2>6, <2>7 DEF Aligned
<1>15. ASSUME NEW k \in Nat, Frozen(rx, executed, answered, delivered, k)
       PROVE  Frozen(rx, executed, answered, delivered, k)'
  <2>1. Turn(executed, answered, k)'
    BY <1>2, <1>15 DEF Frozen, Turn
  <2>2. ASSUME Damaged(rx, delivered, k + 1) PROVE Damaged(rx, delivered, k + 1)'
    <3>1. k + 1 \in 1..N /\ k + 1 \in 1..Len(frames')
      BY <1>3, <1>4, <2>2 DEF Damaged, N
    <3>2. frames'[k + 1] = frames[k + 1]
      BY <1>3, <3>1
    <3>3. \A p \in 1..delivered : Wire'[p] = Wire[p]
      BY <1>3, <1>4
    <3> QED BY <1>2, <1>6, <2>2, <3>1, <3>2, <3>3 DEF Damaged
  <2> QED BY <1>2, <1>15, <2>1, <2>2 DEF Frozen
<1>16. Sane(rx, executed, answered, delivered, why)'
  <2>1. why \in Trouble => \E k \in Nat : Frozen(rx, executed, answered, delivered, k)'
    <3> HIDE DEF Trouble
    <3> QED BY <1>15 DEF IInv, Sane
  <2>2. /\ why \in {"open", "header", "send", "peer"} \cup Trouble
        /\ mode = "remote" => InTurnOnly(executed) /\ why \in {"open"} \cup Closed
    BY DEF IInv, Sane
  <2> QED BY <1>0, <1>2, <1>7, <1>8, <1>9, <1>10, <1>12, <1>13, <1>14, <2>1, <2>2
          DEF Sane, InTurnOnly, Trouble, Closed
<1>17. Len(frames') <= MaxFrames
  BY <1>2, <1>3, <1>4
<1> QED BY <1>0, <1>2, <1>3, <1>15, <1>16, <1>17 DEF IInv

\* The end of the connection leaves an empty buffer and the histories.
LEMMA PeerGoneSane ==
  ASSUME IInv, PeerGone
  PROVE  IInv'
<1>1. /\ frames' = frames /\ mode' = mode /\ delivered' = delivered /\ rx' = <<>>
      /\ executed' = executed /\ answered' = answered /\ why' = "peer"
  BY DEF PeerGone
<1>2. Parse(<<>>) = 0
  BY StreamAssumption DEF Parse
<1>3. <<>> \in Buffers
  BY DEF Buffers
<1>4. InOrder(<<>>, executed, delivered)
  BY EmptyInOrder DEF IInv, Sane
<1>5. Sane(<<>>, executed, answered, delivered, "peer")
  BY <1>2, <1>3, <1>4 DEF IInv, Sane, Trouble, Closed
<1>6. Sane(rx, executed, answered, delivered, why)'
  BY <1>1, <1>5, SaneAfter
<1> QED BY <1>1, <1>6 DEF IInv

\* Dropped bytes end the service: the next frame in turn is one of them, or behind them.
LEMMA DropDecryptedSane ==
  ASSUME IInv, DropDecrypted
  PROVE  /\ IInv'
         /\ why' # "open"
         /\ why = "open" => Frozen(rx, executed, answered, delivered, Len(executed))'
         /\ \A k \in Nat : why # "open" /\ Frozen(rx, executed, answered, delivered, k)
                             => Frozen(rx, executed, answered, delivered, k)'
<1>1. PICK n \in Brought : delivered' = delivered + n
  BY DEF DropDecrypted
<1>2. /\ frames' = frames /\ mode' = mode /\ rx' = rx /\ executed' = executed
      /\ answered' = answered /\ mode = "tls" /\ why' = Noted(why, "hole") /\ Live
  BY DEF DropDecrypted
<1>3. /\ frames \in Seq(Frame) /\ delivered \in 0..Len(Wire) /\ rx \in Buffers
      /\ executed \in Seq(0..Len(frames)) /\ answered \in Seq(0..Len(frames))
      /\ Len(answered) <= Len(executed) /\ Parse(rx) = 0
      /\ InOrder(rx, executed, delivered) /\ Proper(executed)
      /\ why \in {"open"} \cup Trouble
  BY <1>2 DEF IInv, Sane, Live, Closed
<1> DEFINE q == delivered + n
<1>4. /\ q \in 0..Len(Wire) /\ delivered < q /\ delivered \in Nat
      /\ q + 1..Len(Wire) \subseteq delivered + 1..Len(Wire)
      /\ 1..delivered \subseteq 1..q
  <2>1. n \in Nat /\ n > 0 /\ delivered + n <= Len(Wire) /\ Len(Wire) \in Nat
    BY <1>3, BroughtIs, WireTyped
  <2> QED BY <1>3, <2>1
<1> HIDE DEF q
<1>5. InOrder(rx, executed, q)
  BY <1>3, <1>4 DEF InOrder
<1>6. ASSUME NEW k \in Nat, Frozen(rx, executed, answered, delivered, k)
      PROVE  Frozen(rx, executed, answered, q, k)
  <2>1. ASSUME Damaged(rx, delivered, k + 1) PROVE Damaged(rx, q, k + 1)
    BY <1>4, <2>1 DEF Damaged
  <2> QED BY <1>6, <2>1 DEF Frozen
<1>7. ASSUME why = "open" PROVE Frozen(rx, executed, answered, q, Len(executed))
  <2>1. Aligned(rx, executed, answered, delivered)
    BY <1>7 DEF IInv, Sane
  <2> QED BY <1>3, <1>4, <2>1, CutShort
<1>8. why' \in Trouble /\ why' # "open"
  BY <1>2, <1>3 DEF Noted, Trouble
<1>9. \E k \in Nat : Frozen(rx, executed, answered, q, k)
  <2>1. CASE why = "open"
    <3>1. Len(executed) \in Nat
      BY <1>3
    <3> QED BY <2>1, <3>1, <1>7
  <2>2. CASE why # "open"
    <3>1. \E k \in Nat : Frozen(rx, executed, answered, delivered, k)
      BY <1>3, <2>2 DEF IInv, Sane
    <3> QED BY <3>1, <1>6
  <2> QED BY <2>1, <2>2
<1>10. Sane(rx, executed, answered, q, why')
  BY <1>2, <1>3, <1>4, <1>5, <1>8, <1>9 DEF Sane
<1>11. Sane(rx, executed, answered, delivered, why)'
  BY <1>1, <1>2, <1>10, SaneAfter DEF q
<1>12. \A k : Frozen(rx, executed, answered, q, k)
                => Frozen(rx, executed, answered, delivered, k)'
  <2>1. Wire' = Wire
    BY <1>2, WireIsWireOf
  <2>2. \A f : WellFormed(f)' = WellFormed(f)
    BY <1>2 DEF WellFormed
  <2> QED BY <1>1, <1>2, <2>1, <2>2 DEF Frozen, Turn, Damaged, q
<1>13. IInv'
  BY <1>2, <1>11 DEF IInv
<1> QED BY <1>2, <1>6, <1>7, <1>8, <1>12, <1>13

\* RecvStep, as a step of the invariant.
LEMMA RecvSomeSane ==
  ASSUME IInv, RecvSome
  PROVE  IInv'
<1>0. PICK n \in Brought : \E fits : Recv(n, fits)
  BY DEF RecvSome
<1>1. PICK fits : Recv(n, fits)
  BY <1>0
<1>2. Sane(rx', executed', answered', delivered', why')
  BY <1>1, RecvStep
<1>3. frames' = frames /\ mode' = mode
  BY <1>1 DEF Recv
<1>4. Sane(rx, executed, answered, delivered, why)'
  BY <1>2, <1>3, SaneAfter
<1> QED BY <1>3, <1>4 DEF IInv

\* What waits behind the handshake is not in the stream yet, and stuttering changes nothing.
LEMMA StutterSane ==
  ASSUME IInv, HeldBack \/ UNCHANGED vars
  PROVE  IInv'
<1>1. /\ frames' = frames /\ mode' = mode /\ delivered' = delivered /\ rx' = rx
      /\ executed' = executed /\ answered' = answered /\ why' = why
  BY DEF vars, HeldBack
<1>2. Sane(rx', executed', answered', delivered', why')
  BY <1>1 DEF IInv
<1>3. Sane(rx, executed, answered, delivered, why)'
  BY <1>1, <1>2, SaneAfter
<1> QED BY <1>1, <1>3 DEF IInv

\* The invariant holds in every reachable state, for any header and packet size, window,
\* record size and frame lengths that StreamAssumption allows: the receive callbacks
\* (tcp_conn_recv and its copies), whatever pieces TCP makes of the stream.
THEOREM Invariance == Spec => []IInv
<1>1. IInv /\ [Next]_vars => IInv'
  BY ClientSendSane, RecvSomeSane, DropDecryptedSane, PeerGoneSane, StutterSane DEF Next
<1> QED BY InitSane, <1>1, PTL DEF Spec

-------------------------------------------------------------------------------
\* What is held behind the handshake has been written, and nothing came before it.
HeldTyped == held \in 0..Len(Wire) /\ (held > 0 => mode = "tls" /\ delivered = 0)

\* It stays so, until the adapter reads.
LEMMA HeldStays == Spec => []HeldTyped
<1>1. Init => HeldTyped
  <2> SUFFICES ASSUME Init PROVE HeldTyped
    OBVIOUS
  <2>1. frames \in Seq(Frame)
    BY InitSane DEF IInv
  <2> QED BY <2>1, WireTyped DEF Init, HeldTyped
<1>2. IInv /\ HeldTyped /\ [Next]_vars => HeldTyped'
  <2> SUFFICES ASSUME IInv, HeldTyped, [Next]_vars PROVE HeldTyped'
    OBVIOUS
  <2>1. frames \in Seq(Frame) /\ Len(Wire) \in Nat
    BY WireTyped DEF IInv
  <2>2. CASE ClientSend
    <3>1. PICK f \in Frame : frames' = Append(frames, f)
      BY <2>2 DEF ClientSend
    <3>2. Len(Wire') \in Nat /\ Len(Wire) <= Len(Wire')
      BY <2>1, <3>1, WireGrows
    <3>3. held' = held /\ mode' = mode /\ delivered' = delivered
      BY <2>2 DEF ClientSend
    <3>4. held \in 0..Len(Wire')
      BY <2>1, <3>2 DEF HeldTyped
    <3> QED BY <3>3, <3>4 DEF HeldTyped
  <2>3. CASE HeldBack
    <3>1. /\ held' \in 1..Len(Wire) /\ mode' = "tls" /\ delivered' = 0
          /\ frames' = frames
      BY <2>3 DEF HeldBack
    <3>2. Wire' = Wire
      BY <3>1, WireIsWireOf
    <3> QED BY <2>1, <3>1, <3>2 DEF HeldTyped
  <2>4. CASE RecvSome \/ DropDecrypted
    <3>1. held' = 0 /\ frames' = frames
      BY <2>4 DEF RecvSome, Recv, DropDecrypted
    <3>2. Wire' = Wire
      BY <3>1, WireIsWireOf
    <3> QED BY <2>1, <3>1, <3>2 DEF HeldTyped
  <2>5. CASE PeerGone \/ UNCHANGED vars
    <3>1. held' = held /\ mode' = mode /\ delivered' = delivered /\ frames' = frames
      BY <2>5 DEF PeerGone, vars
    <3>2. Wire' = Wire
      BY <3>1, WireIsWireOf
    <3> QED BY <3>1, <3>2 DEF HeldTyped
  <2> QED BY <2>2, <2>3, <2>4, <2>5 DEF Next
<1> QED BY <1>1, <1>2, Invariance, PTL DEF Spec

\* The invariant bounds what waits in the buffer.
LEMMA SaneIsTyped == IInv /\ HeldTyped => TypeOK
<1> SUFFICES ASSUME IInv, HeldTyped PROVE TypeOK
  OBVIOUS
<1>1. /\ mode \in {"remote", "tls", "lan"}
      /\ frames \in Seq(Frame) /\ Len(frames) <= MaxFrames
      /\ delivered \in 0..Len(Wire)
      /\ rx \in Buffers /\ Parse(rx) = 0
      /\ executed \in Seq(0..Len(frames)) /\ answered \in Seq(0..Len(frames))
      /\ why \in {"open", "header", "send", "peer"} \cup Trouble
  BY DEF IInv, Sane
<1>2. Len(rx) < Hdr + PktSize
  BY <1>1, ShortBuffer
<1>3. why \in {"open", "truncated", "discarded", "lost", "hole"} \cup Closed
  BY <1>1 DEF Trouble, Closed
<1> QED BY <1>1, <1>2, <1>3 DEF TypeOK, Buffers, HeldTyped

\* Buffer and histories keep their types; less than one frame waits in the buffer when
\* a callback returns.
THEOREM TypeCorrect == Spec => []TypeOK
  BY Invariance, HeldStays, SaneIsTyped, PTL

\* msgbuf_add_pbuf never finds the buffer full: what a callback of tcp_conn_recv leaves
\* waiting and what the next can bring fit into msgbuf_t, so the connection is never closed
\* for it.
THEOREM NeverThrownOutForSpeed == Spec => []NeverFull
<1>1. IInv => NeverFull
  BY DEF IInv, Sane, NeverFull, Trouble
<1> QED BY <1>1, Invariance, PTL

\* While nothing has gone wrong the buffer is aligned and has no whole frame.
LEMMA AlignedRx ==
  ASSUME IInv, why = "open"
  PROVE  /\ frames \in Seq(Frame) /\ delivered \in 0..Len(Wire) /\ rx \in Buffers
         /\ executed \in Seq(0..Len(frames)) /\ answered \in Seq(0..Len(frames))
         /\ Parse(rx) = 0
         /\ Aligned(rx, executed, answered, delivered)
BY DEF IInv, Sane

\* While nothing has gone wrong the buffer is what was delivered and not served, so that
\* msgbuf_parse looks for a header where a frame begins.
THEOREM AlignedWhileOpen == Spec => []BufferAligned
<1>1. IInv => BufferAligned
  <2> SUFFICES ASSUME IInv, why = "open"
               PROVE  rx = SubSeq(Wire, Ends(Len(executed)) + 1, delivered)
    BY DEF BufferAligned
  <2> DEFINE e == Ends(Len(executed))
  <2>1. e \in Nat /\ frames \in Seq(Frame) /\ delivered \in 0..Len(Wire) /\ rx \in Buffers
    BY AlignedRx, AlignedHead
  <2>2. /\ e <= delivered /\ Len(rx) = delivered - e
        /\ \A i \in 1..Len(rx) : rx[i] = Wire[e + i]
    BY AlignedRx DEF Aligned
  <2> HIDE DEF e
  <2>3. Wire \in Seq(Byte) /\ Len(Wire) \in Nat
    BY <2>1, WireTyped
  <2>4. SubSeq(Wire, e + 1, delivered) = [i \in 1..delivered - e |-> Wire[e + i]]
    BY <2>1, <2>2, <2>3
  <2>5. rx = [i \in 1..delivered - e |-> rx[i]]
    <3>1. rx = [i \in 1..Len(rx) |-> rx[i]]
      BY <2>1 DEF Buffers
    <3> QED BY <2>2, <3>1
  <2>6. \A i \in 1..delivered - e : rx[i] = Wire[e + i]
    BY <2>2
  <2> QED BY <2>4, <2>5, <2>6 DEF e
<1> QED BY <1>1, Invariance, PTL

\* While nothing has gone wrong, after each callback exactly the frames that have arrived as
\* a whole have been executed and answered: the loop of tcp_conn_recv leaves none behind.
THEOREM WholeFramesServed == Spec => []CompleteFramesServed
<1>1. IInv => CompleteFramesServed
  <2> SUFFICES ASSUME IInv, why = "open", NEW n \in 1..Len(frames)
               PROVE  /\ Ends(n) <= delivered <=> n \in ToSet(executed)
                      /\ n \in ToSet(executed) <=> n \in ToSet(answered)
    BY DEF CompleteFramesServed
  <2> DEFINE m == Len(executed)
  <2>1. /\ frames \in Seq(Frame) /\ delivered \in 0..Len(Wire) /\ rx \in Buffers
        /\ executed \in Seq(0..Len(frames)) /\ answered \in Seq(0..Len(frames))
        /\ Parse(rx) = 0
        /\ Aligned(rx, executed, answered, delivered)
    BY AlignedRx
  <2>2. /\ m \in 0..Len(frames) /\ Len(frames) \in Nat /\ Len(answered) = m
        /\ \A i \in 1..m : executed[i] = i /\ answered[i] = i
        /\ Ends(m) <= delivered /\ Ends(m) \in Nat /\ delivered \in Nat
    <3>1. m \in 0..Len(frames) /\ Ends(m) \in Nat
      BY <2>1, AlignedHead
    <3>2. delivered \in Nat /\ Len(frames) \in Nat
      BY <2>1, WireTyped
    <3> QED BY <2>1, <3>1, <3>2 DEF Aligned
  <2>3. n \in ToSet(executed) <=> n \in 1..m
    <3>1. DOMAIN executed = 1..m
      BY <2>1
    <3> QED BY <2>2, <3>1 DEF ToSet
  <2>4. n \in ToSet(answered) <=> n \in 1..m
    <3>1. DOMAIN answered = 1..m
      BY <2>1, <2>2
    <3> QED BY <2>2, <3>1 DEF ToSet
  <2>5. ASSUME n \in 1..m PROVE Ends(n) <= delivered
    <3>1. n \in 0..Len(frames) /\ n <= m
      BY <2>2, <2>5
    <3>2. Ends(n) <= Ends(m) /\ Ends(n) \in Nat
      BY <2>1, <2>2, <3>1, EndsGrow
    <3> QED BY <2>2, <3>2
  <2>6. ASSUME n \notin 1..m PROVE ~(Ends(n) <= delivered)
    <3>1. m < Len(frames) /\ m + 1 \in 0..Len(frames) /\ n \in 0..Len(frames) /\ m + 1 <= n
      BY <2>2, <2>6
    <3>2. delivered < Ends(m + 1)
      BY <2>1, <3>1, NextIncomplete
    <3>3. Ends(m + 1) <= Ends(n) /\ Ends(n) \in Nat /\ Ends(m + 1) \in Nat
      BY <2>1, <3>1, EndsGrow
    <3> QED BY <2>2, <3>2, <3>3
  <2> QED BY <2>3, <2>4, <2>5, <2>6
<1> QED BY <1>1, Invariance, PTL

\* No malformed frame is executed, none twice and none before an earlier one, also after
\* bytes were cut off, dropped or discarded.  While nothing has gone wrong, and in the WAN
\* server (tcp_conn_recv) always, nothing but the first frames is executed; behind a hole in
\* the stream the other two may execute bytes that are no frame.
THEOREM OnlyRequestsRun == Spec => []OnlyWellFormedRuns
<1>1. IInv => OnlyWellFormedRuns
  <2> SUFFICES ASSUME IInv PROVE OnlyWellFormedRuns
    OBVIOUS
  <2>1. Proper(executed) /\ (mode = "remote" => InTurnOnly(executed))
    BY DEF IInv, Sane
  <2>2. why = "open" => InTurnOnly(executed)
    <3> SUFFICES ASSUME why = "open" PROVE InTurnOnly(executed)
      OBVIOUS
    <3>1. /\ executed \in Seq(0..Len(frames))
          /\ Aligned(rx, executed, answered, delivered)
      BY AlignedRx
    <3>2. DOMAIN executed = 1..Len(executed)
      BY <3>1
    <3> QED BY <3>1, <3>2 DEF Aligned, InTurnOnly
  <2>3. \A n \in ToSet(executed) \ {0} : WellFormed(frames[n])
    BY <2>1 DEF Proper, ToSet
  <2>4. mode = "remote" \/ why = "open" => \A i \in DOMAIN executed : executed[i] = i
    BY <2>1, <2>2 DEF InTurnOnly
  <2> QED BY <2>1, <2>3, <2>4 DEF OnlyWellFormedRuns, Proper
<1> QED BY <1>1, Invariance, PTL

-------------------------------------------------------------------------------
\* The frames InTurn counts, and those Requests counts.
AnsweredInTurn(done, sent) ==
  {n \in DOMAIN sent : \A m \in 1..n : done[m] = m /\ sent[m] = m}

Wanted == {n \in DOMAIN frames : \A m \in 1..n : WellFormed(frames[m])}

\* InTurn is where the turn ends.
LEMMA TurnCounts ==
  ASSUME NEW X, NEW done, NEW sent \in Seq(X), NEW k \in Nat, Turn(done, sent, k)
  PROVE  Cardinality(AnsweredInTurn(done, sent)) = k
<1>1. Len(sent) \in Nat /\ DOMAIN sent = 1..Len(sent) /\ k <= Len(sent)
  BY DEF Turn
<1>2. ASSUME NEW n \in AnsweredInTurn(done, sent) PROVE n \in 1..k
  <2>1. n \in 1..Len(sent) /\ \A m \in 1..n : done[m] = m /\ sent[m] = m
    BY <1>1 DEF AnsweredInTurn
  <2>2. CASE k < n
    <3>1. k + 1 \in 1..n /\ k < Len(sent)
      BY <1>1, <2>1, <2>2
    <3>2. done[k + 1] = k + 1 /\ sent[k + 1] = k + 1
      BY <2>1, <3>1
    <3> QED BY <3>1, <3>2 DEF Turn
  <2> QED BY <1>1, <2>1, <2>2
<1>3. ASSUME NEW n \in 1..k PROVE n \in AnsweredInTurn(done, sent)
  <2>1. n \in DOMAIN sent /\ 1..n \subseteq 1..k
    BY <1>1
  <2> QED BY <2>1 DEF Turn, AnsweredInTurn
<1>4. AnsweredInTurn(done, sent) = 1..k
  BY <1>2, <1>3
<1>5. Cardinality(1..k) = k
  BY FS_Interval
<1> QED BY <1>4, <1>5

\* InTurn, before and after a step, as a function of the histories.
LEMMA InTurnIs ==
  /\ InTurn = Cardinality(AnsweredInTurn(executed, answered))
  /\ InTurn' = Cardinality(AnsweredInTurn(executed', answered'))
BY DEF InTurn, AnsweredInTurn

\* Clean, before and after a step.
LEMMA CleanIs ==
  /\ Clean = CleanOf(executed, InTurn)
  /\ Clean' = CleanOf(executed', InTurn')
BY DEF Clean, CleanOf

\* Of aligned histories everything is in turn.
LEMMA AlignedTurn ==
  ASSUME frames \in Seq(Frame), NEW L, NEW buf,
         NEW done \in Seq(0..Len(frames)), NEW sent \in Seq(0..Len(frames)),
         Aligned(buf, done, sent, L)
  PROVE  /\ Len(done) \in Nat
         /\ Cardinality(AnsweredInTurn(done, sent)) = Len(done)
         /\ CleanOf(done, Len(done)) = Len(done)
<1>1. Len(done) \in Nat /\ Len(sent) = Len(done)
  BY DEF Aligned
<1>2. Turn(done, sent, Len(done))
  BY <1>1 DEF Turn, Aligned
<1>3. CleanOf(done, Len(done)) = Len(done)
  BY <1>1 DEF CleanOf
<1> QED BY <1>1, <1>2, <1>3, TurnCounts

\* The requests are among the frames, so they can be counted.
LEMMA RequestsCounted ==
  ASSUME frames \in Seq(Frame)
  PROVE  /\ Requests = Cardinality(Wanted)
         /\ IsFiniteSet(Wanted)
         /\ Wanted \subseteq 1..Len(frames)
         /\ Requests \in Nat
<1>1. Wanted \subseteq 1..Len(frames) /\ Len(frames) \in Nat
  BY WireTyped DEF Wanted
<1>2. IsFiniteSet(1..Len(frames))
  BY <1>1, FS_Interval
<1>3. IsFiniteSet(Wanted)
  BY <1>1, <1>2, FS_Subset
<1> QED BY <1>1, <1>3, FS_CardinalityType DEF Requests, Wanted

\* What has been executed in turn are requests.
LEMMA CleanIsWanted ==
  ASSUME frames \in Seq(Frame), NEW done \in Seq(0..Len(frames)), Proper(done),
         NEW c \in 0..Len(done), \A i \in 1..c : done[i] = i
  PROVE  c <= Requests
<1>1. Len(frames) \in Nat /\ c \in Nat /\ Len(done) \in Nat /\ DOMAIN done = 1..Len(done)
  BY WireTyped
<1>2. ASSUME NEW i \in 1..c PROVE i \in DOMAIN frames /\ WellFormed(frames[i])
  <2>1. i \in DOMAIN done /\ done[i] = i /\ i # 0 /\ done[i] \in 0..Len(frames)
    BY <1>1
  <2>2. WellFormed(frames[i])
    BY <2>1 DEF Proper
  <2> QED BY <2>1, <2>2, <1>1
<1>3. 1..c \subseteq Wanted
  <2> SUFFICES ASSUME NEW i \in 1..c PROVE i \in Wanted
    OBVIOUS
  <2>1. \A m \in 1..i : m \in 1..c
    BY <1>1
  <2> QED BY <2>1, <1>2 DEF Wanted
<1>4. Cardinality(1..c) <= Cardinality(Wanted)
  BY <1>3, RequestsCounted, FS_Subset
<1>5. Cardinality(1..c) = c
  BY <1>1, FS_Interval
<1> QED BY <1>4, <1>5, RequestsCounted

\* One more frame is one more request at most.
LEMMA OneMoreWanted ==
  ASSUME IInv, ClientSend
  PROVE  Requests' = Requests \/ Requests' = Requests + 1
<1> DEFINE N == Len(frames)
<1>1. frames \in Seq(Frame) /\ N \in Nat
  BY WireTyped DEF IInv
<1>2. PICK f \in Frame : frames' = Append(frames, f)
  BY DEF ClientSend
<1>3. /\ DOMAIN frames = 1..N
      /\ DOMAIN frames' = 1..N + 1
      /\ \A n \in 1..N : frames'[n] = frames[n]
  BY <1>1, <1>2
<1>4. \A g : WellFormed(g)' = WellFormed(g)
  BY DEF ClientSend, WellFormed
<1> HIDE DEF N
<1>5. Wanted' = {n \in 1..N + 1 : \A m \in 1..n : WellFormed(frames'[m])}
  BY <1>3, <1>4 DEF Wanted
<1>6. Wanted = {n \in 1..N : \A m \in 1..n : WellFormed(frames[m])}
  BY <1>3 DEF Wanted
<1>7. \A n \in 1..N : n \in Wanted' <=> n \in Wanted
  <2> SUFFICES ASSUME NEW n \in 1..N PROVE n \in Wanted' <=> n \in Wanted
    OBVIOUS
  <2>1. n \in 1..N + 1 /\ \A m \in 1..n : frames'[m] = frames[m]
    BY <1>1, <1>3
  <2> QED BY <2>1, <1>5, <1>6
<1>8. Wanted' \subseteq 1..N + 1 /\ Wanted \subseteq 1..N
  BY <1>5, <1>6
<1>9. Wanted' = Wanted \/ (N + 1 \notin Wanted /\ Wanted' = Wanted \cup {N + 1})
  <2>1. N + 1 \notin 1..N /\ \A n \in 1..N + 1 : n \in 1..N \/ n = N + 1
    BY <1>1 DEF N
  <2> QED BY <2>1, <1>7, <1>8
<1>10. Requests = Cardinality(Wanted) /\ IsFiniteSet(Wanted) /\ Requests' = Cardinality(Wanted')
  <2>1. Requests' = Cardinality(Wanted')
    BY DEF Requests, Wanted
  <2> QED BY <2>1, <1>1, RequestsCounted
<1> QED BY <1>9, <1>10, FS_AddElement

\* No frame more, no request more.
LEMMA SameRequests ==
  ASSUME frames' = frames, mode' = mode
  PROVE  Requests' = Requests
<1>1. \A g : WellFormed(g)' = WellFormed(g)
  BY DEF WellFormed
<1> QED BY <1>1 DEF Requests

\* The counters depend on the histories only.
LEMMA SameTurn ==
  ASSUME executed' = executed, answered' = answered
  PROVE  InTurn' = InTurn /\ Clean' = Clean
BY InTurnIs, CleanIs

\* While nothing has gone wrong, the three counters agree with the history.
LEMMA OpenCounts ==
  ASSUME IInv, why = "open"
  PROVE  Len(executed) \in Nat /\ InTurn = Len(executed) /\ Clean = Len(executed)
<1>1. /\ frames \in Seq(Frame) /\ Aligned(rx, executed, answered, delivered)
      /\ executed \in Seq(0..Len(frames)) /\ answered \in Seq(0..Len(frames))
  BY AlignedRx
<1> QED BY <1>1, AlignedTurn, InTurnIs, CleanIs

\* A receive callback is a step of the in-order service: it serves some of the requests, or
\* breaks the service off, or does not concern it.
LEMMA RecvServes ==
  ASSUME IInv, RecvSome
  PROVE  [Rpc!Next]_(Rpc!rvars)
<1>0. PICK n \in Brought : \E fits : Recv(n, fits)
  BY DEF RecvSome
<1>1. PICK fits : Recv(n, fits)
  BY <1>0
<1>2. /\ Sane(rx', executed', answered', delivered', why')
      /\ why = "open" =>
           \/ why' = "open" /\ Len(executed) <= Len(executed')
           \/ /\ why' # "open"
              /\ \E k \in Nat : /\ Len(executed) <= k
                                /\ Frozen(rx', executed', answered', delivered', k)
      /\ why # "open" =>
           /\ why' # "open"
           /\ \A k \in Nat : Frozen(rx, executed, answered, delivered, k) =>
                               /\ Frozen(rx', executed', answered', delivered', k)
                               /\ CleanOf(executed', k) = CleanOf(executed, k)
  BY <1>1, RecvStep
<1>3. frames' = frames /\ mode' = mode /\ Live
  BY <1>1 DEF Recv
<1>4. Requests' = Requests /\ Requests \in Nat /\ frames \in Seq(Frame)
  BY <1>3, SameRequests, RequestsCounted DEF IInv
<1>5. /\ executed' \in Seq(0..Len(frames)) /\ answered' \in Seq(0..Len(frames))
      /\ Len(answered') <= Len(executed') /\ Proper(executed')
      /\ Len(executed') \in Nat /\ Len(answered') \in Nat
  BY <1>2 DEF Sane
<1>6. CASE why = "open" /\ why' = "open"
  <2> DEFINE m == Len(executed)
             o == Len(executed')
  <2>1. m \in Nat /\ InTurn = m /\ Clean = m
    BY <1>6, OpenCounts
  <2>2. Aligned(rx', executed', answered', delivered')
    BY <1>2, <1>6 DEF Sane
  <2>3. o \in Nat /\ InTurn' = o /\ Clean' = o
    BY <1>4, <1>5, <2>2, AlignedTurn, InTurnIs, CleanIs
  <2>4. o <= Requests
    <3>1. \A i \in 1..o : executed'[i] = i
      BY <2>2 DEF Aligned
    <3>2. o \in 0..o
      BY <2>3
    <3> QED BY <1>4, <1>5, <3>1, <3>2, CleanIsWanted
  <2>5. m <= o
    BY <1>2, <1>6
  <2> HIDE DEF m, o
  <2>6. CASE m = o
    BY <1>4, <1>6, <2>1, <2>3, <2>6 DEF Rpc!rvars
  <2>7. CASE m < o
    <3>1. o \in m + 1..Requests
      BY <1>4, <2>1, <2>3, <2>4, <2>7
    <3>2. Rpc!Serve
      BY <1>4, <1>6, <2>1, <2>3, <3>1 DEF Rpc!Serve
    <3> QED BY <3>2 DEF Rpc!Next
  <2> QED BY <2>1, <2>3, <2>5, <2>6, <2>7
<1>7. CASE why = "open" /\ why' # "open"
  <2> DEFINE m == Len(executed)
  <2>1. m \in Nat /\ InTurn = m /\ Clean = m
    BY <1>7, OpenCounts
  <2>2. PICK k \in Nat : m <= k /\ Frozen(rx', executed', answered', delivered', k)
    BY <1>2, <1>7
  <2> HIDE DEF m
  <2>3. Turn(executed', answered', k)
    BY <2>2 DEF Frozen
  <2>4. InTurn' = k
    BY <1>5, <2>3, TurnCounts, InTurnIs
  <2> DEFINE c == CleanOf(executed', k)
  <2>5. Clean' = c
    BY <2>4, CleanIs
  <2>6. k <= Len(executed') /\ \A i \in 1..k : executed'[i] = i
    BY <1>5, <2>3 DEF Turn
  <2>7. c \in 0..Len(executed') /\ (c = k \/ c = k + 1) /\ \A i \in 1..c : executed'[i] = i
    <3>1. CASE Len(executed') > k /\ executed'[k + 1] = k + 1
      <4>1. c = k + 1
        BY <3>1 DEF CleanOf
      <4> HIDE DEF c
      <4> QED BY <1>5, <2>6, <3>1, <4>1
    <3>2. CASE ~(Len(executed') > k /\ executed'[k + 1] = k + 1)
      <4>1. c = k
        BY <3>2 DEF CleanOf
      <4> HIDE DEF c
      <4> QED BY <1>5, <2>6, <4>1
    <3> QED BY <3>1, <3>2
  <2> HIDE DEF c
  <2>8. c <= Requests
    BY <1>4, <1>5, <2>7, CleanIsWanted
  <2>9. c \in m..Requests /\ (k = c \/ (c > m /\ k = c - 1))
    BY <1>4, <2>1, <2>2, <2>7, <2>8
  <2>10. Rpc!Break
    BY <1>4, <1>7, <2>1, <2>4, <2>5, <2>9 DEF Rpc!Break
  <2> QED BY <2>10 DEF Rpc!Next
<1>8. CASE why # "open"
  <2>1. why \in Trouble
    BY <1>3, <1>8 DEF IInv, Sane, Live, Closed
  <2>2. PICK k \in Nat : Frozen(rx, executed, answered, delivered, k)
    BY <2>1 DEF IInv, Sane
  <2>3. /\ Frozen(rx', executed', answered', delivered', k)
        /\ CleanOf(executed', k) = CleanOf(executed, k)
    BY <1>2, <1>8, <2>2
  <2>4. answered \in Seq(0..Len(frames))
    BY DEF IInv, Sane
  <2>5. InTurn = k /\ InTurn' = k
    BY <1>5, <2>2, <2>3, <2>4, TurnCounts, InTurnIs DEF Frozen
  <2>6. Clean' = Clean
    BY <2>3, <2>5, CleanIs
  <2>7. (why' = "open") = (why = "open")
    BY <1>2, <1>8
  <2> QED BY <1>4, <2>5, <2>6, <2>7 DEF Rpc!rvars
<1> QED BY <1>6, <1>7, <1>8

\* An end of the connection or a drop without executing anything breaks the service off.
LEMMA TroubleBreaks ==
  ASSUME IInv, Live, frames' = frames, mode' = mode,
         executed' = executed, answered' = answered, why' # "open"
  PROVE  [Rpc!Next]_(Rpc!rvars)
<1>1. Requests' = Requests /\ InTurn' = InTurn /\ Clean' = Clean
  BY SameRequests, SameTurn
<1>2. CASE why = "open"
  <2> DEFINE m == Len(executed)
  <2>1. m \in Nat /\ InTurn = m /\ Clean = m
    BY <1>2, OpenCounts
  <2>2. /\ frames \in Seq(Frame) /\ executed \in Seq(0..Len(frames)) /\ Proper(executed)
        /\ \A i \in 1..m : executed[i] = i
    BY <1>2 DEF IInv, Sane, Aligned
  <2>3. m <= Requests /\ Requests \in Nat
    <3>1. m \in 0..m
      BY <2>1
    <3> QED BY <2>2, <3>1, CleanIsWanted, RequestsCounted
  <2> HIDE DEF m
  <2>4. m \in m..Requests
    BY <2>1, <2>3
  <2>5. Rpc!Break
    BY <1>1, <1>2, <2>1, <2>4 DEF Rpc!Break
  <2> QED BY <2>5 DEF Rpc!Next
<1>3. CASE why # "open"
  BY <1>1, <1>3 DEF Rpc!rvars
<1> QED BY <1>2, <1>3

\* The refinement, up to fairness: a connection starts and steps as an in-order
\* request/response service. Fragmentation and coalescing by TCP do not show through the
\* parse / execute / send / consume loop of tcp_conn_recv, tls_remote_recv and
\* tcp_server_recv; what goes wrong ends the service where it happens.
THEOREM InOrderService ==
  Spec => Rpc!Init /\ [][Rpc!Next]_(Rpc!rvars)
<1>1. Init => Rpc!Init
  <2> SUFFICES ASSUME Init PROVE Rpc!Init
    OBVIOUS
  <2>1. IInv /\ why = "open" /\ Len(executed) = 0
    BY InitSane DEF Init
  <2>2. InTurn = 0 /\ Clean = 0
    BY <2>1, OpenCounts
  <2>3. Requests = 0
    <3>1. frames \in Seq(Frame) /\ Len(frames) = 0
      BY DEF Init
    <3>2. Wanted = {}
      BY <3>1, RequestsCounted
    <3> QED BY <3>1, <3>2, RequestsCounted, FS_EmptySet
  <2> QED BY <2>1, <2>2, <2>3 DEF Rpc!Init
<1>2. IInv /\ [Next]_vars => [Rpc!Next]_(Rpc!rvars)
  <2> SUFFICES ASSUME IInv, [Next]_vars PROVE [Rpc!Next]_(Rpc!rvars)
    OBVIOUS
  <2>1. CASE ClientSend
    <3>1. executed' = executed /\ answered' = answered /\ why' = why
      BY <2>1 DEF ClientSend
    <3>2. InTurn' = InTurn /\ Clean' = Clean
      BY <3>1, SameTurn
    <3>3. Requests' = Requests \/ Requests' = Requests + 1
      BY <2>1, OneMoreWanted
    <3> QED BY <3>1, <3>2, <3>3 DEF Rpc!Next, Rpc!Issue, Rpc!rvars
  <2>2. CASE RecvSome
    BY <2>2, RecvServes
  <2>3. CASE DropDecrypted
    <3>1. why' # "open"
      BY <2>3, DropDecryptedSane
    <3> QED BY <2>3, <3>1, TroubleBreaks DEF DropDecrypted
  <2>4. CASE PeerGone
    BY <2>4, TroubleBreaks DEF PeerGone
  <2>5. CASE HeldBack \/ UNCHANGED vars
    <3>1. frames' = frames /\ mode' = mode /\ executed' = executed /\ answered' = answered
          /\ why' = why
      BY <2>5 DEF vars, HeldBack
    <3>2. Requests' = Requests /\ InTurn' = InTurn /\ Clean' = Clean
      BY <3>1, SameRequests, SameTurn
    <3> QED BY <3>1, <3>2 DEF Rpc!rvars
  <2> QED BY <2>1, <2>2, <2>3, <2>4, <2>5 DEF Next
<1> QED BY <1>1, <1>2, Invariance, PTL DEF Spec
================================================================================
