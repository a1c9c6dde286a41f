----------------------------- MODULE SwdLineProofs -----------------------------
(***************************************************************************)
(* SwdLine, mostly with a turnaround of one cycle, the only one behind     *)
(* which SWD_Transfer_LL finds the acknowledge (for the others, see        *)
(* Garbled). The frame of the target and the row of cycles of the probe    *)
(* are both laid out cycle by cycle (RefusedFrame, ReadFrame, WriteFrame;  *)
(* Right); that they agree is then a comparison of numbers. Nothing is     *)
(* unrolled: the transfers are put one behind the other, wherever they are *)
(* cut.                                                                    *)
(***************************************************************************)
EXTENDS SwdLine, Integers, SequenceTheorems, TLAPS

Kinds == {"request", "turn", "ack", "value", "check", "data", "parity", "released", "zero"}
Cycle == Kinds \X Nat

\* A run of equal cycles, and the bits of a piece of the word.
LEMMA ItemIs ==
  ASSUME NEW kind \in Kinds, NEW n \in Nat
  PROVE  /\ Item(kind, n) \in Seq(Cycle) /\ Len(Item(kind, n)) = n
         /\ \A i \in 1..n : Item(kind, n)[i] = <<kind, i>>
<1>1. \A i \in 1..n : <<kind, i>> \in Cycle
  BY DEF Cycle
<1>2. Item(kind, n) \in [1..n -> Cycle]
  BY <1>1 DEF Item
<1> QED BY <1>2 DEF Item

LEMMA DataItemsAre ==
  ASSUME NEW from \in Nat, NEW n \in Nat
  PROVE  /\ DataItems(from, n) \in Seq(Cycle) /\ Len(DataItems(from, n)) = n
         /\ \A i \in 1..n : DataItems(from, n)[i] = <<"data", from + i - 1>>
<1>1. \A i \in 1..n : <<"data", from + i - 1>> \in Cycle
  <2> SUFFICES ASSUME NEW i \in 1..n PROVE <<"data", from + i - 1>> \in Cycle
    OBVIOUS
  <2>1. from + i - 1 \in Nat /\ "data" \in Kinds
    BY DEF Kinds
  <2> QED BY <2>1 DEF Cycle
<1>2. DataItems(from, n) \in [1..n -> Cycle]
  BY <1>1 DEF DataItems
<1> QED BY <1>2 DEF DataItems

\* One run behind another.
LEMMA Behind ==
  ASSUME NEW s \in Seq(Cycle), NEW t \in Seq(Cycle)
  PROVE  /\ s \o t \in Seq(Cycle) /\ Len(s \o t) = Len(s) + Len(t)
         /\ \A c \in 1..Len(s) + Len(t) :
              (s \o t)[c] = IF c <= Len(s) THEN s[c] ELSE t[c - Len(s)]
BY ConcatProperties

\* Request, turnaround and acknowledge, in every frame.
Header == Item("request", 8) \o Item("turn", 1) \o Item("ack", 3)

LEMMA HeaderIs ==
  /\ Header \in Seq(Cycle) /\ Len(Header) = 12
  /\ \A c \in 1..8 : Header[c] = <<"request", c>>
  /\ Header[9] = <<"turn", 1>>
  /\ \A c \in 10..12 : Header[c] = <<"ack", c - 9>>
<1> DEFINE a == Item("request", 8)
           b == Item("turn", 1)
           e == Item("ack", 3)
           ab == a \o b
           abe == ab \o e
<1>1. a \in Seq(Cycle) /\ Len(a) = 8 /\ \A i \in 1..8 : a[i] = <<"request", i>>
  BY ItemIs DEF Kinds
<1>2. b \in Seq(Cycle) /\ Len(b) = 1 /\ \A i \in 1..1 : b[i] = <<"turn", i>>
  BY ItemIs DEF Kinds
<1>3. e \in Seq(Cycle) /\ Len(e) = 3 /\ \A i \in 1..3 : e[i] = <<"ack", i>>
  BY ItemIs DEF Kinds
<1>4. Header = abe
  BY DEF Header
<1> HIDE DEF a, b, e
<1>5. /\ ab \in Seq(Cycle) /\ Len(ab) = Len(a) + Len(b)
      /\ \A c \in 1..Len(a) + Len(b) : ab[c] = IF c <= Len(a) THEN a[c] ELSE b[c - Len(a)]
  BY <1>1, <1>2, Behind
<1> HIDE DEF ab
<1>6. /\ abe \in Seq(Cycle) /\ Len(abe) = Len(ab) + Len(e)
      /\ \A c \in 1..Len(ab) + Len(e) : abe[c] = IF c <= Len(ab) THEN ab[c] ELSE e[c - Len(ab)]
  BY <1>3, <1>5, Behind
<1> HIDE DEF abe
<1>7. Len(ab) = 9 /\ (\A c \in 1..8 : ab[c] = a[c]) /\ ab[9] = b[1]
  BY <1>1, <1>2, <1>5
<1>8. Len(abe) = 12 /\ (\A c \in 1..9 : abe[c] = ab[c]) /\ \A c \in 10..12 : abe[c] = e[c - 9]
  BY <1>3, <1>6, <1>7
<1>9. \A c \in 1..8 : abe[c] = <<"request", c>>
  BY <1>1, <1>7, <1>8
<1>10. abe[9] = <<"turn", 1>>
  BY <1>2, <1>7, <1>8
<1>11. \A c \in 10..12 : abe[c] = <<"ack", c - 9>>
  BY <1>3, <1>8
<1> QED BY <1>4, <1>6, <1>8, <1>9, <1>10, <1>11

\* A frame is the header and a rest.
LEMMA FrameIs ==
  ASSUME NEW t \in Seq(Cycle), NEW n \in Nat, n = 12 + Len(t), Frame = Header \o t
  PROVE  /\ Frame \in Seq(Cycle) /\ Len(Frame) = n
         /\ \A c \in 1..8 : Frame[c] = <<"request", c>>
         /\ Frame[9] = <<"turn", 1>>
         /\ \A c \in 10..12 : Frame[c] = <<"ack", c - 9>>
         /\ \A c \in 13..n : Frame[c] = t[c - 12]
<1> DEFINE f == Header \o t
<1>1. /\ f \in Seq(Cycle) /\ Len(f) = Len(Header) + Len(t)
      /\ \A c \in 1..Len(Header) + Len(t) :
           f[c] = IF c <= Len(Header) THEN Header[c] ELSE t[c - Len(Header)]
  BY HeaderIs, Behind
<1>f. Frame = f
  OBVIOUS
<1> HIDE DEF f
<1>2. Len(t) \in Nat
  OBVIOUS
<1>3. Len(f) = n
  BY <1>1, <1>2, HeaderIs
<1>4. \A c \in 1..12 : f[c] = Header[c]
  BY <1>1, <1>2, HeaderIs
<1>5. \A c \in 13..n : f[c] = t[c - 12]
  BY <1>1, <1>2, HeaderIs
<1>6. /\ \A c \in 1..8 : f[c] = <<"request", c>>
      /\ f[9] = <<"turn", 1>>
      /\ \A c \in 10..12 : f[c] = <<"ack", c - 9>>
  BY <1>4, HeaderIs
<1> QED BY <1>f, <1>1, <1>3, <1>5, <1>6

\* The three frames of the target, cycle by cycle.
Starts(f) ==
  /\ \A c \in 1..8 : f[c] = <<"request", c>>
  /\ f[9] = <<"turn", 1>>
  /\ \A c \in 10..12 : f[c] = <<"ack", c - 9>>

RefusedFrame(f) ==
  /\ f \in Seq(Cycle) /\ Len(f) = 13 /\ Starts(f)
  /\ f[13] = <<"turn", 1>>

ReadFrame(f) ==
  /\ f \in Seq(Cycle) /\ Len(f) = 46 /\ Starts(f)
  /\ \A c \in 13..44 : f[c] = <<"value", c - 12>>
  /\ f[45] = <<"check", 1>>
  /\ f[46] = <<"turn", 1>>

WriteFrame(f) ==
  /\ f \in Seq(Cycle) /\ Len(f) = 46 /\ Starts(f)
  /\ f[13] = <<"turn", 1>>
  /\ \A c \in 14..45 : f[c] = <<"data", c - 14>>
  /\ f[46] = <<"parity", 1>>

\* A turnaround ends a frame without an OK, at the cycle 13.
LEMMA FrameRefused ==
  ASSUME Turnaround = 1, reply # "OK"
  PROVE  RefusedFrame(Frame)
<1> DEFINE t == Item("turn", 1)
<1>1. t \in Seq(Cycle) /\ Len(t) = 1 /\ \A i \in 1..1 : t[i] = <<"turn", i>>
  BY ItemIs DEF Kinds
<1>2. Frame = Header \o t
  BY DEF Frame, Header
<1> HIDE DEF t
<1>3. /\ Frame \in Seq(Cycle) /\ Len(Frame) = 13
      /\ \A c \in 1..8 : Frame[c] = <<"request", c>>
      /\ Frame[9] = <<"turn", 1>>
      /\ \A c \in 10..12 : Frame[c] = <<"ack", c - 9>>
      /\ \A c \in 13..13 : Frame[c] = t[c - 12]
  <2>1. 13 = 12 + Len(t) /\ 13 \in Nat
    BY <1>1
  <2> QED BY <1>1, <1>2, <2>1, FrameIs
<1>4. Frame[13] = t[1]
  BY <1>3
<1> QED BY <1>1, <1>3, <1>4 DEF RefusedFrame, Starts

\* The frame of a read: the word is in the cycles 13 to 44, its parity in 45.
LEMMA FrameRead ==
  ASSUME Turnaround = 1, reply = "OK", op = "read"
  PROVE  ReadFrame(Frame)
<1> DEFINE a == Item("value", 32)
           b == Item("check", 1)
           e == Item("turn", 1)
           ab == a \o b
           t == ab \o e
<1>1. a \in Seq(Cycle) /\ Len(a) = 32 /\ \A i \in 1..32 : a[i] = <<"value", i>>
  BY ItemIs DEF Kinds
<1>2. b \in Seq(Cycle) /\ Len(b) = 1 /\ \A i \in 1..1 : b[i] = <<"check", i>>
  BY ItemIs DEF Kinds
<1>3. e \in Seq(Cycle) /\ Len(e) = 1 /\ \A i \in 1..1 : e[i] = <<"turn", i>>
  BY ItemIs DEF Kinds
<1>4. Frame = Header \o t
  BY DEF Frame, Header
<1> HIDE DEF a, b, e
<1>5. /\ ab \in Seq(Cycle) /\ Len(ab) = Len(a) + Len(b)
      /\ \A c \in 1..Len(a) + Len(b) : ab[c] = IF c <= Len(a) THEN a[c] ELSE b[c - Len(a)]
  BY <1>1, <1>2, Behind
<1> HIDE DEF ab
<1>6. /\ t \in Seq(Cycle) /\ Len(t) = Len(ab) + Len(e)
      /\ \A c \in 1..Len(ab) + Len(e) : t[c] = IF c <= Len(ab) THEN ab[c] ELSE e[c - Len(ab)]
  BY <1>3, <1>5, Behind
<1> HIDE DEF t
<1>7. Len(ab) = 33 /\ (\A c \in 1..32 : ab[c] = a[c]) /\ ab[33] = b[1]
  BY <1>1, <1>2, <1>5
<1>8. Len(t) = 34 /\ (\A c \in 1..33 : t[c] = ab[c]) /\ t[34] = e[1]
  BY <1>3, <1>6, <1>7
<1>9. /\ Frame \in Seq(Cycle) /\ Len(Frame) = 46
      /\ \A c \in 1..8 : Frame[c] = <<"request", c>>
      /\ Frame[9] = <<"turn", 1>>
      /\ \A c \in 10..12 : Frame[c] = <<"ack", c - 9>>
      /\ \A c \in 13..46 : Frame[c] = t[c - 12]
  <2>1. 46 = 12 + Len(t) /\ 46 \in Nat
    BY <1>8
  <2> QED BY <1>4, <1>6, <2>1, FrameIs
<1>10. ASSUME NEW c \in 13..44 PROVE Frame[c] = <<"value", c - 12>>
  <2>1. c - 12 \in 1..32 /\ c - 12 \in 1..33 /\ c \in 13..46
    OBVIOUS
  <2>2. Frame[c] = ab[c - 12] /\ ab[c - 12] = a[c - 12]
    BY <1>7, <1>8, <1>9, <2>1
  <2> QED BY <1>1, <2>1, <2>2
<1>11. Frame[45] = t[33] /\ Frame[46] = t[34]
  BY <1>9
<1>12. b[1] = <<"check", 1>> /\ e[1] = <<"turn", 1>>
  BY <1>2, <1>3
<1>13. t[33] = b[1] /\ t[34] = e[1]
  BY <1>7, <1>8
<1> QED BY <1>9, <1>10, <1>11, <1>12, <1>13 DEF ReadFrame, Starts

\* The frame of a write: the word is in the cycles 14 to 45, its parity in 46.
LEMMA FrameWrite ==
  ASSUME Turnaround = 1, reply = "OK", op = "write"
  PROVE  WriteFrame(Frame)
<1> DEFINE a == Item("turn", 1)
           b == DataItems(0, 32)
           e == Item("parity", 1)
           ab == a \o b
           t == ab \o e
<1>1. a \in Seq(Cycle) /\ Len(a) = 1 /\ \A i \in 1..1 : a[i] = <<"turn", i>>
  BY ItemIs DEF Kinds
<1>2. b \in Seq(Cycle) /\ Len(b) = 32 /\ \A i \in 1..32 : b[i] = <<"data", 0 + i - 1>>
  BY DataItemsAre
<1>3. e \in Seq(Cycle) /\ Len(e) = 1 /\ \A i \in 1..1 : e[i] = <<"parity", i>>
  BY ItemIs DEF Kinds
<1>4. Frame = Header \o t
  BY DEF Frame, Header
<1> HIDE DEF a, b, e
<1>5. /\ ab \in Seq(Cycle) /\ Len(ab) = Len(a) + Len(b)
      /\ \A c \in 1..Len(a) + Len(b) : ab[c] = IF c <= Len(a) THEN a[c] ELSE b[c - Len(a)]
  BY <1>1, <1>2, Behind
<1> HIDE DEF ab
<1>6. /\ t \in Seq(Cycle) /\ Len(t) = Len(ab) + Len(e)
      /\ \A c \in 1..Len(ab) + Len(e) : t[c] = IF c <= Len(ab) THEN ab[c] ELSE e[c - Len(ab)]
  BY <1>3, <1>5, Behind
<1> HIDE DEF t
<1>7. Len(ab) = 33 /\ ab[1] = a[1] /\ \A c \in 2..33 : ab[c] = b[c - 1]
  BY <1>1, <1>2, <1>5
<1>8. Len(t) = 34 /\ (\A c \in 1..33 : t[c] = ab[c]) /\ t[34] = e[1]
  BY <1>3, <1>6, <1>7
<1>9. /\ Frame \in Seq(Cycle) /\ Len(Frame) = 46
      /\ \A c \in 1..8 : Frame[c] = <<"request", c>>
      /\ Frame[9] = <<"turn", 1>>
      /\ \A c \in 10..12 : Frame[c] = <<"ack", c - 9>>
      /\ \A c \in 13..46 : Frame[c] = t[c - 12]
  <2>1. 46 = 12 + Len(t) /\ 46 \in Nat
    BY <1>8
  <2> QED BY <1>4, <1>6, <2>1, FrameIs
<1>10. ASSUME NEW c \in 14..45 PROVE Frame[c] = <<"data", c - 14>>
  <2>1. /\ c \in 13..46 /\ c - 12 \in 1..33 /\ c - 12 \in 2..33
        /\ c - 12 - 1 = c - 13 /\ c - 13 \in 1..32 /\ 0 + (c - 13) - 1 = c - 14
    OBVIOUS
  <2>2. Frame[c] = ab[c - 12] /\ ab[c - 12] = b[c - 13]
    BY <1>7, <1>8, <1>9, <2>1
  <2> QED BY <1>2, <2>1, <2>2
<1>11. Frame[13] = t[1] /\ Frame[46] = t[34]
  BY <1>9
<1>12. a[1] = <<"turn", 1>> /\ e[1] = <<"parity", 1>>
  BY <1>1, <1>3
<1>13. t[1] = a[1] /\ t[34] = e[1]
  BY <1>7, <1>8
<1> QED BY <1>9, <1>10, <1>11, <1>12, <1>13 DEF WriteFrame, Starts

\* Who drives a cycle of a frame, and when.
LEMMA RefusedKinds ==
  ASSUME NEW f, RefusedFrame(f), NEW c \in 1..13
  PROVE  f[c][1] = IF c <= 8 THEN "request" ELSE IF c \in 10..12 THEN "ack" ELSE "turn"
<1>1. CASE c \in 1..8
  BY <1>1 DEF RefusedFrame, Starts
<1>2. CASE c \in 10..12
  BY <1>2 DEF RefusedFrame, Starts
<1>3. CASE c = 9 \/ c = 13
  BY <1>3 DEF RefusedFrame, Starts
<1> QED BY <1>1, <1>2, <1>3

LEMMA ReadKinds ==
  ASSUME NEW f, ReadFrame(f), NEW c \in 1..46
  PROVE  f[c][1] = IF c <= 8 THEN "request" ELSE IF c \in 10..12 THEN "ack"
                   ELSE IF c \in 13..44 THEN "value" ELSE IF c = 45 THEN "check" ELSE "turn"
<1>1. CASE c \in 1..8
  <2>1. f[c] = <<"request", c>>
    BY <1>1 DEF ReadFrame, Starts
  <2> QED BY <1>1, <2>1
<1>2. CASE c \in 10..12
  <2>1. f[c] = <<"ack", c - 9>>
    BY <1>2 DEF ReadFrame, Starts
  <2> QED BY <1>2, <2>1
<1>3. CASE c \in 13..44
  <2>1. f[c] = <<"value", c - 12>>
    BY <1>3 DEF ReadFrame
  <2> QED BY <1>3, <2>1
<1>4. CASE c = 45
  <2>1. f[c] = <<"check", 1>>
    BY <1>4 DEF ReadFrame
  <2> QED BY <1>4, <2>1
<1>5. CASE c = 9 \/ c = 46
  <2>1. f[c] = <<"turn", 1>>
    BY <1>5 DEF ReadFrame, Starts
  <2> QED BY <1>5, <2>1
<1> QED BY <1>1, <1>2, <1>3, <1>4, <1>5

LEMMA WriteKinds ==
  ASSUME NEW f, WriteFrame(f), NEW c \in 1..46
  PROVE  f[c][1] = IF c <= 8 THEN "request" ELSE IF c \in 10..12 THEN "ack"
                   ELSE IF c \in 14..45 THEN "data" ELSE IF c = 46 THEN "parity" ELSE "turn"
<1>1. CASE c \in 1..8
  <2>1. f[c] = <<"request", c>>
    BY <1>1 DEF WriteFrame, Starts
  <2> QED BY <1>1, <2>1
<1>2. CASE c \in 10..12
  <2>1. f[c] = <<"ack", c - 9>>
    BY <1>2 DEF WriteFrame, Starts
  <2> QED BY <1>2, <2>1
<1>3. CASE c \in 14..45
  <2>1. f[c] = <<"data", c - 14>>
    BY <1>3 DEF WriteFrame
  <2> QED BY <1>3, <2>1
<1>4. CASE c = 46
  <2>1. f[c] = <<"parity", 1>>
    BY <1>4 DEF WriteFrame
  <2> QED BY <1>4, <2>1
<1>5. CASE c = 9 \/ c = 13
  <2>1. f[c] = <<"turn", 1>>
    BY <1>5 DEF WriteFrame, Starts
  <2> QED BY <1>5, <2>1
<1> QED BY <1>1, <1>2, <1>3, <1>4, <1>5

\* The cycles in which the target acknowledges.
LEMMA AckCyclesAre ==
  ASSUME Turnaround = 1, op \in {"read", "write"}
  PROVE  AckCycles = 10..12
<1>1. CASE reply # "OK"
  <2>1. RefusedFrame(Frame)
    BY <1>1, FrameRefused
  <2>2. DOMAIN Frame = 1..13
    BY <2>1 DEF RefusedFrame
  <2>3. ASSUME NEW c \in 1..13 PROVE Frame[c][1] = "ack" <=> c \in 10..12
    BY <2>1, RefusedKinds
  <2> QED BY <2>2, <2>3 DEF AckCycles
<1>2. CASE reply = "OK" /\ op = "read"
  <2>1. ReadFrame(Frame)
    BY <1>2, FrameRead
  <2>2. DOMAIN Frame = 1..46
    BY <2>1 DEF ReadFrame
  <2>3. ASSUME NEW c \in 1..46 PROVE Frame[c][1] = "ack" <=> c \in 10..12
    BY <2>1, ReadKinds
  <2> QED BY <2>2, <2>3 DEF AckCycles
<1>3. CASE reply = "OK" /\ op = "write"
  <2>1. WriteFrame(Frame)
    BY <1>3, FrameWrite
  <2>2. DOMAIN Frame = 1..46
    BY <2>1 DEF WriteFrame
  <2>3. ASSUME NEW c \in 1..46 PROVE Frame[c][1] = "ack" <=> c \in 10..12
    BY <2>1, WriteKinds
  <2> QED BY <2>2, <2>3 DEF AckCycles
<1> QED BY <1>1, <1>2, <1>3

\* Only the word of a read, or its parity, can be disturbed.
LEMMA ValueCyclesAre ==
  ASSUME Turnaround = 1, op \in {"read", "write"}
  PROVE  ValueCycles = IF op = "read" /\ reply = "OK" THEN 13..45 ELSE {}
<1>1. CASE reply # "OK"
  <2>1. RefusedFrame(Frame)
    BY <1>1, FrameRefused
  <2>2. DOMAIN Frame = 1..13
    BY <2>1 DEF RefusedFrame
  <2>3. ASSUME NEW c \in 1..13 PROVE Frame[c][1] \notin {"value", "check"}
    BY <2>1, RefusedKinds
  <2> QED BY <1>1, <2>2, <2>3 DEF ValueCycles
<1>2. CASE reply = "OK" /\ op = "read"
  <2>1. ReadFrame(Frame)
    BY <1>2, FrameRead
  <2>2. DOMAIN Frame = 1..46
    BY <2>1 DEF ReadFrame
  <2>3. ASSUME NEW c \in 1..46 PROVE Frame[c][1] \in {"value", "check"} <=> c \in 13..45
    BY <2>1, ReadKinds
  <2>4. ValueCycles = 13..45
    BY <2>2, <2>3 DEF ValueCycles
  <2> QED BY <1>2, <2>4
<1>3. CASE reply = "OK" /\ op = "write"
  <2>1. WriteFrame(Frame)
    BY <1>3, FrameWrite
  <2>2. DOMAIN Frame = 1..46
    BY <2>1 DEF WriteFrame
  <2>3. ASSUME NEW c \in 1..46 PROVE Frame[c][1] \notin {"value", "check"}
    BY <2>1, WriteKinds
  <2> QED BY <1>3, <2>2, <2>3 DEF ValueCycles
<1> QED BY <1>1, <1>2, <1>3

\* The cycle in which the target drives bit b of the word.
LEMMA CycleOfBit ==
  ASSUME Turnaround = 1, reply = "OK", op = "read", NEW b \in 0..31
  PROVE  CycleOf(<<"value", b + 1>>) = 13 + b
<1>1. ReadFrame(Frame)
  BY FrameRead
<1>2. DOMAIN Frame = 1..46
  BY <1>1 DEF ReadFrame
<1>3. 13 + b \in 13..44 /\ 13 + b \in 1..46 /\ (13 + b) - 12 = b + 1
  OBVIOUS
<1>4. Frame[13 + b] = <<"value", b + 1>>
  BY <1>1, <1>3 DEF ReadFrame
<1>5. ASSUME NEW c \in 1..46, Frame[c] = <<"value", b + 1>> PROVE c = 13 + b
  <2>1. c \in 13..44
    <3>1. Frame[c][1] = "value"
      BY <1>5
    <3> QED BY <1>1, <3>1, ReadKinds
  <2>2. <<"value", c - 12>> = <<"value", b + 1>>
    BY <1>1, <1>5, <2>1 DEF ReadFrame
  <2>3. c - 12 = b + 1
    BY <2>2
  <2> QED BY <2>1, <2>3
<1> QED BY <1>2, <1>3, <1>4, <1>5 DEF CycleOf

-------------------------------------------------------------------------------
(***************************************************************************)
(* The inductive invariant: where the probe is in the row of cycles, what  *)
(* it does in each, and which cycles have gone into the word.              *)
(***************************************************************************)

\* What the probe does in cycle c of a transaction of kind w.
RightAt(w, c, x) ==
  IF c <= 8 THEN x = <<"request", c>>
  ELSE IF w = "read" \/ c <= 13 THEN x[1] = "released"
  ELSE IF c <= 45 THEN x = <<"data", c - 14>>
  ELSE IF c = 46 THEN x = <<"parity", 1>>
  ELSE x[1] = "zero"

Right(w, s) == s \in Seq(Cycle) /\ \A c \in 1..Len(s) : RightAt(w, c, s[c])

\* The cycles that have been clocked.
Place ==
  /\ pc = "request" => Len(line) = 0
  /\ pc = "ack" => Len(line) = 8
  /\ pc = "low" => Len(line) = 13
  /\ pc = "middle" => Len(line) = 29
  /\ pc = "high" => Len(line) = 37
  /\ pc = "done" => Len(line) = IF reply # "OK" THEN 13 ELSE IF op = "read" THEN 46 ELSE 53

\* The word when its first m bits have arrived.
WordOf(m) == [b \in 0..31 |-> IF b < m THEN {13 + b} ELSE {}]

Collected ==
  op = "read" =>
    /\ pc \in {"request", "ack"} => word = WordOf(0)
    /\ pc = "low" => word = WordOf(1)
    /\ pc = "middle" => word = WordOf(17)
    /\ pc = "high" => word = WordOf(25)
    /\ pc = "done" /\ reply = "OK" => word = WordOf(32)

Answer ==
  /\ pc \in {"low", "middle", "high"} => ack = "OK" /\ reply = "OK"
  /\ pc = "done" => ack = IF damaged # 0 THEN "ERROR" ELSE reply

LineInv ==
  /\ op \in {"read", "write"}
  /\ reply \in {"OK", "WAIT", "FAULT", "none"}
  /\ damaged \in {0} \cup (IF op = "read" /\ reply = "OK" THEN 13..45 ELSE {})
  /\ pc \in {"request", "ack", "low", "middle", "high", "done"}
  /\ Right(op, line) /\ Place
  /\ Collected
  /\ Answer

\* A transfer behind the cycles so far.
LEMMA RightBehind ==
  ASSUME NEW w, NEW s, Right(w, s), NEW t \in Seq(Cycle), NEW n \in Nat, n = Len(s) + Len(t),
         \A i \in 1..Len(t) : RightAt(w, Len(s) + i, t[i])
  PROVE  Right(w, s \o t) /\ Len(s \o t) = n
<1> DEFINE st == s \o t
<1>0. s \in Seq(Cycle) /\ Len(s) \in Nat /\ Len(t) \in Nat
  BY DEF Right
<1>1. /\ st \in Seq(Cycle) /\ Len(st) = Len(s) + Len(t)
      /\ \A c \in 1..Len(s) + Len(t) : st[c] = IF c <= Len(s) THEN s[c] ELSE t[c - Len(s)]
  BY <1>0, Behind
<1> HIDE DEF st
<1>2. ASSUME NEW c \in 1..Len(st) PROVE RightAt(w, c, st[c])
  <2>1. CASE c <= Len(s)
    <3>1. c \in 1..Len(s) /\ st[c] = s[c]
      BY <1>0, <1>1, <2>1
    <3> QED BY <3>1 DEF Right
  <2>2. CASE c > Len(s)
    <3>1. c - Len(s) \in 1..Len(t) /\ st[c] = t[c - Len(s)] /\ Len(s) + (c - Len(s)) = c
      BY <1>0, <1>1, <2>2
    <3>2. RightAt(w, Len(s) + (c - Len(s)), t[c - Len(s)])
      BY <3>1
    <3> QED BY <3>1, <3>2
  <2> QED BY <1>0, <1>1, <2>1, <2>2
<1>3. Right(w, st) /\ Len(st) = n
  BY <1>1, <1>2 DEF Right
<1> QED BY <1>3 DEF st

\* A transfer in which the probe releases the line: in a read anywhere behind the
\* request, in a write up to the end of the second turnaround.
LEMMA Released ==
  ASSUME NEW w, NEW s, Right(w, s), NEW k \in Nat, NEW n \in Nat, n = Len(s) + k,
         Len(s) >= 8, w = "read" \/ n <= 13
  PROVE  Right(w, s \o Item("released", k)) /\ Len(s \o Item("released", k)) = n
<1> DEFINE t == Item("released", k)
<1>1. t \in Seq(Cycle) /\ Len(t) = k /\ \A i \in 1..k : t[i] = <<"released", i>>
  BY ItemIs DEF Kinds
<1> HIDE DEF t
<1>2. ASSUME NEW i \in 1..Len(t) PROVE RightAt(w, Len(s) + i, t[i])
  <2>0. Len(s) \in Nat
    BY DEF Right
  <2>1. Len(s) + i > 8 /\ (w = "read" \/ Len(s) + i <= 13)
    BY <1>1, <2>0
  <2>2. t[i] = <<"released", i>>
    BY <1>1
  <2>3. t[i][1] = "released"
    BY <2>2
  <2> QED BY <2>0, <2>1, <2>3 DEF RightAt
<1>3. n = Len(s) + Len(t)
  BY <1>1
<1>4. Right(w, s \o t) /\ Len(s \o t) = n
  BY <1>1, <1>2, <1>3, RightBehind, ZenonT(30)
<1> QED BY <1>4 DEF t

\* A transfer of data bits of a write, each in the cycle that is its own.
LEMMA Driven ==
  ASSUME NEW w, w # "read", NEW s, Right(w, s), NEW k \in Nat, NEW n \in Nat,
         n = Len(s) + k, Len(s) >= 13, n <= 45
  PROVE  /\ Right(w, s \o DataItems(Len(s) - 13, k))
         /\ Len(s \o DataItems(Len(s) - 13, k)) = n
<1> DEFINE from == Len(s) - 13
           t == DataItems(from, k)
<1>0. Len(s) \in Nat /\ from \in Nat
  BY DEF Right
<1>1. t \in Seq(Cycle) /\ Len(t) = k /\ \A i \in 1..k : t[i] = <<"data", from + i - 1>>
  <2> HIDE DEF from
  <2> QED BY <1>0, DataItemsAre
<1> HIDE DEF t
<1>2. ASSUME NEW i \in 1..Len(t) PROVE RightAt(w, Len(s) + i, t[i])
  <2>1. Len(s) + i > 13 /\ Len(s) + i <= 45 /\ (Len(s) + i) - 14 = from + i - 1
    BY <1>0, <1>1
  <2>2. t[i] = <<"data", (Len(s) + i) - 14>>
    BY <1>1, <2>1
  <2> QED BY <1>0, <2>1, <2>2 DEF RightAt
<1>3. n = Len(s) + Len(t)
  BY <1>1
<1>4. t \in Seq(Cycle)
  BY <1>1
<1> HIDE DEF from
<1>5. Right(w, s \o t) /\ Len(s \o t) = n
  BY <1>2, <1>3, <1>4, RightBehind, ZenonT(30)
<1> QED BY <1>5 DEF t, from

\* word |= ...: the bits that come next are the ones the word lacks.
LEMMA Merging ==
  ASSUME NEW first \in Nat, NEW last \in Nat, NEW to \in Nat, NEW m \in Nat,
         Merge(first, last, to), word = WordOf(to), Len(line) \in Nat,
         first <= last, Len(line) + 1 + first = 13 + to, m = to + last - first + 1
  PROVE  word' = WordOf(m)
<1> DEFINE L == Len(line)
           J(b) == {j \in first..last : to + j - first = b}
<1>1. word' = [b \in 0..31 |-> WordOf(to)[b] \cup {L + 1 + i : i \in J(b)}]
  BY DEF Merge, Sampled
<1>2. L \in Nat /\ L + 1 + first = 13 + to
  OBVIOUS
<1> HIDE DEF L
<1>3. ASSUME NEW b \in 0..31
      PROVE  WordOf(to)[b] \cup {L + 1 + i : i \in J(b)} = WordOf(m)[b]
  <2>1. CASE b < to
    <3>1. J(b) = {}
      BY <2>1
    <3>2. WordOf(to)[b] = {13 + b} /\ WordOf(m)[b] = {13 + b}
      BY <2>1 DEF WordOf
    <3> QED BY <3>1, <3>2
  <2>2. CASE b >= to /\ b < m
    <3>1. b - to + first \in first..last /\ J(b) = {b - to + first}
      BY <2>2
    <3>2. L + 1 + (b - to + first) = 13 + b
      BY <1>2, <2>2
    <3>3. WordOf(to)[b] = {} /\ WordOf(m)[b] = {13 + b}
      BY <2>2 DEF WordOf
    <3>4. {L + 1 + i : i \in J(b)} = {13 + b}
      BY <3>1, <3>2
    <3> QED BY <3>3, <3>4
  <2>3. CASE b >= m
    <3>1. J(b) = {}
      BY <2>3
    <3>2. WordOf(to)[b] = {} /\ WordOf(m)[b] = {}
      BY <2>3 DEF WordOf
    <3> QED BY <3>1, <3>2
  <2> QED BY <2>1, <2>2, <2>3
<1> HIDE DEF J
<1>4. WordOf(m) = [b \in 0..31 |-> WordOf(m)[b]]
  BY DEF WordOf
<1> QED BY <1>1, <1>3, <1>4

\* The acknowledge is read in the cycles the target gives it in.
LEMMA AckReadIs ==
  ASSUME Turnaround = 1, op \in {"read", "write"}, Len(line) = 8
  PROVE  AckRead = reply
<1>1. Sampled(1) = 10 /\ Sampled(2) = 11 /\ Sampled(3) = 12
  BY DEF Sampled
<1>2. {Sampled(i) : i \in 1..3} = 10..12
  <2>1. {Sampled(i) : i \in 1..3} = {Sampled(1), Sampled(2), Sampled(3)}
    OBVIOUS
  <2> QED BY <1>1, <2>1
<1> QED BY <1>2, AckCyclesAre DEF AckRead

\* The cycles of the word and of its parity are all that is checked.
LEMMA CheckedCycles == (UNION {WordOf(32)[b] : b \in 0..31}) \cup {45} = 13..45
<1>1. ASSUME NEW b \in 0..31 PROVE WordOf(32)[b] = {13 + b}
  BY DEF WordOf
<1>2. {WordOf(32)[b] : b \in 0..31} = {{13 + b} : b \in 0..31}
  BY <1>1
<1>3. ASSUME NEW c \in 13..44 PROVE c \in UNION {{13 + b} : b \in 0..31}
  <2>1. c - 13 \in 0..31 /\ 13 + (c - 13) = c
    OBVIOUS
  <2>2. {13 + (c - 13)} \in {{13 + b} : b \in 0..31}
    BY <2>1
  <2>3. c \in {13 + (c - 13)}
    BY <2>1
  <2> QED BY <2>2, <2>3
<1>4. UNION {{13 + b} : b \in 0..31} \subseteq 13..44
  OBVIOUS
<1>5. UNION {{13 + b} : b \in 0..31} = 13..44
  BY <1>3, <1>4
<1>6. (13..44) \cup {45} = 13..45
  OBVIOUS
<1>7. UNION {WordOf(32)[b] : b \in 0..31} = 13..44
  BY <1>2, <1>5
<1> QED BY <1>6, <1>7

\* The line is idle before the request.
LEMMA LineInvInit == ASSUME Turnaround = 1 PROVE Init => LineInv
<1> SUFFICES ASSUME Init PROVE LineInv
  OBVIOUS
<1>1. damaged \in {0} \cup (IF op = "read" /\ reply = "OK" THEN 13..45 ELSE {})
  BY ValueCyclesAre DEF Init
<1>2. Right(op, line)
  BY DEF Init, Right
<1>3. Len(line) = 0
  BY DEF Init
<1>4. word = WordOf(0)
  <2>1. \A b \in 0..31 : ~(b < 0)
    OBVIOUS
  <2> QED BY <2>1 DEF Init, WordOf
<1> QED BY <1>1, <1>2, <1>3, <1>4 DEF Init, LineInv, Place, Collected, Answer

\* Every transfer goes on where the last one has ended.
LEMMA LineInvStep == ASSUME Turnaround = 1 PROVE LineInv /\ [Next]_vars => LineInv'
<1> SUFFICES ASSUME LineInv, [Next]_vars PROVE LineInv'
  OBVIOUS
<1>0. /\ op \in {"read", "write"} /\ Right(op, line)
      /\ line \in Seq(Cycle) /\ Len(line) \in Nat
  BY DEF LineInv, Right
<1>1. CASE Request
  <2> DEFINE t == Item("request", 8)
  <2>1. t \in Seq(Cycle) /\ Len(t) = 8 /\ \A i \in 1..8 : t[i] = <<"request", i>>
    BY ItemIs DEF Kinds
  <2>2. Len(line) = 0 /\ line' = line \o t
    BY <1>1 DEF Request, Drive, LineInv, Place
  <2> HIDE DEF t
  <2>3. ASSUME NEW i \in 1..Len(t) PROVE RightAt(op, Len(line) + i, t[i])
    <3>1. Len(line) + i = i /\ i <= 8 /\ t[i] = <<"request", i>>
      BY <2>1, <2>2
    <3> QED BY <3>1 DEF RightAt
  <2>4. t \in Seq(Cycle) /\ 8 \in Nat /\ 8 = Len(line) + Len(t)
    BY <2>1, <2>2
  <2>5. Right(op, line \o t) /\ Len(line \o t) = 8
    BY <1>0, <2>3, <2>4, RightBehind
  <2>6. Right(op, line') /\ Len(line') = 8
    BY <2>2, <2>5
  <2> QED BY <1>1, <2>6 DEF Request, LineInv, Place, Collected, Answer
<1>2. CASE ReadAck
  <2>1. Len(line) = 8 /\ op = "read" /\ line' = line \o Item("released", 5)
    BY <1>2 DEF ReadAck, Listen, LineInv, Place
  <2>2. Right(op, line') /\ Len(line') = 13
    <3>1. 5 \in Nat /\ 13 \in Nat /\ 13 = Len(line) + 5 /\ Len(line) >= 8
      BY <2>1
    <3> QED BY <1>0, <2>1, <3>1, Released
  <2>3. ack' = reply
    BY <1>0, <1>2, <2>1, AckReadIs DEF ReadAck
  <2>4. CASE reply = "OK"
    <3>1. pc' = "low" /\ Merge(4, 4, 0)
      BY <1>2, <2>3, <2>4 DEF ReadAck
    <3>2. word = WordOf(0)
      BY <1>2, <2>1 DEF ReadAck, LineInv, Collected
    <3>3. word' = WordOf(1)
      <4>1. 4 \in Nat /\ 0 \in Nat /\ 1 \in Nat /\ 4 <= 4
            /\ Len(line) + 1 + 4 = 13 + 0 /\ 1 = 0 + 4 - 4 + 1
        BY <2>1
      <4> QED BY <1>0, <3>1, <3>2, <4>1, Merging
    <3> QED BY <1>2, <2>1, <2>2, <2>3, <2>4, <3>1, <3>3
            DEF ReadAck, LineInv, Place, Collected, Answer
  <2>5. CASE reply # "OK"
    <3>1. pc' = "done" /\ damaged = 0
      BY <1>2, <2>3, <2>5 DEF ReadAck, LineInv
    <3> QED BY <1>2, <2>1, <2>2, <2>3, <2>5, <3>1
            DEF ReadAck, LineInv, Place, Collected, Answer
  <2> QED BY <2>4, <2>5
<1>3. CASE ReadLow
  <2>1. Len(line) = 13 /\ op = "read" /\ line' = line \o Item("released", 16)
    BY <1>3 DEF ReadLow, Listen, LineInv, Place
  <2>2. Right(op, line') /\ Len(line') = 29
    <3>1. 16 \in Nat /\ 29 \in Nat /\ 29 = Len(line) + 16 /\ Len(line) >= 8
      BY <2>1
    <3> QED BY <1>0, <2>1, <3>1, Released
  <2>3. Merge(0, 15, 1) /\ word = WordOf(1)
    BY <1>3, <2>1 DEF ReadLow, LineInv, Collected
  <2>4. word' = WordOf(17)
    <3>1. 0 \in Nat /\ 15 \in Nat /\ 1 \in Nat /\ 17 \in Nat /\ 0 <= 15
          /\ Len(line) + 1 + 0 = 13 + 1 /\ 17 = 1 + 15 - 0 + 1
      BY <2>1
    <3> QED BY <1>0, <2>3, <3>1, Merging
  <2> QED BY <1>3, <2>1, <2>2, <2>4 DEF ReadLow, LineInv, Place, Collected, Answer
<1>4. CASE ReadMiddle
  <2>1. Len(line) = 29 /\ op = "read" /\ line' = line \o Item("released", 8)
    BY <1>4 DEF ReadMiddle, Listen, LineInv, Place
  <2>2. Right(op, line') /\ Len(line') = 37
    <3>1. 8 \in Nat /\ 37 \in Nat /\ 37 = Len(line) + 8 /\ Len(line) >= 8
      BY <2>1
    <3> QED BY <1>0, <2>1, <3>1, Released
  <2>3. Merge(0, 7, 17) /\ word = WordOf(17)
    BY <1>4, <2>1 DEF ReadMiddle, LineInv, Collected
  <2>4. word' = WordOf(25)
    <3>1. 0 \in Nat /\ 7 \in Nat /\ 17 \in Nat /\ 25 \in Nat /\ 0 <= 7
          /\ Len(line) + 1 + 0 = 13 + 17 /\ 25 = 17 + 7 - 0 + 1
      BY <2>1
    <3> QED BY <1>0, <2>3, <3>1, Merging
  <2> QED BY <1>4, <2>1, <2>2, <2>4 DEF ReadMiddle, LineInv, Place, Collected, Answer
<1>5. CASE ReadHigh
  <2>1. Len(line) = 37 /\ op = "read" /\ line' = line \o Item("released", 9)
    BY <1>5 DEF ReadHigh, Listen, LineInv, Place
  <2>2. Right(op, line') /\ Len(line') = 46
    <3>1. 9 \in Nat /\ 46 \in Nat /\ 46 = Len(line) + 9 /\ Len(line) >= 8
      BY <2>1
    <3>2. op = "read" \/ 46 <= 13
      BY <2>1
    <3>3. Right(op, line)
      BY <1>0
    <3>4. Right(op, line \o Item("released", 9)) /\ Len(line \o Item("released", 9)) = 46
      BY <3>1, <3>2, <3>3, Released
    <3> QED BY <2>1, <3>4
  <2>3. Merge(0, 7, 25) /\ word = WordOf(25)
    BY <1>5, <2>1 DEF ReadHigh, LineInv, Collected
  <2>4. word' = WordOf(32)                  \* The parity comes with the last 7 bits.
    <3>1. 0 \in Nat /\ 7 \in Nat /\ 25 \in Nat /\ 33 \in Nat /\ 0 <= 7
          /\ Len(line) + 1 + 0 = 13 + 25 /\ 33 = 25 + 7 - 0 + 1
      BY <2>1
    <3>2. word' = WordOf(33)
      BY <1>0, <2>3, <3>1, Merging
    <3>3. \A b \in 0..31 : b < 33 /\ b < 32
      OBVIOUS
    <3> QED BY <3>2, <3>3 DEF WordOf
  <2>5. ParityBit = 45
    BY <2>1 DEF ParityBit, Sampled
  <2>6. (UNION {word'[b] : b \in 0..31}) \cup {ParityBit} = 13..45
    BY <2>4, <2>5, CheckedCycles
  <2>7. ack = "OK" /\ reply = "OK" /\ damaged \in {0} \cup 13..45
    BY <1>5, <2>1 DEF ReadHigh, LineInv, Answer
  <2>8. ack' = IF damaged \in 13..45 THEN "ERROR" ELSE ack
    BY <1>5, <2>6 DEF ReadHigh
  <2>9. damaged \in 13..45 <=> damaged # 0
    BY <2>7
  <2>10. ack' = IF damaged # 0 THEN "ERROR" ELSE reply
    BY <2>7, <2>8, <2>9
  <2> QED BY <1>5, <2>1, <2>2, <2>4, <2>7, <2>10
          DEF ReadHigh, LineInv, Place, Collected, Answer
<1>6. CASE WriteAck
  <2>1. Len(line) = 8 /\ op = "write" /\ line' = line \o Item("released", 5)
    BY <1>6 DEF WriteAck, Listen, LineInv, Place
  <2>2. Right(op, line') /\ Len(line') = 13
    <3>1. 5 \in Nat /\ 13 \in Nat /\ 13 = Len(line) + 5 /\ Len(line) >= 8
      BY <2>1
    <3>2. op = "read" \/ 13 <= 13
      BY <2>1
    <3>3. Right(op, line)
      BY <1>0
    <3>4. Right(op, line \o Item("released", 5)) /\ Len(line \o Item("released", 5)) = 13
      BY <3>1, <3>2, <3>3, Released
    <3> QED BY <2>1, <3>4
  <2>3. ack' = reply
    BY <1>0, <1>6, <2>1, AckReadIs DEF WriteAck
  <2>4. damaged = 0
    BY <2>1 DEF LineInv
  <2> QED BY <1>6, <2>1, <2>2, <2>3, <2>4 DEF WriteAck, LineInv, Place, Collected, Answer
<1>7. CASE WriteLow
  <2>1. Len(line) = 13 /\ op = "write" /\ line' = line \o DataItems(Len(line) - 13, 16)
    <3>1. Len(line) = 13 /\ op = "write" /\ line' = line \o DataItems(0, 16)
      BY <1>7 DEF WriteLow, Drive, LineInv, Place
    <3>2. Len(line) - 13 = 0
      BY <3>1
    <3> QED BY <3>1, <3>2
  <2>2. Right(op, line') /\ Len(line') = 29
    <3>1. /\ 16 \in Nat /\ 29 \in Nat /\ 29 = Len(line) + 16 /\ Len(line) >= 13 /\ 29 <= 45
          /\ op # "read"
      BY <2>1
    <3> QED BY <1>0, <2>1, <3>1, Driven
  <2> QED BY <1>7, <2>1, <2>2 DEF WriteLow, LineInv, Place, Collected, Answer
<1>8. CASE WriteMiddle
  <2>1. Len(line) = 29 /\ op = "write" /\ line' = line \o DataItems(Len(line) - 13, 8)
    <3>1. Len(line) = 29 /\ op = "write" /\ line' = line \o DataItems(16, 8)
      BY <1>8 DEF WriteMiddle, Drive, LineInv, Place
    <3>2. Len(line) - 13 = 16
      BY <3>1
    <3> QED BY <3>1, <3>2
  <2>2. Right(op, line') /\ Len(line') = 37
    <3>1. /\ 8 \in Nat /\ 37 \in Nat /\ 37 = Len(line) + 8 /\ Len(line) >= 13 /\ 37 <= 45
          /\ op # "read"
      BY <2>1
    <3> QED BY <1>0, <2>1, <3>1, Driven
  <2> QED BY <1>8, <2>1, <2>2 DEF WriteMiddle, LineInv, Place, Collected, Answer
<1>9. CASE WriteHigh
  <2> DEFINE a == DataItems(24, 8)
             b == Item("parity", 1)
             e == Item("zero", 7)
             ab == a \o b
             t == ab \o e
  <2>1. Len(line) = 37 /\ op = "write" /\ reply = "OK" /\ line' = line \o t
    BY <1>9 DEF WriteHigh, Drive, LineInv, Place, Answer
  <2>2. a \in Seq(Cycle) /\ Len(a) = 8 /\ \A i \in 1..8 : a[i] = <<"data", 24 + i - 1>>
    BY DataItemsAre
  <2>3. b \in Seq(Cycle) /\ Len(b) = 1 /\ \A i \in 1..1 : b[i] = <<"parity", i>>
    BY ItemIs DEF Kinds
  <2>4. e \in Seq(Cycle) /\ Len(e) = 7 /\ \A i \in 1..7 : e[i] = <<"zero", i>>
    BY ItemIs DEF Kinds
  <2> HIDE DEF a, b, e
  <2>5. /\ ab \in Seq(Cycle) /\ Len(ab) = Len(a) + Len(b)
        /\ \A c \in 1..Len(a) + Len(b) : ab[c] = IF c <= Len(a) THEN a[c] ELSE b[c - Len(a)]
    BY <2>2, <2>3, Behind
  <2> HIDE DEF ab
  <2>6. /\ t \in Seq(Cycle) /\ Len(t) = Len(ab) + Len(e)
        /\ \A c \in 1..Len(ab) + Len(e) : t[c] = IF c <= Len(ab) THEN ab[c] ELSE e[c - Len(ab)]
    BY <2>4, <2>5, Behind
  <2> HIDE DEF t
  <2>7. Len(ab) = 9 /\ (\A c \in 1..8 : ab[c] = a[c]) /\ ab[9] = b[1]
    BY <2>2, <2>3, <2>5
  <2>8. /\ Len(t) = 16 /\ \A c \in 1..8 : t[c] = a[c]
        /\ t[9] = b[1]
        /\ \A c \in 10..16 : t[c] = e[c - 9]
    BY <2>4, <2>6, <2>7
  <2>9. ASSUME NEW i \in 1..Len(t) PROVE RightAt(op, Len(line) + i, t[i])
    <3>1. CASE i \in 1..8
      <4>1. t[i] = <<"data", 24 + i - 1>> /\ 24 + i - 1 = (37 + i) - 14
        BY <2>2, <2>8, <3>1
      <4>2. 37 + i > 13 /\ 37 + i <= 45 /\ t[i] = <<"data", (37 + i) - 14>>
        BY <3>1, <4>1
      <4> QED BY <2>1, <3>1, <4>2 DEF RightAt
    <3>2. CASE i = 9
      <4>1. t[i] = <<"parity", 1>>
        BY <2>3, <2>8, <3>2
      <4> QED BY <2>1, <3>2, <4>1 DEF RightAt
    <3>3. CASE i \in 10..16
      <4>1. i - 9 \in 1..7 /\ t[i] = e[i - 9]
        BY <2>8, <3>3
      <4>2. t[i] = <<"zero", i - 9>>
        BY <2>4, <4>1
      <4>3. t[i][1] = "zero"
        BY <4>2
      <4> QED BY <2>1, <3>3, <4>3 DEF RightAt
    <3> QED BY <2>8, <3>1, <3>2, <3>3
  <2>10. t \in Seq(Cycle) /\ 53 \in Nat /\ 53 = Len(line) + Len(t)
    <3>1. Len(line) = 37 /\ Len(t) = 16
      BY <2>1, <2>8
    <3>2. t \in Seq(Cycle)
      BY <2>6
    <3> QED BY <3>1, <3>2
  <2>11. Right(op, line \o t) /\ Len(line \o t) = 53
    <3>1. Right(op, line)
      BY <1>0
    <3> QED BY <2>9, <2>10, <3>1, RightBehind, ZenonT(30)
  <2>12. Right(op, line') /\ Len(line') = 53
    BY <2>1, <2>11
  <2>13. damaged = 0 /\ ack = "OK"
    BY <1>9, <2>1 DEF WriteHigh, LineInv, Answer
  <2> QED BY <1>9, <2>1, <2>12, <2>13 DEF WriteHigh, LineInv, Place, Collected, Answer
<1>10. CASE UNCHANGED vars
  BY <1>10 DEF vars, LineInv, Right, Place, Collected, Answer
<1> QED BY <1>1, <1>2, <1>3, <1>4, <1>5, <1>6, <1>7, <1>8, <1>9, <1>10 DEF Next

LEMMA LineInvariant == ASSUME Turnaround = 1 PROVE Spec => []LineInv
<1>1. Init => LineInv
  BY LineInvInit
<1>2. LineInv /\ [Next]_vars => LineInv'
  BY LineInvStep
<1> QED BY <1>1, <1>2, PTL DEF Spec

\* Whatever the target answers, SWD_Transfer_LL leaves it waiting for a request: all
\* of its frame has been clocked, and the probe has driven only its own cycles.
THEOREM StaysInStep == ASSUME Turnaround = 1 PROVE Spec => []EndsInStep
<1> DEFINE Agrees(c) ==
             IF c > Len(Frame) THEN line[c][1] = "zero"
             ELSE IF Frame[c][1] \in {"request", "data", "parity"} THEN line[c] = Frame[c]
             ELSE line[c][1] = "released"
<1>1. ASSUME LineInv, pc = "done"
      PROVE  Len(line) >= Len(Frame) /\ \A c \in DOMAIN line : Agrees(c)
  <2> HIDE DEF Agrees
  <2>0. /\ op \in {"read", "write"} /\ Right(op, line) /\ line \in Seq(Cycle)
        /\ Len(line) = IF reply # "OK" THEN 13 ELSE IF op = "read" THEN 46 ELSE 53
    BY <1>1 DEF LineInv, Place, Right
  <2>d. DOMAIN line = 1..Len(line)
    <3>1. line \in Seq(Cycle)
      BY <2>0
    <3> QED BY <3>1
  <2>r. \A c \in 1..Len(line) : RightAt(op, c, line[c])
    BY <2>0 DEF Right
  <2>1. CASE reply # "OK"
    <3>1. RefusedFrame(Frame) /\ Len(Frame) = 13 /\ Len(line) = 13
      BY <2>0, <2>1, FrameRefused DEF RefusedFrame
    <3>2. ASSUME NEW c \in 1..13 PROVE Agrees(c)
      <4>1. RightAt(op, c, line[c])
        BY <2>r, <3>1
      <4>2. CASE c \in 1..8
        <5>1. line[c] = <<"request", c>>
          BY <3>1, <4>1, <4>2 DEF RightAt
        <5>2. Frame[c] = <<"request", c>>
          BY <3>1, <4>2 DEF RefusedFrame, Starts
        <5>3. c <= Len(Frame) /\ Frame[c][1] \in {"request", "data", "parity"}
          BY <3>1, <4>2, RefusedKinds
        <5> QED BY <5>1, <5>2, <5>3 DEF Agrees
      <4>3. CASE c > 8
        <5>1. line[c][1] = "released"
          BY <4>1, <4>3 DEF RightAt
        <5>2. c <= Len(Frame) /\ Frame[c][1] \notin {"request", "data", "parity"}
          BY <3>1, <4>3, RefusedKinds
        <5> QED BY <5>1, <5>2 DEF Agrees
      <4> QED BY <4>2, <4>3
    <3>3. DOMAIN line = 1..Len(Frame) /\ Len(line) >= Len(Frame)
      BY <2>d, <3>1
    <3> QED BY <3>1, <3>2, <3>3
  <2>2. CASE reply = "OK" /\ op = "read"
    <3>1. ReadFrame(Frame) /\ Len(Frame) = 46 /\ Len(line) = 46
      BY <2>0, <2>2, FrameRead DEF ReadFrame
    <3>2. ASSUME NEW c \in 1..46 PROVE Agrees(c)
      <4>1. RightAt(op, c, line[c])
        BY <2>r, <3>1
      <4>2. CASE c \in 1..8
        <5>1. line[c] = <<"request", c>>
          BY <3>1, <4>1, <4>2 DEF RightAt
        <5>2. Frame[c] = <<"request", c>>
          BY <3>1, <4>2 DEF ReadFrame, Starts
        <5>3. c <= Len(Frame) /\ Frame[c][1] \in {"request", "data", "parity"}
          BY <3>1, <4>2, ReadKinds
        <5> QED BY <5>1, <5>2, <5>3 DEF Agrees
      <4>3. CASE c > 8
        <5>1. line[c][1] = "released"
          BY <2>2, <4>1, <4>3 DEF RightAt
        <5>2. c <= Len(Frame) /\ Frame[c][1] \notin {"request", "data", "parity"}
          BY <3>1, <4>3, ReadKinds
        <5> QED BY <5>1, <5>2 DEF Agrees
      <4> QED BY <4>2, <4>3
    <3>3. DOMAIN line = 1..Len(Frame) /\ Len(line) >= Len(Frame)
      BY <2>d, <3>1
    <3> QED BY <3>1, <3>2, <3>3
  <2>3. CASE reply = "OK" /\ op = "write"
    <3>1. WriteFrame(Frame) /\ Len(Frame) = 46 /\ Len(line) = 53
      BY <2>0, <2>3, FrameWrite DEF WriteFrame
    <3>2. ASSUME NEW c \in 1..46 PROVE Agrees(c)
      <4>1. RightAt(op, c, line[c])
        BY <2>r, <3>1
      <4>2. CASE c \in 1..8
        <5>1. line[c] = <<"request", c>>
          BY <3>1, <4>1, <4>2 DEF RightAt
        <5>2. Frame[c] = <<"request", c>>
          BY <3>1, <4>2 DEF WriteFrame, Starts
        <5>3. c <= Len(Frame) /\ Frame[c][1] \in {"request", "data", "parity"}
          BY <3>1, <4>2, WriteKinds
        <5> QED BY <5>1, <5>2, <5>3 DEF Agrees
      <4>3. CASE c \in 9..13
        <5>1. line[c][1] = "released"
          BY <4>1, <4>3 DEF RightAt
        <5>2. c <= Len(Frame) /\ Frame[c][1] \notin {"request", "data", "parity"}
          BY <3>1, <4>3, WriteKinds
        <5> QED BY <5>1, <5>2 DEF Agrees
      <4>4. CASE c \in 14..45
        <5>1. line[c] = <<"data", c - 14>>
          BY <2>3, <3>1, <4>1, <4>4 DEF RightAt
        <5>2. Frame[c] = <<"data", c - 14>>
          BY <3>1, <4>4 DEF WriteFrame
        <5>3. c <= Len(Frame) /\ Frame[c][1] \in {"request", "data", "parity"}
          BY <3>1, <4>4, WriteKinds
        <5> QED BY <5>1, <5>2, <5>3 DEF Agrees
      <4>5. CASE c = 46
        <5>1. line[c] = <<"parity", 1>>
          BY <2>3, <3>1, <4>1, <4>5 DEF RightAt
        <5>2. Frame[c] = <<"parity", 1>>
          BY <3>1, <4>5 DEF WriteFrame
        <5>3. c <= Len(Frame) /\ Frame[c][1] \in {"request", "data", "parity"}
          BY <3>1, <4>5, WriteKinds
        <5> QED BY <5>1, <5>2, <5>3 DEF Agrees
      <4> QED BY <4>2, <4>3, <4>4, <4>5
    <3>3. ASSUME NEW c \in 1..53, c > 46 PROVE Agrees(c)
      <4>1. RightAt(op, c, line[c])
        BY <2>r, <3>1
      <4>2. line[c][1] = "zero"
        BY <2>3, <3>3, <4>1 DEF RightAt
      <4> QED BY <3>1, <3>3, <4>2 DEF Agrees
    <3>4. DOMAIN line = 1..53 /\ Len(line) >= Len(Frame)
      BY <2>d, <3>1
    <3>5. ASSUME NEW c \in 1..53 PROVE Agrees(c)
      <4>1. c \in 1..46 \/ c > 46
        OBVIOUS
      <4> QED BY <3>2, <3>3, <4>1
    <3> QED BY <3>4, <3>5
  <2> QED BY <2>0, <2>1, <2>2, <2>3
<1>2. LineInv => EndsInStep
  BY <1>1 DEF EndsInStep
<1> QED BY <1>2, LineInvariant, PTL

\* With a longer turnaround the tenth cycle is still a part of it.
LEMMA LongTurnaround ==
  ASSUME Turnaround # 1
  PROVE  10 \notin AckCycles
<1> DEFINE a == Item("request", 8)
           b == Item("turn", Turnaround)
           e == Item("ack", 3)
           r == IF reply # "OK" THEN Item("turn", Turnaround)
                ELSE IF op = "read"
                THEN Item("value", 32) \o Item("check", 1) \o Item("turn", Turnaround)
                ELSE Item("turn", Turnaround) \o DataItems(0, 32) \o Item("parity", 1)
           ab == a \o b
           abe == ab \o e
           f == abe \o r
<1>0. Turnaround \in Nat /\ Turnaround >= 2
  BY LineAssumption
<1>1. a \in Seq(Cycle) /\ Len(a) = 8
  BY ItemIs DEF Kinds
<1>2. b \in Seq(Cycle) /\ Len(b) = Turnaround /\ \A i \in 1..Turnaround : b[i] = <<"turn", i>>
  BY <1>0, ItemIs DEF Kinds
<1>3. e \in Seq(Cycle) /\ Len(e) = 3
  BY ItemIs DEF Kinds
<1>4. r \in Seq(Cycle)
  <2>1. Item("turn", Turnaround) \in Seq(Cycle)
    BY <1>2
  <2>2. Item("value", 32) \in Seq(Cycle) /\ Item("check", 1) \in Seq(Cycle)
    BY ItemIs DEF Kinds
  <2>3. DataItems(0, 32) \in Seq(Cycle) /\ Item("parity", 1) \in Seq(Cycle)
    BY ItemIs, DataItemsAre DEF Kinds
  <2>4. Item("value", 32) \o Item("check", 1) \in Seq(Cycle)
    BY <2>2, Behind
  <2>5. Item("value", 32) \o Item("check", 1) \o Item("turn", Turnaround) \in Seq(Cycle)
    BY <2>1, <2>4, Behind
  <2>6. Item("turn", Turnaround) \o DataItems(0, 32) \in Seq(Cycle)
    BY <2>1, <2>3, Behind
  <2>7. Item("turn", Turnaround) \o DataItems(0, 32) \o Item("parity", 1) \in Seq(Cycle)
    BY <2>3, <2>6, Behind
  <2> QED BY <2>1, <2>5, <2>7
<1>5. Frame = f
  BY DEF Frame
<1> HIDE DEF a, b, e, r
<1>6. /\ ab \in Seq(Cycle) /\ Len(ab) = Len(a) + Len(b)
      /\ \A c \in 1..Len(a) + Len(b) : ab[c] = IF c <= Len(a) THEN a[c] ELSE b[c - Len(a)]
  BY <1>1, <1>2, Behind
<1> HIDE DEF ab
<1>7. /\ abe \in Seq(Cycle) /\ Len(abe) = Len(ab) + Len(e)
      /\ \A c \in 1..Len(ab) + Len(e) : abe[c] = IF c <= Len(ab) THEN ab[c] ELSE e[c - Len(ab)]
  BY <1>3, <1>6, Behind
<1> HIDE DEF abe
<1>8. /\ f \in Seq(Cycle) /\ Len(f) = Len(abe) + Len(r)
      /\ \A c \in 1..Len(abe) + Len(r) : f[c] = IF c <= Len(abe) THEN abe[c] ELSE r[c - Len(abe)]
  BY <1>4, <1>7, Behind
<1> HIDE DEF f
<1>9. Len(ab) = 8 + Turnaround /\ ab[10] = b[2]
  BY <1>0, <1>1, <1>2, <1>6
<1>10. Len(abe) = 11 + Turnaround /\ abe[10] = ab[10]
  BY <1>0, <1>3, <1>7, <1>9
<1>11. f[10] = abe[10]
  <2>1. Len(r) \in Nat
    BY <1>4
  <2> QED BY <1>0, <1>8, <1>10, <2>1
<1>12. b[2] = <<"turn", 2>>
  BY <1>0, <1>2
<1>13. Frame[10] = <<"turn", 2>>
  BY <1>5, <1>9, <1>10, <1>11, <1>12
<1>14. Frame[10][1] # "ack"
  BY <1>13
<1> QED BY <1>14 DEF AckCycles

\* So the transaction stops at an acknowledge that is none of the target's.
Garbled ==
  /\ pc \in {"request", "ack", "done"}
  /\ pc = "request" => line = <<>>
  /\ pc = "ack" => Len(line) = 8
  /\ ack \in {"none", "garbled"}

LEMMA GarbledInvariant == ASSUME Turnaround # 1 PROVE Spec => []Garbled
<1>1. Init => Garbled
  BY DEF Init, Garbled
<1>2. Garbled /\ [Next]_vars => Garbled'
  <2> SUFFICES ASSUME Garbled, [Next]_vars PROVE Garbled'
    OBVIOUS
  <2>1. CASE Request
    <3> DEFINE t == Item("request", 8)
    <3>1. t \in Seq(Cycle) /\ Len(t) = 8
      BY ItemIs DEF Kinds
    <3>2. line' = <<>> \o t
      BY <2>1 DEF Request, Drive, Garbled
    <3> HIDE DEF t
    <3>3. line' = t
      BY <3>1, <3>2
    <3> QED BY <2>1, <3>1, <3>3 DEF Request, Garbled
  <2>2. CASE pc = "ack"
    <3>0. Len(line) = 8
      BY <2>2 DEF Garbled
    <3>1. Sampled(1) = 10
      BY <3>0 DEF Sampled
    <3>2. 10 \in {Sampled(i) : i \in 1..3}
      BY <3>1
    <3>3. AckRead = "garbled"
      BY <3>2, LongTurnaround DEF AckRead
    <3>4. CASE ReadAck
      BY <3>3, <3>4 DEF ReadAck, Garbled
    <3>5. CASE WriteAck
      BY <3>3, <3>5 DEF WriteAck, Garbled
    <3>6. CASE UNCHANGED vars
      BY <3>6 DEF vars, Garbled
    <3> QED BY <2>2, <3>4, <3>5, <3>6 DEF Next, Request, ReadLow, ReadMiddle, ReadHigh,
                                            WriteLow, WriteMiddle, WriteHigh
  <2>3. CASE UNCHANGED vars
    BY <2>3 DEF vars, Garbled
  <2> QED BY <2>1, <2>2, <2>3 DEF Garbled, Next, ReadAck, ReadLow, ReadMiddle, ReadHigh,
                                   WriteAck, WriteLow, WriteMiddle, WriteHigh
<1> QED BY <1>1, <1>2, PTL DEF Spec

\* The word that SWD_Transfer_LL puts together with shifts and returns with an OK has each
\* bit once, in its place, sampled in the cycle the target drove it in.  This holds for
\* every turnaround: with a longer one no OK is read.
THEOREM WordsRead == Spec => []WordInOrder
<1>1. ASSUME Turnaround = 1 PROVE LineInv => WordInOrder
  <2> SUFFICES ASSUME LineInv, pc = "done", op = "read", ack = "OK", NEW b \in 0..31
               PROVE  word[b] = {CycleOf(<<"value", b + 1>>)}
    BY DEF WordInOrder
  <2>1. reply = "OK"
    BY DEF LineInv, Answer
  <2>2. word = WordOf(32)
    BY <2>1 DEF LineInv, Collected
  <2>3. word[b] = {13 + b}
    BY <2>2 DEF WordOf
  <2> QED BY <1>1, <2>1, <2>3, CycleOfBit
<1>2. Garbled => WordInOrder
  BY DEF Garbled, WordInOrder
<1>3. CASE Turnaround = 1
  <2>1. LineInv => WordInOrder
    BY <1>1, <1>3
  <2>2. Spec => []LineInv
    BY <1>3, LineInvariant
  <2> QED BY <2>1, <2>2, PTL
<1>4. CASE Turnaround # 1
  <2>1. Spec => []Garbled
    BY <1>4, GarbledInvariant
  <2> QED BY <1>2, <2>1, PTL
<1> QED BY <1>3, <1>4

\* SWD_Transfer_LL returns the acknowledge of the target, and an error exactly when a
\* cycle of the word or its parity has been disturbed.
THEOREM HonestAck == ASSUME Turnaround = 1 PROVE Spec => []AckHonest
<1>1. LineInv => AckHonest
  BY DEF LineInv, Answer, AckHonest
<1> QED BY <1>1, LineInvariant, PTL
================================================================================
