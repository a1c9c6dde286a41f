---------------------------- MODULE SwdBlockProofs ----------------------------
(***************************************************************************)
(* SwdBlock for blocks of any length: what is counted is what is in the    *)
(* response, and every step of the block command is one of the transfer    *)
(* command on as many equal requests, or changes nothing there.            *)
(***************************************************************************)
EXTENDS SwdBlock, FiniteSetTheorems, TLAPS

\* Which loop the command is in, and how far it has come.
AtLoop ==
  /\ pc = "post" => kind = "ap" /\ count = 0 /\ rdbuf = 0
  /\ pc = "read" => kind \in {"ap", "dp"}
  /\ pc = "write" => kind = "write"
  /\ pc = "check" => kind = "write" /\ count = total /\ count > 0
  /\ pc \in {"post", "read", "write"} => count < total

\* While an access port is read, the target holds the word behind the counted ones.
Pipelined ==
  /\ kind # "ap" => rdbuf = 0
  /\ kind = "ap" /\ pc = "read" => rdbuf = count + 1

IInv ==
  /\ TypeOK
  /\ AtLoop
  /\ Pipelined
  /\ CountedWordsInOrder

-------------------------------------------------------------------------------
\* One more word behind n words in order.
LEMMA OneMore ==
  ASSUME NEW n \in Nat
  PROVE  Append([k \in 1..n |-> k], n + 1) = [k \in 1..(n + 1) |-> k]
<1> DEFINE s == [k \in 1..n |-> k]
           t == [k \in 1..(n + 1) |-> k]
<1>1. s \in Seq(Nat) /\ Len(s) = n /\ t \in Seq(Nat) /\ Len(t) = n + 1
  OBVIOUS
<1>2. \A i \in 1..(n + 1) : Append(s, n + 1)[i] = t[i]
  OBVIOUS
<1>3. Append(s, n + 1) \in Seq(Nat) /\ Len(Append(s, n + 1)) = n + 1
  OBVIOUS
<1> QED
  BY <1>1, <1>2, <1>3

\* The words in order are words of the block.
LEMMA InOrderIsSeq ==
  ASSUME NEW n \in Nat, NEW m \in Nat, n <= m
  PROVE  [k \in 1..n |-> k] \in Seq(1..m)
OBVIOUS

\* Initially nothing is counted and nothing is posted.
LEMMA InitInv == Init => IInv
<1> SUFFICES ASSUME Init PROVE IInv
  OBVIOUS
<1> USE BlockAssumption
<1>1. /\ kind \in {"ap", "dp", "write"} /\ total \in Nat /\ count = 0 /\ out = <<>>
      /\ rdbuf = 0 /\ unconfirmed = FALSE /\ ack = "none" /\ retry = RetryCount
      /\ total \in 0..MaxWords
  BY DEF Init, Kind
<1>2. /\ pc \in {"post", "read", "write", "done"}
      /\ pc = "post" => kind = "ap"
      /\ pc = "read" => kind = "dp"
      /\ pc = "write" => kind = "write"
      /\ pc # "done" => total > 0
  BY <1>1 DEF Init
<1>3. TypeOK
  <2>1. out \in Seq(1..total)
    BY <1>1
  <2>3. unconfirmed \in BOOLEAN
    BY <1>1
  <2>2. count \in 0..total /\ retry \in 0..RetryCount /\ rdbuf \in 0..total
    BY <1>1
  <2> QED
    BY <1>1, <1>2, <2>1, <2>2, <2>3 DEF TypeOK, Kind
<1>4. AtLoop /\ Pipelined
  BY <1>1, <1>2 DEF AtLoop, Pipelined
<1>5. CountedWordsInOrder
  <2>1. [k \in 1..0 |-> k] = <<>>
    OBVIOUS
  <2> QED
    BY <1>1, <2>1 DEF CountedWordsInOrder
<1> QED
  BY <1>3, <1>4, <1>5 DEF IInv

\* Every step of the command keeps the invariant.
LEMMA StepInv ==
  ASSUME IInv, [Next]_vars
  PROVE  IInv'
<1> USE BlockAssumption
<1>1. /\ kind \in {"ap", "dp", "write"} /\ total \in Nat /\ count \in Nat /\ count <= total
      /\ total \in 0..MaxWords
      /\ pc \in {"post", "read", "write", "check", "done"}
      /\ ack \in {"none", "OK", "WAIT", "FAULT", "ERROR"}
      /\ retry \in 0..RetryCount /\ out \in Seq(1..total) /\ rdbuf \in 0..total
      /\ unconfirmed \in BOOLEAN
      /\ RetryCount \in 0..RetryCount
  BY DEF IInv, TypeOK, Kind
<1>2. AtLoop /\ Pipelined /\ CountedWordsInOrder
  BY DEF IInv
<1>3. CASE Post
  <2>1. /\ pc = "post" /\ pc' = "read" /\ rdbuf' = 1 /\ unconfirmed' = FALSE
        /\ ack' = "OK" /\ retry' = RetryCount
        /\ UNCHANGED <<kind, total, count, out>>
        /\ kind = "ap" /\ count = 0 /\ count < total
    BY <1>2, <1>3 DEF Post, Accepted, AtLoop
  <2>2. TypeOK'
    <3>1. unconfirmed' \in BOOLEAN /\ out' \in Seq(1..total)'
      BY <1>1, <2>1
    <3>2. /\ count' \in 0..total' /\ retry' \in 0..RetryCount /\ rdbuf' \in 0..total'
          /\ pc' \in {"post", "read", "write", "check", "done"} /\ total' \in 0..MaxWords
      BY <1>1, <2>1
    <3> QED
      BY <1>1, <2>1, <3>1, <3>2 DEF TypeOK, Kind
  <2>3. AtLoop' /\ Pipelined'
    BY <1>1, <2>1 DEF AtLoop, Pipelined
  <2>4. CountedWordsInOrder'
    BY <1>2, <2>1 DEF CountedWordsInOrder
  <2> QED
    BY <2>2, <2>3, <2>4 DEF IInv
<1>4. CASE ReadWord
  <2>1. /\ pc = "read" /\ out' = Append(out, Arriving) /\ count' = count + 1
        /\ rdbuf' = PostedNext /\ unconfirmed' = FALSE
        /\ pc' = (IF count + 1 < total THEN "read" ELSE "done")
        /\ ack' = "OK" /\ retry' = RetryCount /\ UNCHANGED <<kind, total>>
        /\ count < total /\ kind \in {"ap", "dp"}
    BY <1>2, <1>4 DEF ReadWord, Accepted, AtLoop
  <2>2. Arriving = count + 1
    BY <1>2, <2>1 DEF Arriving, Pipelined
  <2>3. /\ out = [k \in 1..count |-> k]
        /\ out' = [k \in 1..(count + 1) |-> k]
    BY <1>1, <1>2, <2>1, <2>2, OneMore DEF CountedWordsInOrder
  <2>4. /\ rdbuf' \in 0..total
        /\ kind # "ap" => rdbuf' = 0
        /\ kind = "ap" /\ count + 1 < total => rdbuf' = count + 2
    BY <1>1, <2>1 DEF PostedNext
  <2>5. TypeOK'
    <3>1. out' \in Seq(1..total)
      BY <1>1, <2>1, <2>3, InOrderIsSeq
    <3>2. /\ count' \in 0..total' /\ retry' \in 0..RetryCount /\ rdbuf' \in 0..total'
          /\ pc' \in {"post", "read", "write", "check", "done"} /\ total' \in 0..MaxWords
      BY <1>1, <2>1, <2>4
    <3>3. unconfirmed' \in BOOLEAN
      BY <2>1
    <3> QED
      BY <1>1, <2>1, <3>1, <3>2, <3>3 DEF TypeOK, Kind
  <2>6. AtLoop' /\ Pipelined'
    BY <1>1, <2>1, <2>4 DEF AtLoop, Pipelined
  <2>7. CountedWordsInOrder'
    BY <2>1, <2>3 DEF CountedWordsInOrder
  <2> QED
    BY <2>5, <2>6, <2>7 DEF IInv
<1>5. CASE WriteWord
  <2>1. /\ pc = "write" /\ count' = count + 1 /\ rdbuf' = 0 /\ unconfirmed' = TRUE
        /\ pc' = (IF count + 1 < total THEN "write" ELSE "check")
        /\ ack' = "OK" /\ retry' = RetryCount /\ UNCHANGED <<kind, total, out>>
        /\ count < total /\ kind = "write"
    BY <1>2, <1>5 DEF WriteWord, Accepted, AtLoop
  <2>2. TypeOK'
    <3>1. unconfirmed' \in BOOLEAN /\ out' \in Seq(1..total)'
      BY <1>1, <2>1
    <3>2. /\ count' \in 0..total' /\ retry' \in 0..RetryCount /\ rdbuf' \in 0..total'
          /\ pc' \in {"post", "read", "write", "check", "done"} /\ total' \in 0..MaxWords
      BY <1>1, <2>1
    <3> QED
      BY <1>1, <2>1, <3>1, <3>2 DEF TypeOK, Kind
  <2>3. AtLoop' /\ Pipelined'
    BY <1>1, <2>1 DEF AtLoop, Pipelined
  <2>4. CountedWordsInOrder'
    BY <1>2, <2>1 DEF CountedWordsInOrder
  <2> QED
    BY <2>2, <2>3, <2>4 DEF IInv
<1>6. CASE CheckWrite
  <2>1. /\ pc = "check" /\ pc' = "done" /\ rdbuf' = 0 /\ unconfirmed' = FALSE
        /\ ack' = "OK" /\ retry' = RetryCount /\ UNCHANGED <<kind, total, count, out>>
        /\ kind = "write"
    BY <1>2, <1>6 DEF CheckWrite, Accepted, AtLoop
  <2>2. TypeOK'
    <3>1. unconfirmed' \in BOOLEAN /\ out' \in Seq(1..total)'
      BY <1>1, <2>1
    <3>2. /\ count' \in 0..total' /\ retry' \in 0..RetryCount /\ rdbuf' \in 0..total'
          /\ pc' \in {"post", "read", "write", "check", "done"} /\ total' \in 0..MaxWords
      BY <1>1, <2>1
    <3> QED
      BY <1>1, <2>1, <3>1, <3>2 DEF TypeOK, Kind
  <2>3. AtLoop' /\ Pipelined'
    BY <1>1, <2>1 DEF AtLoop, Pipelined
  <2>4. CountedWordsInOrder'
    BY <1>2, <2>1 DEF CountedWordsInOrder
  <2> QED
    BY <2>2, <2>3, <2>4 DEF IInv
<1>7. CASE Retry
  <2>1. /\ ack' = "WAIT" /\ retry' = retry - 1 /\ retry > 0
        /\ UNCHANGED <<kind, total, pc, count, out, rdbuf, unconfirmed>>
    BY <1>7 DEF Retry
  <2>2. TypeOK'
    BY <1>1, <2>1 DEF TypeOK, Kind
  <2>3. AtLoop' /\ Pipelined' /\ CountedWordsInOrder'
    BY <1>2, <2>1 DEF AtLoop, Pipelined, CountedWordsInOrder
  <2> QED
    BY <2>2, <2>3 DEF IInv
<1>8. CASE Fail
  <2>1. /\ pc # "done" /\ ack' \in {"WAIT", "FAULT", "ERROR"} /\ pc' = "done"
        /\ UNCHANGED <<kind, total, count, retry, out, rdbuf, unconfirmed>>
    BY <1>8 DEF Fail
  <2>2. TypeOK'
    BY <1>1, <2>1 DEF TypeOK, Kind
  <2>3. AtLoop' /\ Pipelined' /\ CountedWordsInOrder'
    BY <1>2, <2>1 DEF AtLoop, Pipelined, CountedWordsInOrder
  <2> QED
    BY <2>2, <2>3 DEF IInv
<1>9. CASE UNCHANGED vars
  BY <1>1, <1>2, <1>9 DEF vars, IInv, TypeOK, Kind, AtLoop, Pipelined, CountedWordsInOrder
<1> QED
  BY <1>3, <1>4, <1>5, <1>6, <1>7, <1>8, <1>9 DEF Next

-------------------------------------------------------------------------------
\* The inductive invariant, for blocks of any length and any retry count.
THEOREM Invariance == Spec => []IInv
<1>1. IInv /\ [Next]_vars => IInv'
  BY StepInv
<1> QED
  BY <1>1, InitInv, PTL DEF Spec

\* The state of the command keeps its type.
THEOREM TypeCorrect == Spec => []TypeOK
<1>1. IInv => TypeOK
  BY DEF IInv
<1> QED
  BY <1>1, Invariance, PTL

\* The response holds the words that are counted, each once and in order, and none
\* behind them, wherever the block stops.
THEOREM WordsOfBlock == Spec => []CountedWordsInOrder
<1>1. IInv => CountedWordsInOrder
  BY DEF IInv
<1> QED
  BY <1>1, Invariance, PTL

-------------------------------------------------------------------------------
\* The requests of the transfer command a block stands for.
LEMMA EqualRequests ==
  ASSUME total \in Nat, NEW n \in 1..total
  PROVE  /\ Requests[n].kind = kind /\ Requests[n].stamp = FALSE
         /\ Len(Requests) = total
         /\ Transfer!StageOf(Requests[n]) =
              [ap |-> "post", dp |-> "read", apMatch |-> "post", dpMatch |-> "compare",
               write |-> "write", mask |-> "mask"][kind]
<1>1. Requests[n] = [kind |-> kind, stamp |-> FALSE]
  BY DEF Requests
<1>2. Len(Requests) = total
  BY DEF Requests
<1> QED
  BY <1>1, <1>2 DEF Transfer!StageOf

\* A write takes a data word of the request, a read none.
LEMMA WordsOfRequests ==
  ASSUME total \in Nat, kind \in {"ap", "dp", "write"}, NEW n \in 0..total
  PROVE  Transfer!WordsUpTo(n) = IF kind = "write" THEN n ELSE 0
<1>1. \A k \in 1..n : Transfer!HasWord(Requests[k]) <=> kind = "write"
  <2> SUFFICES ASSUME NEW k \in 1..n
               PROVE  Transfer!HasWord(Requests[k]) <=> kind = "write"
    OBVIOUS
  <2>1. k \in 1..total
    OBVIOUS
  <2>2. Requests[k].kind = kind
    BY <2>1, EqualRequests
  <2> QED
    BY <2>2 DEF Transfer!HasWord
<1>0. \A S : Transfer!Cardinality(S) = Cardinality(S)
  BY Zenon DEF Transfer!Cardinality, Cardinality
<1>2. Transfer!Cardinality(1..n) = n /\ Transfer!Cardinality({}) = 0
  BY <1>0, FS_Interval, FS_EmptySet
<1>3. CASE kind = "write"
  <2>1. {k \in 1..n : Transfer!HasWord(Requests[k])} = 1..n
    BY <1>1, <1>3
  <2> QED
    BY <1>2, <1>3, <2>1 DEF Transfer!WordsUpTo
<1>4. CASE kind # "write"
  <2>1. {k \in 1..n : Transfer!HasWord(Requests[k])} = {}
    BY <1>1, <1>4
  <2> QED
    BY <1>2, <1>4, <2>1 DEF Transfer!WordsUpTo
<1> QED
  BY <1>3, <1>4

\* The response of the transfer command grows with that of the block.
LEMMA OutGrows ==
  ASSUME NEW w \in Nat, out \in Seq(Nat)
  PROVE  /\ OutInTransfer \in Seq(Nat) /\ OutInTransfer \o <<>> = OutInTransfer
         /\ out' = out => OutInTransfer' = OutInTransfer
         /\ out' = Append(out, w) =>
              /\ OutInTransfer' = Append(OutInTransfer, Transfer!ValueOf(w))
              /\ OutInTransfer' = OutInTransfer \o <<Transfer!ValueOf(w)>>
<1> DEFINE o == [i \in DOMAIN out |-> 2 * out[i] + 1]
           p == [i \in DOMAIN out' |-> 2 * out'[i] + 1]
<1>1. OutInTransfer = o /\ OutInTransfer' = p
  BY DEF OutInTransfer
<1>2. o \in Seq(Nat) /\ Len(o) = Len(out) /\ Len(out) \in Nat
  <2>1. DOMAIN out = 1..Len(out) /\ Len(out) \in Nat /\ \A i \in 1..Len(out) : out[i] \in Nat
    OBVIOUS
  <2> QED
    BY <2>1
<1>3. \A i \in 1..Len(out) : o[i] = 2 * out[i] + 1
  BY <1>2
<1>4. ASSUME out' = Append(out, w)
      PROVE  p = Append(o, 2 * w + 1)
  <2>1. /\ DOMAIN out' = 1..(Len(out) + 1) /\ out'[Len(out) + 1] = w
        /\ \A i \in 1..Len(out) : out'[i] = out[i]
    BY <1>2, <1>4
  <2> HIDE <1>4
  <2>2. p \in Seq(Nat) /\ Len(p) = Len(out) + 1
    <3>1. \A i \in 1..(Len(out) + 1) : out'[i] \in Nat
      <4>1. \A i \in 1..Len(out) : out[i] \in Nat
        OBVIOUS
      <4>2. \A i \in 1..(Len(out) + 1) : i \in 1..Len(out) \/ i = Len(out) + 1
        BY <1>2
      <4> QED
        BY <2>1, <4>1, <4>2
    <3> QED
      BY <1>2, <2>1, <3>1
  <2>3. \A i \in 1..(Len(out) + 1) : p[i] = Append(o, 2 * w + 1)[i]
    <3> SUFFICES ASSUME NEW i \in 1..(Len(out) + 1) PROVE p[i] = Append(o, 2 * w + 1)[i]
      OBVIOUS
    <3>1. p[i] = 2 * out'[i] + 1
      BY <2>1
    <3>2. CASE i = Len(out) + 1
      BY <1>2, <2>1, <3>1, <3>2
    <3>3. CASE i \in 1..Len(out)
      <4>1. Append(o, 2 * w + 1)[i] = o[i]
        BY <1>2, <3>3
      <4> QED
        BY <1>3, <2>1, <3>1, <3>3, <4>1
    <3> QED
      BY <1>2, <3>2, <3>3
  <2>4. Append(o, 2 * w + 1) \in Seq(Nat) /\ Len(Append(o, 2 * w + 1)) = Len(out) + 1
    BY <1>2
  <2> HIDE DEF o, p
  <2> QED
    BY <2>2, <2>3, <2>4, <1>2
<1>5. out' = out => p = o
  OBVIOUS
<1>6. o \o <<>> = o /\ \A x \in Nat : Append(o, x) = o \o <<x>>
  BY <1>2
<1>7. 2 * w + 1 \in Nat
  OBVIOUS
<1> HIDE DEF o, p
<1> QED
  BY <1>1, <1>2, <1>4, <1>5, <1>6, <1>7 DEF Transfer!ValueOf

\* What the transfer command keeps, seen from a block in the middle of its words.
LEMMA InTransfer ==
  ASSUME IInv, pc # "done"
  PROVE  /\ total \in Nat \ {0} /\ kind \in {"ap", "dp", "write"} /\ count \in Nat
         /\ Len(Requests) = total
         /\ pc # "check" /\ ~(pc = "read" /\ kind = "ap" /\ count + 1 = total) =>
              /\ Transfer!Cur \in 1..total /\ Transfer!Kind = kind
              /\ Transfer!CurStamp = <<>>
         /\ out \in Seq(Nat)
<1>1. /\ total \in Nat /\ kind \in {"ap", "dp", "write"} /\ count \in Nat
      /\ count <= total
      /\ pc \in {"post", "read", "write", "check"}
      /\ pc \in {"post", "read", "write"} => count < total
      /\ pc = "check" => count > 0 /\ count = total
      /\ pc = "post" => rdbuf = 0
      /\ pc = "write" => kind = "write"
      /\ kind # "ap" => rdbuf = 0
      /\ kind = "ap" /\ pc = "read" => rdbuf = count + 1
  BY DEF IInv, TypeOK, AtLoop, Pipelined, Kind
<1>2. out \in Seq(1..total)
  BY DEF IInv, TypeOK
<1>3. out \in Seq(Nat)
  BY <1>1, <1>2
<1>4. total \in Nat \ {0}
  BY <1>1
<1>5. Len(Requests) = total
  BY <1>1 DEF Requests
<1>6. ASSUME pc # "check", ~(pc = "read" /\ kind = "ap" /\ count + 1 = total)
      PROVE  /\ Transfer!Cur \in 1..total /\ Transfer!Kind = kind
             /\ Transfer!CurStamp = <<>>
  <2>1. Transfer!Cur \in 1..total
    BY <1>1, <1>6 DEF Transfer!Cur, CountInTransfer
  <2>2. Requests[Transfer!Cur].kind = kind /\ Requests[Transfer!Cur].stamp = FALSE
    BY <1>1, <2>1, EqualRequests
  <2> QED
    BY <2>1, <2>2 DEF Transfer!Kind, Transfer!CurStamp
<1> QED
  BY <1>1, <1>3, <1>4, <1>5, <1>6

\* The target's acceptance is the same in both commands.
LEMMA SameAcceptance ==
  ASSUME Accepted
  PROVE  Transfer!Accepted /\ Requests' = Requests
<1>1. Requests' = Requests
  BY DEF Accepted, Requests
<1> QED
  BY <1>1, Zenon DEF Accepted, Transfer!Accepted

\* The read in front of the loop posts.
LEMMA PostIsPost ==
  ASSUME IInv, Post
  PROVE  Transfer!Post
<1>1. /\ pc = "post" /\ kind = "ap" /\ count = 0 /\ rdbuf = 0 /\ count < total
      /\ pc' = "read" /\ rdbuf' = 1 /\ unconfirmed' = FALSE
      /\ UNCHANGED <<kind, total, count, out>>
  BY DEF IInv, AtLoop, Post, Accepted
<1>2. /\ total \in Nat \ {0} /\ Len(Requests) = total /\ Transfer!Kind = "ap"
      /\ Transfer!CurStamp = <<>> /\ out \in Seq(Nat)
  BY <1>1, InTransfer
<1>3. Transfer!Cur = 1
  BY <1>1 DEF Transfer!Cur, CountInTransfer
<1>4. Transfer!Accepted
  BY SameAcceptance DEF Post
<1>5. Transfer!Complete(TRUE, FALSE)
  <2>1. CountInTransfer' = Transfer!Cur
    BY <1>1, <1>3 DEF CountInTransfer
  <2>2. PostedInTransfer' = TRUE
    BY <1>1 DEF PostedInTransfer
  <2>3. CheckInTransfer' = FALSE
    BY <1>1 DEF CheckInTransfer
  <2>4. StageInTransfer' = Transfer!StartOf(Transfer!Cur + 1, TRUE, FALSE)
    BY <1>1, <1>2, <1>3 DEF StageInTransfer, Transfer!StartOf
  <2>5. WordsInTransfer' = Transfer!WordsUpTo(Transfer!Cur)
    BY <1>1, <1>2, <1>3, WordsOfRequests DEF WordsInTransfer
  <2> QED
    BY <2>1, <2>2, <2>3, <2>4, <2>5, Zenon DEF Transfer!Complete
<1>6. StageInTransfer = "post" /\ OutInTransfer' = OutInTransfer \o <<>>
  BY <1>1, <1>2, OutGrows DEF StageInTransfer
<1> QED
  BY <1>1, <1>2, <1>3, <1>4, <1>5, <1>6, Zenon DEF Transfer!Post

\* A read of the loop collects and posts, or collects the last word, or reads a debug
\* port register.
LEMMA ReadIsRead ==
  ASSUME IInv, ReadWord
  PROVE  Transfer!FlushPosting \/ Transfer!FinalRead \/ Transfer!ReadDp
<1>1. /\ pc = "read" /\ kind \in {"ap", "dp"} /\ count < total
      /\ out' = Append(out, Arriving) /\ count' = count + 1
      /\ rdbuf' = PostedNext /\ unconfirmed' = FALSE
      /\ pc' = (IF count + 1 < total THEN "read" ELSE "done")
      /\ ack' = "OK" /\ UNCHANGED <<kind, total>>
  BY DEF IInv, AtLoop, ReadWord, Accepted
<1>2. /\ total \in Nat \ {0} /\ Len(Requests) = total /\ count \in Nat /\ out \in Seq(Nat)
      /\ ~(kind = "ap" /\ count + 1 = total) =>
           Transfer!Cur \in 1..total /\ Transfer!Kind = kind /\ Transfer!CurStamp = <<>>
  BY <1>1, InTransfer
<1>3. /\ kind = "ap" => rdbuf = count + 1
      /\ kind = "dp" => rdbuf = 0
      /\ Arriving = count + 1
  BY <1>1 DEF IInv, Pipelined, Arriving
<1>4. Transfer!Accepted
  BY SameAcceptance DEF ReadWord
<1>5. /\ OutInTransfer' = Append(OutInTransfer, Transfer!ValueOf(count + 1))
      /\ OutInTransfer' = OutInTransfer \o <<Transfer!ValueOf(count + 1)>>
      /\ OutInTransfer \o <<>> = OutInTransfer
  <2>1. count + 1 \in Nat
    BY <1>2
  <2> QED
    BY <1>1, <1>2, <1>3, <2>1, OutGrows
<1>6. CASE kind = "ap" /\ count + 1 < total
  <2>1. /\ rdbuf' = count + 2 /\ Transfer!Cur = count + 2 /\ Transfer!Kind = "ap"
        /\ Transfer!CurStamp = <<>> /\ StageInTransfer = "flush"
    BY <1>1, <1>2, <1>3, <1>6 DEF PostedNext, Transfer!Cur, CountInTransfer, StageInTransfer
  <2>2. Transfer!Complete(TRUE, FALSE)
    <3>1. CountInTransfer' = Transfer!Cur
      BY <1>1, <1>2, <2>1 DEF CountInTransfer
    <3>2. PostedInTransfer' = TRUE
      BY <1>1, <1>2, <1>6, <2>1 DEF PostedInTransfer
    <3>3. CheckInTransfer' = FALSE
      BY <1>1, <1>6 DEF CheckInTransfer
    <3>4. StageInTransfer' = Transfer!StartOf(Transfer!Cur + 1, TRUE, FALSE)
      BY <1>1, <1>2, <1>6, <2>1 DEF StageInTransfer, Transfer!StartOf
    <3>5. WordsInTransfer' = Transfer!WordsUpTo(Transfer!Cur)
      BY <1>1, <1>2, <1>6, <2>1, WordsOfRequests DEF WordsInTransfer
    <3> QED
      BY <3>1, <3>2, <3>3, <3>4, <3>5, Zenon DEF Transfer!Complete
  <2>3. OutInTransfer' = OutInTransfer \o <<Transfer!ValueOf(rdbuf)>> \o Transfer!CurStamp
    <3>1. /\ OutInTransfer \in Seq(Nat) /\ rdbuf = count + 1
      BY <1>2, <1>3, <1>6, OutGrows
    <3>2. OutInTransfer \o <<Transfer!ValueOf(rdbuf)>> \in Seq(Nat)
      BY <1>2, <3>1 DEF Transfer!ValueOf
    <3>3. OutInTransfer \o <<Transfer!ValueOf(rdbuf)>> \o <<>>
            = OutInTransfer \o <<Transfer!ValueOf(rdbuf)>>
      BY <3>2
    <3> QED
      BY <1>5, <2>1, <3>1, <3>3
  <2>4. rdbuf' = Transfer!Cur
    BY <2>1
  <2>5. Transfer!FlushPosting
    BY <1>1, <1>4, <2>1, <2>2, <2>3, <2>4, Zenon DEF Transfer!FlushPosting
  <2> QED
    BY <2>5
<1>7. CASE kind = "ap" /\ count + 1 = total
  <2>1. /\ rdbuf' = 0 /\ rdbuf = count + 1 /\ StageInTransfer = "final" /\ pc' = "done"
    BY <1>1, <1>2, <1>3, <1>7 DEF PostedNext, StageInTransfer
  <2>2. Transfer!GoOn("done")
    <3>1. CountInTransfer' = CountInTransfer
      BY <1>1, <1>2, <2>1 DEF CountInTransfer
    <3>2. CheckInTransfer' = CheckInTransfer
      BY <1>1, <1>7 DEF CheckInTransfer
    <3>3. StageInTransfer' = "done" /\ WordsInTransfer' = WordsInTransfer
      BY <1>1, <1>7, <2>1 DEF StageInTransfer, WordsInTransfer
    <3> QED
      BY <3>1, <3>2, <3>3, Zenon DEF Transfer!GoOn
  <2>3. PostedInTransfer' = PostedInTransfer
    BY <1>1, <1>2, <1>7, <2>1 DEF PostedInTransfer
  <2>4. OutInTransfer' = Append(OutInTransfer, Transfer!ValueOf(rdbuf))
    BY <1>5, <2>1
  <2>5. Transfer!FinalRead
    BY <1>1, <1>4, <2>1, <2>2, <2>3, <2>4, Zenon DEF Transfer!FinalRead
  <2> QED
    BY <2>5
<1>8. CASE kind = "dp"
  <2>1. /\ rdbuf' = 0 /\ rdbuf = 0 /\ StageInTransfer = "read" /\ Transfer!Cur = count + 1
        /\ Transfer!CurStamp = <<>>
    BY <1>1, <1>2, <1>3, <1>8 DEF PostedNext, StageInTransfer, Transfer!Cur, CountInTransfer
  <2>2. PostedInTransfer = FALSE /\ PostedInTransfer' = FALSE
    BY <1>1, <1>8 DEF PostedInTransfer
  <2>3. Transfer!Complete(PostedInTransfer, FALSE)
    <3>1. CountInTransfer' = Transfer!Cur
      BY <1>1, <2>1 DEF CountInTransfer
    <3>2. CheckInTransfer' = FALSE
      BY <1>1, <1>8 DEF CheckInTransfer
    <3>3. StageInTransfer' = Transfer!StartOf(Transfer!Cur + 1, FALSE, FALSE)
      <4>1. CASE count + 1 < total
        <5>1. Transfer!StageOf(Requests[Transfer!Cur + 1]) = "read"
          <6>1. Transfer!Cur + 1 \in 1..total
            BY <1>2, <2>1, <4>1
          <6> QED
            BY <1>2, <1>8, <6>1, EqualRequests
        <5> QED
          BY <1>1, <1>2, <1>8, <2>1, <4>1, <5>1 DEF StageInTransfer, Transfer!StartOf
      <4>2. CASE ~(count + 1 < total)
        BY <1>1, <1>2, <1>8, <2>1, <4>2 DEF StageInTransfer, Transfer!StartOf
      <4> QED
        BY <4>1, <4>2
    <3>4. WordsInTransfer' = Transfer!WordsUpTo(Transfer!Cur)
      BY <1>1, <1>2, <1>8, <2>1, WordsOfRequests DEF WordsInTransfer
    <3> QED
      BY <2>2, <3>1, <3>2, <3>3, <3>4, Zenon DEF Transfer!Complete
  <2>4. OutInTransfer' = OutInTransfer \o Transfer!CurStamp \o <<Transfer!ValueOf(Transfer!Cur)>>
    BY <1>5, <2>1
  <2>5. Transfer!ReadDp
    BY <1>1, <1>4, <2>1, <2>3, <2>4, Zenon DEF Transfer!ReadDp
  <2> QED
    BY <2>5
<1> QED
  BY <1>1, <1>2, <1>6, <1>7, <1>8

\* A write is a write.
LEMMA WriteIsWrite ==
  ASSUME IInv, WriteWord
  PROVE  Transfer!Write
<1>1. /\ pc = "write" /\ kind = "write" /\ count < total /\ rdbuf = 0
      /\ count' = count + 1 /\ rdbuf' = 0 /\ unconfirmed' = TRUE
      /\ pc' = (IF count + 1 < total THEN "write" ELSE "check")
      /\ UNCHANGED <<kind, total, out>>
  BY DEF IInv, AtLoop, Pipelined, WriteWord, Accepted
<1>2. /\ total \in Nat \ {0} /\ Len(Requests) = total /\ count \in Nat /\ out \in Seq(Nat)
      /\ Transfer!CurStamp = <<>>
  BY <1>1, InTransfer
<1>3. Transfer!Cur = count + 1 /\ StageInTransfer = "write"
  BY <1>1 DEF Transfer!Cur, CountInTransfer, StageInTransfer
<1>4. Transfer!Accepted
  BY SameAcceptance DEF WriteWord
<1>5. PostedInTransfer = FALSE /\ PostedInTransfer' = FALSE
  BY <1>1 DEF PostedInTransfer
<1>6. Transfer!Complete(PostedInTransfer, TRUE)
  <2>1. CountInTransfer' = Transfer!Cur
    BY <1>1, <1>3 DEF CountInTransfer
  <2>2. CheckInTransfer' = TRUE
    BY <1>1, <1>2 DEF CheckInTransfer
  <2>3. StageInTransfer' = Transfer!StartOf(Transfer!Cur + 1, FALSE, TRUE)
    <3>1. CASE count + 1 < total
      <4>1. Transfer!StageOf(Requests[Transfer!Cur + 1]) = "write"
        <5>1. Transfer!Cur + 1 \in 1..total
          BY <1>2, <1>3, <3>1
        <5> QED
          BY <1>1, <1>2, <5>1, EqualRequests
      <4> QED
        BY <1>1, <1>2, <1>3, <3>1, <4>1 DEF StageInTransfer, Transfer!StartOf
    <3>2. CASE ~(count + 1 < total)
      BY <1>1, <1>2, <1>3, <3>2 DEF StageInTransfer, Transfer!StartOf
    <3> QED
      BY <3>1, <3>2
  <2>4. WordsInTransfer' = Transfer!WordsUpTo(Transfer!Cur)
    BY <1>1, <1>2, <1>3, WordsOfRequests DEF WordsInTransfer
  <2> QED
    BY <1>5, <2>1, <2>2, <2>3, <2>4, Zenon DEF Transfer!Complete
<1>7. OutInTransfer' = OutInTransfer \o Transfer!CurStamp
  BY <1>1, <1>2, OutGrows
<1> QED
  BY <1>1, <1>3, <1>4, <1>6, <1>7, Zenon DEF Transfer!Write

\* The access behind the last write is that of the transfer command.
LEMMA CheckIsCheck ==
  ASSUME IInv, CheckWrite
  PROVE  Transfer!CheckWrite
<1>1. /\ pc = "check" /\ pc' = "done" /\ kind = "write" /\ rdbuf = 0
      /\ rdbuf' = 0 /\ unconfirmed' = FALSE /\ ack' = "OK"
      /\ UNCHANGED <<kind, total, count, out>>
  BY DEF IInv, AtLoop, Pipelined, CheckWrite, Accepted
<1>2. Transfer!Accepted
  BY SameAcceptance DEF CheckWrite
<1>3. PostedInTransfer' = PostedInTransfer
  BY <1>1 DEF PostedInTransfer
<1>4. Transfer!GoOn("done")
  <2>1. CountInTransfer' = CountInTransfer /\ CheckInTransfer' = CheckInTransfer
    BY <1>1 DEF CountInTransfer, CheckInTransfer
  <2>2. StageInTransfer' = "done" /\ WordsInTransfer' = WordsInTransfer
    BY <1>1 DEF StageInTransfer, WordsInTransfer
  <2> QED
    BY <2>1, <2>2, Zenon DEF Transfer!GoOn
<1>5. StageInTransfer = "check" /\ OutInTransfer' = OutInTransfer
  BY <1>1 DEF StageInTransfer, OutInTransfer
<1> QED
  BY <1>1, <1>2, <1>3, <1>4, <1>5, Zenon DEF Transfer!CheckWrite

\* A retry, or a stop, of the block is one of the transfer.
LEMMA RefusedIsRefused ==
  ASSUME IInv, Retry \/ Fail
  PROVE  Transfer!Retry \/ Transfer!Fail
<1>1. /\ pc # "done"
      /\ UNCHANGED <<kind, total, count, out, rdbuf, unconfirmed>>
  BY DEF Retry, Fail
<1>2. /\ total \in Nat \ {0} /\ Len(Requests) = total /\ kind \in {"ap", "dp", "write"}
      /\ pc \in {"post", "read", "write", "check"}
  BY <1>1, InTransfer DEF IInv, TypeOK
<1>3. /\ Requests' = Requests /\ CountInTransfer' = CountInTransfer
      /\ OutInTransfer' = OutInTransfer
  BY <1>1 DEF Requests, CountInTransfer, OutInTransfer
<1>4. CheckInTransfer' = CheckInTransfer
  BY <1>1 DEF CheckInTransfer
<1>5. PostedInTransfer' = PostedInTransfer
  BY <1>1 DEF PostedInTransfer
<1>6. StageInTransfer \in Transfer!Accesses /\ StageInTransfer # "compare"
  BY <1>2 DEF StageInTransfer, Transfer!Accesses, Transfer!Stage
<1>7. CASE Retry
  <2>1. retry > 0 /\ ack' = "WAIT" /\ retry' = retry - 1 /\ pc' = pc
    BY <1>7 DEF Retry
  <2>2. StageInTransfer' = StageInTransfer /\ WordsInTransfer' = WordsInTransfer
    BY <1>1, <2>1 DEF StageInTransfer, WordsInTransfer
  <2> QED
    BY <1>1, <1>3, <1>4, <1>5, <1>6, <2>1, <2>2, Zenon DEF Transfer!Retry
<1>8. CASE Fail
  <2>1. PICK reply \in {"WAIT", "FAULT", "ERROR"} :
          /\ reply = "WAIT" => retry = 0
          /\ reply = "ERROR" => pc # "write"
          /\ ack' = reply
    BY <1>8 DEF Fail
  <2>2. pc' = "done" /\ retry' = retry
    BY <1>8 DEF Fail
  <2>3. reply = "ERROR" => StageInTransfer # "write"
    BY <2>1 DEF StageInTransfer
  <2>4. FALSE \in Transfer!MismatchAfter(reply)
    BY <1>6 DEF Transfer!MismatchAfter
  <2>5. WordsInTransfer' \in Transfer!WordsAtFailure
    <3>1. ~(StageInTransfer = "flush" /\ Transfer!HasWord(Requests[Transfer!Cur]))
      <4>1. CASE StageInTransfer = "flush"
        <5>1. kind = "ap" /\ pc = "read" /\ count + 1 < total
          BY <1>2, <4>1 DEF StageInTransfer
        <5>2. Transfer!Kind = kind
          BY <1>1, <5>1, InTransfer
        <5> QED
          BY <5>1, <5>2 DEF Transfer!HasWord, Transfer!Kind
      <4> QED
        BY <4>1
    <3>2. WordsInTransfer' = Transfer!WordsUpTo(total)
      BY <1>1, <1>2, <2>1, <2>2, WordsOfRequests DEF WordsInTransfer
    <3> QED
      BY <1>2, <3>1, <3>2 DEF Transfer!WordsAtFailure
  <2>6. PostedInTransfer' = (PostedInTransfer /\ ~(StageInTransfer = "flush"
                              /\ Transfer!Kind \in {"dp", "dpMatch", "apMatch"}))
    <3>1. CASE StageInTransfer = "flush"
      <4>1. kind = "ap" /\ pc = "read" /\ count + 1 < total
        BY <1>2, <3>1 DEF StageInTransfer
      <4>2. Transfer!Kind = "ap"
        BY <1>1, <4>1, InTransfer
      <4>3. Transfer!Kind \notin {"dp", "dpMatch", "apMatch"}
        BY <4>2
      <4>4. PostedInTransfer \in BOOLEAN
        BY DEF PostedInTransfer
      <4> QED
        BY <1>5, <4>3, <4>4, Zenon
    <3>2. CASE StageInTransfer # "flush"
      <4>1. PostedInTransfer \in BOOLEAN
        BY DEF PostedInTransfer
      <4> QED
        BY <1>5, <3>2, <4>1, Zenon
    <3> QED
      BY <3>1, <3>2
  <2>7. StageInTransfer' = "done"
    BY <2>2 DEF StageInTransfer
  <2>8. /\ reply = "WAIT" => retry = 0
        /\ reply = "ERROR" => StageInTransfer # "write"
        /\ ack' = reply
        /\ FALSE \in Transfer!MismatchAfter(reply)
    BY <2>1, <2>3, <2>4
  <2> QED
    BY <1>1, <1>3, <1>4, <1>6, <2>2, <2>5, <2>6, <2>7, <2>8, Zenon DEF Transfer!Fail
<1> QED
  BY <1>7, <1>8

\* The initial states are initial states of the transfer command.
LEMMA InitIsInit == Init => Transfer!Init
<1> SUFFICES ASSUME Init PROVE Transfer!Init
  OBVIOUS
<1>1. /\ total \in Nat /\ total \in 0..MaxWords /\ kind \in {"ap", "dp", "write"}
      /\ count = 0 /\ rdbuf = 0 /\ out = <<>> /\ ack = "none" /\ retry = RetryCount
      /\ unconfirmed = FALSE
      /\ pc = (IF total = 0 THEN "done"
               ELSE [ap |-> "post", dp |-> "read", write |-> "write"][kind])
  BY BlockAssumption DEF Init, Kind
<1>2. Requests \in [1..total -> Transfer!Request]
  <2>1. [kind |-> kind, stamp |-> FALSE] \in Transfer!Request
    BY <1>1 DEF Transfer!Request
  <2> QED
    BY <2>1 DEF Requests
<1>3. StageInTransfer = IF Requests = <<>> THEN "done" ELSE Transfer!StageOf(Requests[1])
  <2>1. CASE total = 0
    <3>1. Requests = <<>>
      BY <2>1 DEF Requests
    <3> QED
      BY <1>1, <2>1, <3>1 DEF StageInTransfer
  <2>2. CASE total # 0
    <3>1. Len(Requests) = total /\ Requests # <<>>
      BY <1>1, <2>2 DEF Requests
    <3>2. Transfer!StageOf(Requests[1]) =
            [ap |-> "post", dp |-> "read", apMatch |-> "post", dpMatch |-> "compare",
             write |-> "write", mask |-> "mask"][kind]
      <4>1. 1 \in 1..total
        BY <1>1, <2>2
      <4> QED
        BY <1>1, <4>1, EqualRequests
    <3> QED
      BY <1>1, <2>2, <3>1, <3>2 DEF StageInTransfer
  <2> QED
    BY <2>1, <2>2
<1>4. /\ CountInTransfer = 0 /\ WordsInTransfer = 0
      /\ PostedInTransfer = FALSE /\ CheckInTransfer = FALSE
  <2>1. CountInTransfer = 0 /\ WordsInTransfer = 0
    BY <1>1 DEF CountInTransfer, WordsInTransfer
  <2>2. PostedInTransfer = FALSE
    BY <1>1 DEF PostedInTransfer
  <2>3. CheckInTransfer = FALSE
    BY <1>1 DEF CheckInTransfer
  <2> QED
    BY <2>1, <2>2, <2>3
<1>5. OutInTransfer = <<>>
  BY <1>1 DEF OutInTransfer
<1>6. \E n \in 0..MaxWords : Requests \in [1..n -> Transfer!Request]
  BY <1>1, <1>2
<1> QED
  BY <1>1, <1>3, <1>4, <1>5, <1>6, Zenon DEF Transfer!Init

\* The safety half of ActsLikeTransfer: a block of any length behaves as the transfer
\* of as many equal requests.
THEOREM BlockIsTransfer ==
  Spec => Transfer!Init /\ [][Transfer!Next]_(Transfer!vars)
<1>1. IInv /\ [Next]_vars => [Transfer!Next]_(Transfer!vars)
  <2> SUFFICES ASSUME IInv, [Next]_vars PROVE [Transfer!Next]_(Transfer!vars)
    OBVIOUS
  <2>1. CASE Next
    <3>1. CASE Post
      BY <3>1, PostIsPost, Zenon DEF Transfer!Next
    <3>2. CASE ReadWord
      BY <3>2, ReadIsRead, Zenon DEF Transfer!Next
    <3>3. CASE WriteWord
      BY <3>3, WriteIsWrite, Zenon DEF Transfer!Next
    <3>4. CASE CheckWrite
      BY <3>4, CheckIsCheck, Zenon DEF Transfer!Next
    <3>5. CASE Retry \/ Fail
      BY <3>5, RefusedIsRefused, Zenon DEF Transfer!Next
    <3> QED
      BY <2>1, <3>1, <3>2, <3>3, <3>4, <3>5 DEF Next
  <2>2. CASE UNCHANGED vars
    BY <2>2 DEF vars, Transfer!vars, Requests, StageInTransfer, CountInTransfer,
                PostedInTransfer, CheckInTransfer, WordsInTransfer, OutInTransfer
  <2> QED
    BY <2>1, <2>2
<1> QED
  BY <1>1, InitIsInit, Invariance, PTL DEF Spec
================================================================================
