--------------------------- MODULE SwdTransferProofs ---------------------------
(***************************************************************************)
(* SwdTransfer for commands of any length and any retry counts.  The       *)
(* invariant says at every stage what post_read means: there is one value  *)
(* missing from the response, it is that of the last request, and it is    *)
(* what the target will answer next.                                       *)
(***************************************************************************)
EXTENDS SwdTransfer, FiniteSetTheorems, SequenceTheorems, TLAPS

\* What each stage says about the request and about post_read.
AtStage ==
  /\ pc \in {"flush", "final"} => posted
  /\ pc \in {"post", "read", "compare", "write", "mask", "check"} => ~posted
  /\ pc = "post" => Kind \in {"ap", "apMatch"}
  /\ pc = "read" => Kind = "dp"
  /\ pc = "compare" => Kind \in {"apMatch", "dpMatch"}
  /\ pc = "write" => Kind = "write"
  /\ pc = "mask" => Kind = "mask"
  /\ pc \in {"final", "check"} => count = Len(reqs)
  /\ pc = "done" /\ ack = "OK" /\ ~mismatch => count = Len(reqs)
  /\ pc # "done" => words <= count /\ ~mismatch

\* What is in the response, and where the missing value is.
Contents ==
  /\ ReadsInOrder
  /\ pc # "done" /\ ~posted => Entries(out) = Expected(count)
  /\ pc # "done" /\ posted =>
       /\ count > 0 /\ reqs[count].kind = "ap"
       /\ rdbuf = count
       /\ ValueOf(count) \notin Entries(out)
  /\ pc = "done" /\ ack = "OK" /\ ~mismatch => Entries(out) = Expected(count)

\* An unconfirmed write is one the command knows it has to check.
Confirmation ==
  /\ pc # "done" /\ unconfirmed => checkWrite /\ ~posted
  /\ WritesConfirmed

IInv ==
  /\ TypeOK
  /\ AtStage
  /\ Contents
  /\ Confirmation
  /\ ComparesOwnRegister

-------------------------------------------------------------------------------
\* Every request has a stage, and needs the data it is the stage for.
LEMMA StageOfRequest ==
  ASSUME NEW r \in Request
  PROVE  /\ StageOf(r) \in {"post", "read", "compare", "write", "mask"}
         /\ StageOf(r) = "post" => r.kind \in {"ap", "apMatch"}
         /\ StageOf(r) = "read" => r.kind = "dp"
         /\ StageOf(r) = "compare" => r.kind = "dpMatch"
         /\ StageOf(r) = "write" => r.kind = "write"
         /\ StageOf(r) = "mask" => r.kind = "mask"
<1>1. r.kind \in {"ap", "dp", "write", "apMatch", "dpMatch", "mask"}
  BY DEF Request
<1>2. CASE r.kind \in {"ap", "apMatch"}
  BY <1>2 DEF StageOf
<1>3. CASE r.kind = "dp"
  BY <1>3 DEF StageOf
<1>4. CASE r.kind = "dpMatch"
  BY <1>4 DEF StageOf
<1>5. CASE r.kind = "write"
  BY <1>5 DEF StageOf
<1>6. CASE r.kind = "mask"
  BY <1>6 DEF StageOf
<1> QED
  BY <1>1, <1>2, <1>3, <1>4, <1>5, <1>6

\* The data words of n requests are at most n.
LEMMA WordsBound ==
  ASSUME NEW n \in Nat
  PROVE  WordsUpTo(n) \in 0..n
<1>1. IsFiniteSet(1..n) /\ Cardinality(1..n) = n
  BY FS_Interval
<1>2. {k \in 1..n : HasWord(reqs[k])} \subseteq 1..n
  OBVIOUS
<1> HIDE DEF HasWord
<1>3. Cardinality({k \in 1..n : HasWord(reqs[k])}) \in Nat
  BY <1>1, <1>2, FS_Subset, FS_CardinalityType
<1>4. Cardinality({k \in 1..n : HasWord(reqs[k])}) <= n
  BY <1>1, <1>2, FS_Subset
<1> QED
  BY <1>3, <1>4 DEF WordsUpTo

\* The entries of the first n requests are numbered below those of request n + 1.
LEMMA ExpectedBound ==
  ASSUME NEW n \in Nat, NEW y \in Expected(n)
  PROVE  y \in Nat /\ y <= ValueOf(n)
BY DEF Expected, StampOf, ValueOf

\* One more request adds its timestamp and its value.
LEMMA ExpectedStep ==
  ASSUME NEW n \in Nat
  PROVE  Expected(n + 1) = Expected(n)
           \cup (IF reqs[n + 1].stamp THEN {StampOf(n + 1)} ELSE {})
           \cup (IF reqs[n + 1].kind \in {"ap", "dp"} THEN {ValueOf(n + 1)} ELSE {})
<1>1. 1..(n + 1) = (1..n) \cup {n + 1}
  OBVIOUS
<1> QED
  BY <1>1 DEF Expected

\* What is stored behind smaller entries keeps the response in order.
LEMMA StoreInOrder ==
  ASSUME NEW s \in Seq(Nat), NEW x \in Nat,
         Increasing(s), \A y \in Entries(s) : y < x
  PROVE  /\ Append(s, x) \in Seq(Nat)
         /\ Increasing(Append(s, x))
         /\ Entries(Append(s, x)) = Entries(s) \cup {x}
<1> DEFINE t == Append(s, x)
<1>1. /\ t \in Seq(Nat) /\ Len(s) \in Nat
      /\ DOMAIN s = 1..Len(s) /\ DOMAIN t = 1..(Len(s) + 1)
      /\ t[Len(s) + 1] = x
      /\ \A i \in 1..Len(s) : t[i] = s[i]
  OBVIOUS
<1> HIDE DEF t
<1>2. Increasing(t)
  <2> SUFFICES ASSUME NEW i \in DOMAIN t, NEW j \in DOMAIN t, i < j
               PROVE  t[i] < t[j]
    BY DEF Increasing
  <2>1. i \in 1..Len(s) /\ t[i] = s[i] /\ s[i] \in Entries(s)
    BY <1>1 DEF Entries
  <2>2. CASE j = Len(s) + 1
    BY <1>1, <2>1, <2>2
  <2>3. CASE j \in 1..Len(s)
    BY <1>1, <2>1, <2>3 DEF Increasing
  <2> QED
    BY <1>1, <2>2, <2>3
<1>3. Entries(t) = Entries(s) \cup {x}
  BY <1>1 DEF Entries
<1> QED
  BY <1>1, <1>2, <1>3 DEF t

\* The timestamp of the current request, when it asks for one, behind what earlier
\* requests have left.
LEMMA StampInOrder ==
  ASSUME NEW s \in Seq(Nat), count \in Nat, reqs[Cur].stamp \in BOOLEAN,
         Increasing(s), \A y \in Entries(s) : y < StampOf(Cur)
  PROVE  /\ s \o CurStamp \in Seq(Nat)
         /\ Increasing(s \o CurStamp)
         /\ Entries(s \o CurStamp)
              = Entries(s) \cup (IF reqs[Cur].stamp THEN {StampOf(Cur)} ELSE {})
<1>1. StampOf(Cur) \in Nat
  BY DEF StampOf, Cur
<1>2. CASE reqs[Cur].stamp
  <2>1. CurStamp = <<StampOf(Cur)>>
    BY <1>2 DEF CurStamp
  <2>2. s \o <<StampOf(Cur)>> = Append(s, StampOf(Cur))
    BY <1>1, AppendIsConcat
  <2> QED
    BY <1>1, <1>2, <2>1, <2>2, StoreInOrder
<1>3. CASE ~reqs[Cur].stamp
  <2>1. CurStamp = <<>>
    BY <1>3 DEF CurStamp
  <2>2. s \o <<>> = s
    BY ConcatEmptySeq
  <2> QED
    BY <1>3, <2>1, <2>2
<1> QED
  BY <1>2, <1>3

\* A request being processed is one of the command.
LEMMA CurrentRequest ==
  ASSUME TypeOK, pc \notin {"final", "check", "done"}
  PROVE  /\ Cur \in 1..Len(reqs) /\ Cur = count + 1 /\ count \in Nat
         /\ reqs[Cur] \in Request
         /\ reqs[Cur].stamp \in BOOLEAN
         /\ Kind \in {"ap", "dp", "write", "apMatch", "dpMatch", "mask"}
<1>1. Cur \in 1..Len(reqs) /\ Cur = count + 1 /\ count \in Nat
  BY DEF TypeOK, Cur
<1>2. reqs[Cur] \in Request
  BY <1>1 DEF TypeOK
<1> QED
  BY <1>1, <1>2 DEF Request, Kind

\* The current request has been processed, with what it has made of post_read and
\* check_write.
Completed == Complete(posted', checkWrite')

\* Where the command stands when a request has been processed.
LEMMA AfterRequest ==
  ASSUME TypeOK, pc \notin {"final", "check", "done"}, reqs' = reqs,
         posted' \in BOOLEAN, checkWrite' \in BOOLEAN, Completed
  PROVE  /\ count' = Cur
         /\ pc' \in Stage /\ words' \in 0..Cur /\ matchRetry' = MatchRetry
         /\ pc' \notin {"final", "check", "done"} => count' < Len(reqs)
         /\ pc' \in {"flush", "final"} => posted'
         /\ pc' \in {"post", "read", "compare", "write", "mask", "check"} => ~posted'
         /\ pc' = "post" => Kind' \in {"ap", "apMatch"}
         /\ pc' = "read" => Kind' = "dp"
         /\ pc' = "compare" => Kind' = "dpMatch"
         /\ pc' = "write" => Kind' = "write"
         /\ pc' = "mask" => Kind' = "mask"
         /\ pc' \in {"final", "check", "done"} => count' = Len(reqs)
         /\ pc' = "done" => ~posted' /\ ~checkWrite'
<1>1. /\ Cur \in 1..Len(reqs) /\ Len(reqs) \in Nat /\ reqs \in Seq(Request)
  BY CurrentRequest DEF TypeOK
<1>2. /\ count' = Cur /\ matchRetry' = MatchRetry /\ words' = WordsUpTo(Cur)
      /\ Cur + 1 <= Len(reqs) /\ posted' => pc' = "flush"
      /\ Cur + 1 <= Len(reqs) /\ ~posted' => pc' = StageOf(reqs[Cur + 1])
      /\ ~(Cur + 1 <= Len(reqs)) /\ posted' => pc' = "final"
      /\ ~(Cur + 1 <= Len(reqs)) /\ ~posted' /\ checkWrite' => pc' = "check"
      /\ ~(Cur + 1 <= Len(reqs)) /\ ~posted' /\ ~checkWrite' => pc' = "done"
  BY DEF Completed, Complete, StartOf
<1>3. words' \in 0..Cur
  BY <1>1, <1>2, WordsBound
<1>4. CASE Cur + 1 <= Len(reqs) /\ posted'
  BY <1>1, <1>2, <1>3, <1>4 DEF Stage
<1>5. CASE Cur + 1 <= Len(reqs) /\ ~posted'
  <2> DEFINE r == reqs[Cur + 1]
  <2>1. r \in Request
    BY <1>1, <1>5
  <2>2. pc' = StageOf(r) /\ Kind' = r.kind
    BY <1>2, <1>5 DEF Kind, Cur
  <2> HIDE DEF r
  <2> QED
    BY <1>1, <1>2, <1>3, <1>5, <2>1, <2>2, StageOfRequest DEF Stage
<1>6. CASE ~(Cur + 1 <= Len(reqs))
  BY <1>1, <1>2, <1>3, <1>6 DEF Stage
<1> QED
  BY <1>4, <1>5, <1>6

-------------------------------------------------------------------------------
\* Initially nothing has been done.
LEMMA InitInv == Init => IInv
<1> SUFFICES ASSUME Init PROVE IInv
  OBVIOUS
<1>1. PICK n \in 0..MaxRequests : reqs \in [1..n -> Request]
  BY DEF Init
<1>2. n \in Nat /\ reqs \in Seq(Request) /\ Len(reqs) = n /\ n <= MaxRequests
  BY <1>1, TransferAssumption, SeqDef
<1>3. /\ pc \in Stage /\ pc \notin {"flush", "final", "check"}
      /\ pc # "done" => count < Len(reqs)
      /\ pc = "post" => Kind \in {"ap", "apMatch"}
      /\ pc = "read" => Kind = "dp"
      /\ pc = "compare" => Kind = "dpMatch"
      /\ pc = "write" => Kind = "write"
      /\ pc = "mask" => Kind = "mask"
  <2>1. CASE reqs = <<>>
    BY <2>1 DEF Init, Stage
  <2>2. CASE reqs # <<>>
    <3>1. 1 \in 1..Len(reqs) /\ reqs[1] \in Request /\ pc = StageOf(reqs[1]) /\ Cur = 1
      BY <1>2, <2>2 DEF Init, Cur
    <3> QED
      BY <1>2, <3>1, StageOfRequest DEF Init, Stage, Kind
  <2> QED
    BY <2>1, <2>2
<1>4. TypeOK
  <2>1. RetryCount \in Nat /\ MatchRetry \in Nat
    BY TransferAssumption
  <2>2. <<>> \in Seq(Nat)
    OBVIOUS
  <2>3. out \in Seq(Nat) /\ words \in 0..Len(reqs) /\ rdbuf \in 0..Len(reqs)
    BY <1>2, <2>2 DEF Init
  <2>4. retry \in 0..RetryCount /\ matchRetry \in 0..MatchRetry /\ count \in 0..Len(reqs)
    BY <1>2, <2>1 DEF Init
  <2>5. /\ ack = "none"
        /\ mismatch \in BOOLEAN /\ posted \in BOOLEAN
        /\ checkWrite \in BOOLEAN /\ unconfirmed \in BOOLEAN
    BY DEF Init
  <2> QED
    BY <1>2, <1>3, <2>3, <2>4, <2>5 DEF TypeOK
<1>5. Entries(out) = {} /\ Expected(count) = {} /\ Increasing(out)
  BY DEF Init, Entries, Expected, Increasing
<1>6. AtStage
  BY <1>2, <1>3 DEF AtStage, Init
<1>7. Contents /\ Confirmation /\ ComparesOwnRegister
  BY <1>3, <1>5 DEF Contents, ReadsInOrder, Confirmation, WritesConfirmed,
                    ComparesOwnRegister, Init
<1> QED
  BY <1>4, <1>6, <1>7 DEF IInv

\* The response after the actions that store something, for every kind of entry.
LEMMA StoredInOrder ==
  ASSUME IInv, pc \notin {"final", "check", "done"}
  PROVE  /\ ~posted =>
              /\ out \o CurStamp \in Seq(Nat)
              /\ Increasing(out \o CurStamp)
              /\ Entries(out \o CurStamp)
                   = Expected(count) \cup (IF reqs[Cur].stamp THEN {StampOf(Cur)} ELSE {})
         /\ ~posted =>
              /\ out \o CurStamp \o <<ValueOf(Cur)>> \in Seq(Nat)
              /\ Increasing(out \o CurStamp \o <<ValueOf(Cur)>>)
              /\ Entries(out \o CurStamp \o <<ValueOf(Cur)>>)
                   = Expected(count) \cup (IF reqs[Cur].stamp THEN {StampOf(Cur)} ELSE {})
                                     \cup {ValueOf(Cur)}
         /\ posted =>
              /\ Append(out, ValueOf(rdbuf)) \in Seq(Nat)
              /\ Increasing(Append(out, ValueOf(rdbuf)))
              /\ Entries(Append(out, ValueOf(rdbuf))) = Expected(count)
         /\ posted =>
              /\ out \o <<ValueOf(rdbuf)>> \o CurStamp \in Seq(Nat)
              /\ Increasing(out \o <<ValueOf(rdbuf)>> \o CurStamp)
              /\ Entries(out \o <<ValueOf(rdbuf)>> \o CurStamp)
                   = Expected(count) \cup (IF reqs[Cur].stamp THEN {StampOf(Cur)} ELSE {})
<1>1. /\ Cur = count + 1 /\ count \in Nat /\ reqs[Cur].stamp \in BOOLEAN
      /\ out \in Seq(Nat) /\ Increasing(out)
  BY CurrentRequest DEF IInv, TypeOK, Contents, ReadsInOrder
<1>2. \A y \in Expected(count) : y \in Nat /\ y < StampOf(Cur)
  BY <1>1, ExpectedBound DEF StampOf, ValueOf
<1>3. CASE ~posted
  <2>1. Entries(out) = Expected(count)
    BY <1>3 DEF IInv, Contents
  <2> DEFINE t == out \o CurStamp
  <2>2. /\ t \in Seq(Nat) /\ Increasing(t)
        /\ Entries(t) = Expected(count) \cup (IF reqs[Cur].stamp THEN {StampOf(Cur)} ELSE {})
    BY <1>1, <1>2, <2>1, StampInOrder
  <2> HIDE DEF t
  <2>3. ValueOf(Cur) \in Nat /\ \A y \in Entries(t) : y < ValueOf(Cur)
    BY <1>1, <1>2, <2>2 DEF StampOf, ValueOf
  <2> DEFINE v == ValueOf(Cur)
  <2> HIDE DEF v
  <2>4. v \in Nat /\ \A y \in Entries(t) : y < v
    BY <2>3 DEF v
  <2>5. Append(t, v) \in Seq(Nat) /\ Increasing(Append(t, v))
        /\ Entries(Append(t, v)) = Entries(t) \cup {v}
    BY <2>2, <2>4, StoreInOrder
  <2>6. t \o <<v>> = Append(t, v)
    BY <2>2, <2>4, AppendIsConcat
  <2>7. /\ t \o <<ValueOf(Cur)>> \in Seq(Nat) /\ Increasing(t \o <<ValueOf(Cur)>>)
        /\ Entries(t \o <<ValueOf(Cur)>>) = Entries(t) \cup {ValueOf(Cur)}
    BY <2>5, <2>6, Zenon DEF v
  <2>8. Entries(t \o <<ValueOf(Cur)>>)
          = Expected(count) \cup (IF reqs[Cur].stamp THEN {StampOf(Cur)} ELSE {})
                            \cup {ValueOf(Cur)}
    BY <2>2, <2>7
  <2> QED
    BY <1>3, <2>2, <2>7, <2>8, Zenon DEF t
<1>4. CASE posted
  <2>1. /\ count > 0 /\ rdbuf = count /\ reqs[count].kind = "ap"
        /\ ValueOf(count) \notin Entries(out)
        /\ Entries(out) \subseteq Expected(count)
        /\ Expected(count) \ Entries(out) \subseteq {ValueOf(count)}
    BY <1>4 DEF IInv, Contents, ReadsInOrder
  <2>2. ValueOf(count) \in Expected(count)
    BY <1>1, <2>1 DEF Expected
  <2>3. ValueOf(rdbuf) \in Nat /\ \A y \in Entries(out) : y < ValueOf(rdbuf)
    <3>1. \A y \in Entries(out) : y \in Nat /\ y <= ValueOf(count)
      BY <1>1, <2>1, ExpectedBound
    <3>2. ValueOf(rdbuf) \in Nat /\ ValueOf(rdbuf) = ValueOf(count)
      BY <1>1, <2>1 DEF ValueOf
    <3> QED
      BY <2>1, <3>1, <3>2
  <2> DEFINE t == Append(out, ValueOf(rdbuf))
  <2>4. t \in Seq(Nat) /\ Increasing(t) /\ Entries(t) = Entries(out) \cup {ValueOf(rdbuf)}
    BY <1>1, <2>3, StoreInOrder
  <2>5. Entries(t) = Expected(count)
    BY <2>1, <2>2, <2>4
  <2>6. out \o <<ValueOf(rdbuf)>> = t
    BY <1>1, <2>3, AppendIsConcat
  <2> HIDE DEF t
  <2>7. /\ t \o CurStamp \in Seq(Nat) /\ Increasing(t \o CurStamp)
        /\ Entries(t \o CurStamp)
             = Expected(count) \cup (IF reqs[Cur].stamp THEN {StampOf(Cur)} ELSE {})
    BY <1>1, <1>2, <2>4, <2>5, StampInOrder
  <2> QED
    BY <1>4, <2>4, <2>5, <2>6, <2>7 DEF t
<1> QED
  BY <1>1, <1>3, <1>4 DEF IInv, TypeOK

-------------------------------------------------------------------------------
\* A request that leaves what it should in the response, or a posted value behind
\* it, leaves the invariant.
LEMMA CompletedInv ==
  ASSUME IInv, pc \notin {"final", "check", "done"},
         UNCHANGED <<reqs, mismatch>>, ack' = "OK", retry' \in 0..RetryCount,
         posted' \in BOOLEAN, checkWrite' \in BOOLEAN, Completed,
         out' \in Seq(Nat), Increasing(out'),
         ~posted' => Entries(out') = Expected(Cur),
         posted' =>
              /\ reqs[Cur].kind = "ap" /\ rdbuf' = Cur
              /\ Entries(out') = Expected(Cur) \ {ValueOf(Cur)},
         rdbuf' \in 0..Len(reqs), unconfirmed' \in BOOLEAN, unconfirmed' => checkWrite' /\ ~posted'
  PROVE  IInv'
<1>1. /\ Cur \in 1..Len(reqs) /\ Len(reqs) \in Nat /\ MatchRetry \in Nat
      /\ mismatch = FALSE
  BY CurrentRequest, TransferAssumption DEF IInv, TypeOK, AtStage
<1>2. /\ count' = Cur /\ pc' \in Stage /\ words' \in 0..Cur /\ matchRetry' = MatchRetry
      /\ pc' \notin {"final", "check", "done"} => count' < Len(reqs)
      /\ pc' \in {"flush", "final"} => posted'
      /\ pc' \in {"post", "read", "compare", "write", "mask", "check"} => ~posted'
      /\ pc' = "post" => Kind' \in {"ap", "apMatch"}
      /\ pc' = "read" => Kind' = "dp"
      /\ pc' = "compare" => Kind' = "dpMatch"
      /\ pc' = "write" => Kind' = "write"
      /\ pc' = "mask" => Kind' = "mask"
      /\ pc' \in {"final", "check", "done"} => count' = Len(reqs)
      /\ pc' = "done" => ~posted' /\ ~checkWrite'
  BY AfterRequest DEF IInv
<1>3. TypeOK'
  BY <1>1, <1>2 DEF IInv, TypeOK
<1>4. AtStage'
  BY <1>1, <1>2 DEF AtStage
<1>5. Expected(count)' = Expected(Cur)
  BY <1>2 DEF Expected
<1>6. Contents'
  <2>1. ReadsInOrder'
    BY <1>2, <1>5 DEF ReadsInOrder, Entries, Increasing, ValueOf
  <2>2. Entries(out)' = Entries(out') /\ ValueOf(count)' = ValueOf(Cur)
    BY <1>2 DEF Entries, ValueOf
  <2> QED
    BY <1>1, <1>2, <1>5, <2>1, <2>2 DEF Contents
<1>7. Confirmation' /\ ComparesOwnRegister'
  BY <1>2 DEF Confirmation, WritesConfirmed, ComparesOwnRegister
<1> QED
  BY <1>3, <1>4, <1>6, <1>7 DEF IInv

\* A command that stops at a request without its saying OK leaves what it had.
LEMMA StoppedInv ==
  ASSUME IInv, pc # "done", pc' = "done",
         UNCHANGED <<reqs, count, checkWrite, retry, matchRetry, out>>,
         ack' \in {"OK", "WAIT", "FAULT", "ERROR"}, mismatch' \in BOOLEAN,
         ack' = "OK" => mismatch', posted' \in BOOLEAN, words' \in 0..Len(reqs),
         rdbuf' \in 0..Len(reqs), unconfirmed' \in BOOLEAN
  PROVE  IInv'
<1>1. TypeOK'
  BY DEF IInv, TypeOK, Stage
<1>2. AtStage' /\ Confirmation' /\ ComparesOwnRegister'
  BY DEF AtStage, Confirmation, WritesConfirmed, ComparesOwnRegister
<1>3. ReadsInOrder'
  BY DEF IInv, Contents, ReadsInOrder, Expected, Entries, Increasing, ValueOf
<1> QED
  BY <1>1, <1>2, <1>3 DEF IInv, Contents

\* What the current request adds to the response is not there yet.
LEMMA RequestAdds ==
  ASSUME IInv, pc \notin {"final", "check", "done"}
  PROVE  /\ Cur \in 1..Len(reqs) /\ Cur = count + 1 /\ count \in Nat
         /\ reqs[Cur].stamp \in BOOLEAN
         /\ Kind \in {"ap", "dp", "write", "apMatch", "dpMatch", "mask"}
         /\ Kind = reqs[Cur].kind
         /\ Expected(Cur) = Expected(count)
              \cup (IF reqs[Cur].stamp THEN {StampOf(Cur)} ELSE {})
              \cup (IF reqs[Cur].kind \in {"ap", "dp"} THEN {ValueOf(Cur)} ELSE {})
         /\ ValueOf(Cur) \notin Expected(count)
         /\ ValueOf(Cur) # StampOf(Cur)
         /\ reqs[Cur].kind \in {"apMatch", "dpMatch", "mask"} => ~reqs[Cur].stamp
<1>1. /\ Cur \in 1..Len(reqs) /\ Cur = count + 1 /\ count \in Nat
      /\ reqs[Cur] \in Request /\ reqs[Cur].stamp \in BOOLEAN
      /\ Kind \in {"ap", "dp", "write", "apMatch", "dpMatch", "mask"}
  BY CurrentRequest DEF IInv
<1>2. ValueOf(Cur) # StampOf(Cur)
  BY <1>1 DEF ValueOf, StampOf
<1>3. ValueOf(Cur) \notin Expected(count)
  <2>1. ValueOf(Cur) \in Expected(count) => ValueOf(Cur) <= ValueOf(count)
    BY <1>1, ExpectedBound
  <2> QED
    BY <1>1, <2>1 DEF ValueOf
<1>4. reqs[Cur].kind \in {"apMatch", "dpMatch", "mask"} => ~reqs[Cur].stamp
  BY <1>1 DEF Request
<1> QED
  BY <1>1, <1>2, <1>3, <1>4, ExpectedStep DEF Kind

\* The actions that complete a request.
LEMMA CompletingStep ==
  ASSUME IInv, FlushPosting \/ Post \/ ReadDp \/ Match \/ Write \/ WriteMask
  PROVE  IInv'
<1>1. /\ TypeOK /\ AtStage /\ Contents /\ Confirmation
      /\ RetryCount \in Nat /\ MatchRetry \in Nat /\ Len(reqs) \in Nat
  BY TransferAssumption DEF IInv, TypeOK
<1> DEFINE stamps == IF reqs[Cur].stamp THEN {StampOf(Cur)} ELSE {}
<1>2. CASE FlushPosting
  <2>1. pc = "flush" /\ posted /\ Kind = "ap"
    BY <1>1, <1>2 DEF FlushPosting, AtStage
  <2>2. /\ out' = out \o <<ValueOf(rdbuf)>> \o CurStamp
        /\ rdbuf' = Cur /\ unconfirmed' = FALSE /\ posted' = TRUE /\ checkWrite' = FALSE
        /\ ack' = "OK" /\ retry' = RetryCount /\ UNCHANGED <<reqs, mismatch>>
    BY <1>2 DEF FlushPosting, Accepted, Complete
  <2>3. /\ out' \in Seq(Nat) /\ Increasing(out')
        /\ Entries(out') = Expected(count) \cup stamps
    BY <2>1, <2>2, StoredInOrder
  <2>4. Entries(out') = Expected(Cur) \ {ValueOf(Cur)}
    BY <2>1, <2>3, RequestAdds
  <2>5. rdbuf' \in 0..Len(reqs) /\ reqs[Cur].kind = "ap"
    BY <1>1, <2>1, <2>2, RequestAdds
  <2>9. Completed
    BY <1>2, <2>2, Zenon DEF Complete, Completed, FlushPosting
  <2>10. posted' \in BOOLEAN /\ checkWrite' \in BOOLEAN
    BY <2>1, <2>2
  <2>11. retry' \in 0..RetryCount /\ rdbuf' \in 0..Len(reqs)
    BY <1>1, <2>2, <2>3, <2>4, <2>5
  <2>12. unconfirmed' \in BOOLEAN /\ (unconfirmed' => checkWrite' /\ ~posted')
    BY <2>1, <2>2
  <2>13. ~posted' => Entries(out') = Expected(Cur)
    BY <2>2, <2>4
  <2>14. posted' => /\ reqs[Cur].kind = "ap" /\ rdbuf' = Cur
                    /\ Entries(out') = Expected(Cur) \ {ValueOf(Cur)}
    BY <2>2, <2>4, <2>5
  <2> QED
    BY <2>1, <2>2, <2>3, <2>9, <2>10, <2>11, <2>12, <2>13, <2>14, CompletedInv, Zenon
<1>3. CASE Post
  <2>1. pc = "post" /\ ~posted /\ Kind = "ap"
    BY <1>1, <1>3 DEF Post, AtStage
  <2>2. /\ out' = out \o CurStamp
        /\ rdbuf' = Cur /\ unconfirmed' = FALSE /\ posted' = TRUE /\ checkWrite' = FALSE
        /\ ack' = "OK" /\ retry' = RetryCount /\ UNCHANGED <<reqs, mismatch>>
    BY <1>3 DEF Post, Accepted, Complete
  <2>3. /\ out' \in Seq(Nat) /\ Increasing(out')
        /\ Entries(out') = Expected(count) \cup stamps
    BY <2>1, <2>2, StoredInOrder
  <2>4. Entries(out') = Expected(Cur) \ {ValueOf(Cur)}
    BY <2>1, <2>3, RequestAdds
  <2>5. rdbuf' \in 0..Len(reqs) /\ reqs[Cur].kind = "ap"
    BY <1>1, <2>1, <2>2, RequestAdds
  <2>9. Completed
    BY <1>3, <2>2, Zenon DEF Complete, Completed, Post
  <2>10. posted' \in BOOLEAN /\ checkWrite' \in BOOLEAN
    BY <2>1, <2>2
  <2>11. retry' \in 0..RetryCount /\ rdbuf' \in 0..Len(reqs)
    BY <1>1, <2>2, <2>3, <2>4, <2>5
  <2>12. unconfirmed' \in BOOLEAN /\ (unconfirmed' => checkWrite' /\ ~posted')
    BY <2>1, <2>2
  <2>13. ~posted' => Entries(out') = Expected(Cur)
    BY <2>2, <2>4
  <2>14. posted' => /\ reqs[Cur].kind = "ap" /\ rdbuf' = Cur
                    /\ Entries(out') = Expected(Cur) \ {ValueOf(Cur)}
    BY <2>2, <2>4, <2>5
  <2> QED
    BY <2>1, <2>2, <2>3, <2>9, <2>10, <2>11, <2>12, <2>13, <2>14, CompletedInv, Zenon
<1>4. CASE ReadDp
  <2>1. pc = "read" /\ ~posted /\ Kind = "dp" /\ posted = FALSE
    BY <1>1, <1>4 DEF ReadDp, AtStage, TypeOK
  <2>2. /\ out' = out \o CurStamp \o <<ValueOf(Cur)>>
        /\ rdbuf' = 0 /\ unconfirmed' = FALSE /\ posted' = FALSE /\ checkWrite' = FALSE
        /\ ack' = "OK" /\ retry' = RetryCount /\ UNCHANGED <<reqs, mismatch>>
    BY <1>4, <2>1 DEF ReadDp, Accepted, Complete
  <2>3. /\ out' \in Seq(Nat) /\ Increasing(out')
        /\ Entries(out') = Expected(count) \cup stamps \cup {ValueOf(Cur)}
    BY <2>1, <2>2, StoredInOrder
  <2>4. Entries(out') = Expected(Cur)
    BY <2>1, <2>3, RequestAdds
  <2>9. Completed
    BY <1>4, <2>2, Zenon DEF Complete, Completed, ReadDp
  <2>10. posted' \in BOOLEAN /\ checkWrite' \in BOOLEAN
    BY <2>1, <2>2
  <2>11. retry' \in 0..RetryCount /\ rdbuf' \in 0..Len(reqs)
    BY <1>1, <2>2, <2>3, <2>4
  <2>12. unconfirmed' \in BOOLEAN /\ (unconfirmed' => checkWrite' /\ ~posted')
    BY <2>1, <2>2
  <2>13. ~posted' => Entries(out') = Expected(Cur)
    BY <2>2, <2>4
  <2>14. posted' => /\ reqs[Cur].kind = "ap" /\ rdbuf' = Cur
                    /\ Entries(out') = Expected(Cur) \ {ValueOf(Cur)}
    BY <2>2, <2>4
  <2> QED
    BY <2>1, <2>2, <2>3, <2>9, <2>10, <2>11, <2>12, <2>13, <2>14, CompletedInv, Zenon
<1>5. CASE Match
  <2>1. /\ pc = "compare" /\ ~posted /\ posted = FALSE
        /\ Kind \in {"apMatch", "dpMatch"}
    BY <1>1, <1>5 DEF Match, CompareAccess, AtStage, TypeOK
  <2>2. /\ out' = out /\ unconfirmed' = FALSE /\ posted' = FALSE /\ checkWrite' = FALSE
        /\ rdbuf' \in {Cur, 0}
        /\ ack' = "OK" /\ retry' = RetryCount /\ UNCHANGED <<reqs, mismatch>>
    BY <1>5, <2>1 DEF Match, CompareAccess, Accepted, Complete
  <2>3. Entries(out) = Expected(count) /\ out \in Seq(Nat) /\ Increasing(out)
    BY <1>1, <2>1 DEF Contents, ReadsInOrder, TypeOK
  <2>4. Entries(out') = Expected(Cur)
    <3>1. reqs[Cur].kind \in {"apMatch", "dpMatch"} /\ ~reqs[Cur].stamp
      BY <2>1, RequestAdds
    <3>2. Expected(Cur) = Expected(count)
      BY <2>1, <3>1, RequestAdds
    <3> QED
      BY <2>2, <2>3, <3>2
  <2>5. rdbuf' \in 0..Len(reqs)
    BY <1>1, <2>1, <2>2, RequestAdds
  <2>9. Completed
    BY <1>5, <2>2, Zenon DEF Complete, Completed, Match
  <2>10. posted' \in BOOLEAN /\ checkWrite' \in BOOLEAN
    BY <2>1, <2>2
  <2>11. retry' \in 0..RetryCount /\ rdbuf' \in 0..Len(reqs)
    BY <1>1, <2>2, <2>5
  <2>12. unconfirmed' \in BOOLEAN /\ (unconfirmed' => checkWrite' /\ ~posted')
    BY <2>1, <2>2
  <2>13. ~posted' => Entries(out') = Expected(Cur)
    BY <2>2, <2>4
  <2>14. posted' => /\ reqs[Cur].kind = "ap" /\ rdbuf' = Cur
                    /\ Entries(out') = Expected(Cur) \ {ValueOf(Cur)}
    BY <2>2, <2>4
  <2> QED
    BY <2>1, <2>2, <2>3, <2>9, <2>10, <2>11, <2>12, <2>13, <2>14, CompletedInv, Zenon
<1>6. CASE Write
  <2>1. /\ pc = "write" /\ ~posted /\ posted = FALSE
        /\ Kind = "write"
    BY <1>1, <1>6 DEF Write, AtStage, TypeOK
  <2>2. /\ out' = out \o CurStamp
        /\ rdbuf' = 0 /\ unconfirmed' = TRUE /\ posted' = FALSE /\ checkWrite' = TRUE
        /\ ack' = "OK" /\ retry' = RetryCount /\ UNCHANGED <<reqs, mismatch>>
    BY <1>6, <2>1 DEF Write, Accepted, Complete
  <2>3. /\ out' \in Seq(Nat) /\ Increasing(out')
        /\ Entries(out') = Expected(count) \cup stamps
    BY <2>1, <2>2, StoredInOrder
  <2>4. Entries(out') = Expected(Cur)
    BY <2>1, <2>3, RequestAdds
  <2>9. Completed
    BY <1>6, <2>2, Zenon DEF Complete, Completed, Write
  <2>10. posted' \in BOOLEAN /\ checkWrite' \in BOOLEAN
    BY <2>1, <2>2
  <2>11. retry' \in 0..RetryCount /\ rdbuf' \in 0..Len(reqs)
    BY <1>1, <2>2, <2>3, <2>4
  <2>12. unconfirmed' \in BOOLEAN /\ (unconfirmed' => checkWrite' /\ ~posted')
    BY <2>1, <2>2
  <2>13. ~posted' => Entries(out') = Expected(Cur)
    BY <2>2, <2>4
  <2>14. posted' => /\ reqs[Cur].kind = "ap" /\ rdbuf' = Cur
                    /\ Entries(out') = Expected(Cur) \ {ValueOf(Cur)}
    BY <2>2, <2>4
  <2> QED
    BY <2>1, <2>2, <2>3, <2>9, <2>10, <2>11, <2>12, <2>13, <2>14, CompletedInv, Zenon
<1>7. CASE WriteMask
  <2>1. /\ pc = "mask" /\ ~posted /\ posted = FALSE
        /\ Kind = "mask"
        /\ checkWrite \in BOOLEAN /\ unconfirmed \in BOOLEAN
        /\ unconfirmed => checkWrite
    BY <1>1, <1>7 DEF WriteMask, AtStage, TypeOK, Confirmation
  <2>2. /\ out' = out /\ unconfirmed' = unconfirmed /\ posted' = FALSE /\ checkWrite' = checkWrite
        /\ rdbuf' = rdbuf
        /\ ack' = "OK" /\ retry' = retry /\ UNCHANGED <<reqs, mismatch>>
    BY <1>7, <2>1 DEF WriteMask, Complete
  <2>3. Entries(out) = Expected(count) /\ out \in Seq(Nat) /\ Increasing(out)
    BY <1>1, <2>1 DEF Contents, ReadsInOrder, TypeOK
  <2>4. /\ Entries(out') = Expected(Cur) /\ rdbuf' \in 0..Len(reqs)
        /\ retry' \in 0..RetryCount
    BY <1>1, <2>1, <2>2, <2>3, RequestAdds DEF TypeOK
  <2>9. Completed
    BY <1>7, <2>2, Zenon DEF Complete, Completed, WriteMask
  <2>10. posted' \in BOOLEAN /\ checkWrite' \in BOOLEAN
    BY <2>1, <2>2
  <2>11. retry' \in 0..RetryCount /\ rdbuf' \in 0..Len(reqs)
    BY <1>1, <2>2, <2>3, <2>4
  <2>12. unconfirmed' \in BOOLEAN /\ (unconfirmed' => checkWrite' /\ ~posted')
    BY <2>1, <2>2
  <2>13. ~posted' => Entries(out') = Expected(Cur)
    BY <2>2, <2>4
  <2>14. posted' => /\ reqs[Cur].kind = "ap" /\ rdbuf' = Cur
                    /\ Entries(out') = Expected(Cur) \ {ValueOf(Cur)}
    BY <2>2, <2>4
  <2> QED
    BY <2>1, <2>2, <2>3, <2>9, <2>10, <2>11, <2>12, <2>13, <2>14, CompletedInv, Zenon
<1> QED
  BY <1>2, <1>3, <1>4, <1>5, <1>6, <1>7

\* The actions that go on with the same request.
LEMMA SameRequestStep ==
  ASSUME IInv, Flush \/ PostForMatch \/ MatchAgain
  PROVE  IInv'
<1>1. /\ TypeOK /\ AtStage /\ Contents /\ Confirmation
      /\ RetryCount \in Nat /\ MatchRetry \in Nat /\ Len(reqs) \in Nat
  BY TransferAssumption DEF IInv, TypeOK
<1>2. /\ pc \in {"flush", "post", "compare"} /\ ack' = "OK" /\ retry' = RetryCount
      /\ UNCHANGED <<reqs, mismatch, count, checkWrite, words>>
      /\ unconfirmed' = FALSE
  BY DEF Flush, PostForMatch, MatchAgain, CompareAccess, Accepted, GoOn
<1>3. /\ Cur \in 1..Len(reqs) /\ reqs[Cur] \in Request /\ Kind = reqs[Cur].kind
      /\ Cur' = Cur /\ Kind' = Kind /\ Expected(count)' = Expected(count)
      /\ ValueOf(count)' = ValueOf(count)
  BY <1>1, <1>2, CurrentRequest DEF Cur, Kind, Expected, ValueOf
<1>4. CASE Flush
  <2>1. /\ pc = "flush" /\ posted
        /\ out' = Append(out, ValueOf(rdbuf)) /\ rdbuf' = 0
        /\ pc' = StageOf(reqs[Cur]) /\ matchRetry' = matchRetry
    BY <1>1, <1>4 DEF Flush, AtStage, GoOn
  <2>2. posted' = FALSE
    BY <1>4 DEF Flush
  <2>3. /\ out' \in Seq(Nat) /\ Increasing(out') /\ Entries(out') = Expected(count)
    BY <2>1, StoredInOrder
  <2>4. /\ pc' \in {"post", "read", "compare", "write", "mask"}
        /\ pc' = "post" => Kind \in {"ap", "apMatch"}
        /\ pc' = "read" => Kind = "dp"
        /\ pc' = "compare" => Kind = "dpMatch"
        /\ pc' = "write" => Kind = "write"
        /\ pc' = "mask" => Kind = "mask"
    BY <1>3, <2>1, StageOfRequest
  <2>5. TypeOK'
    <3>1. /\ mismatch' \in BOOLEAN /\ posted' \in BOOLEAN
          /\ checkWrite' \in BOOLEAN /\ unconfirmed' \in BOOLEAN
      BY <1>1, <1>2, <2>2 DEF TypeOK
    <3>2. /\ pc' \in Stage /\ count' \in 0..Len(reqs) /\ count' < Len(reqs)
          /\ retry' \in 0..RetryCount /\ matchRetry' \in 0..MatchRetry
          /\ words' \in 0..Len(reqs) /\ rdbuf' \in 0..Len(reqs)
      BY <1>1, <1>2, <2>1, <2>4 DEF TypeOK, Stage
    <3> QED
      BY <1>1, <1>2, <2>3, <3>1, <3>2 DEF TypeOK
  <2>6. AtStage'
    BY <1>1, <1>2, <1>3, <2>1, <2>2, <2>4 DEF AtStage
  <2>7. Entries(out)' = Entries(out') /\ Increasing(out)'
    BY <2>3 DEF Entries, Increasing
  <2>8. ReadsInOrder'
    BY <1>3, <2>3, <2>7 DEF ReadsInOrder
  <2>9. Contents'
    BY <1>3, <2>2, <2>3, <2>4, <2>7, <2>8 DEF Contents
  <2>10. Confirmation' /\ ComparesOwnRegister'
    BY <1>2, <1>3, <2>4 DEF Confirmation, WritesConfirmed, ComparesOwnRegister
  <2> QED
    BY <2>5, <2>6, <2>9, <2>10 DEF IInv
<1>5. CASE PostForMatch \/ MatchAgain
  <2>1. /\ pc \in {"post", "compare"} /\ pc' = "compare" /\ out' = out /\ posted' = posted
        /\ Kind \in {"apMatch", "dpMatch"}
        /\ Kind = "apMatch" => rdbuf' = Cur
        /\ rdbuf' \in {0, Cur}
    BY <1>1, <1>5 DEF PostForMatch, MatchAgain, CompareAccess, GoOn, AtStage
  <2>2. matchRetry' \in 0..MatchRetry
    BY <1>1, <1>5 DEF PostForMatch, MatchAgain, TypeOK
  <2>3. ~posted'
    BY <1>1, <2>1 DEF AtStage
  <2>4. TypeOK'
    <3>1. /\ mismatch' \in BOOLEAN /\ posted' \in BOOLEAN
          /\ checkWrite' \in BOOLEAN /\ unconfirmed' \in BOOLEAN
      BY <1>1, <1>2, <2>1 DEF TypeOK
    <3>2. /\ pc' \in Stage /\ count' \in 0..Len(reqs) /\ count' < Len(reqs)
          /\ retry' \in 0..RetryCount
          /\ words' \in 0..Len(reqs) /\ rdbuf' \in 0..Len(reqs)
      BY <1>1, <1>2, <1>3, <2>1 DEF TypeOK, Stage
    <3> QED
      BY <1>1, <1>2, <2>1, <2>2, <3>1, <3>2 DEF TypeOK
  <2>5. AtStage'
    <3>1. words <= count /\ ~mismatch
      BY <1>1, <2>1 DEF AtStage
    <3>2. words' <= count' /\ ~mismatch'
      BY <1>2, <3>1
    <3>3. Kind' \in {"apMatch", "dpMatch"}
      BY <1>3, <2>1
    <3> QED
      BY <2>1, <2>3, <3>2, <3>3 DEF AtStage
  <2>6. Entries(out)' = Entries(out) /\ (Increasing(out)' <=> Increasing(out))
    BY <2>1 DEF Entries, Increasing
  <2>7. ReadsInOrder'
    BY <1>1, <1>3, <2>6 DEF Contents, ReadsInOrder
  <2>8. Entries(out) = Expected(count)
    BY <1>1, <2>1 DEF Contents, AtStage
  <2>9. Contents'
    BY <1>3, <2>1, <2>3, <2>6, <2>7, <2>8 DEF Contents
  <2>10. Confirmation' /\ ComparesOwnRegister'
    BY <1>2, <1>3, <2>1 DEF Confirmation, WritesConfirmed, ComparesOwnRegister
  <2> QED
    BY <2>4, <2>5, <2>9, <2>10 DEF IInv
<1> QED
  BY <1>4, <1>5

\* The accesses behind the last request.
LEMMA LastStep ==
  ASSUME IInv, FinalRead \/ CheckWrite
  PROVE  IInv'
<1>1. /\ TypeOK /\ AtStage /\ Contents
      /\ RetryCount \in Nat /\ count \in Nat /\ out \in Seq(Nat)
  BY TransferAssumption DEF IInv, TypeOK
<1>2. /\ pc \in {"final", "check"} /\ pc' = "done" /\ ack' = "OK" /\ retry' = RetryCount
      /\ UNCHANGED <<reqs, mismatch, count, checkWrite, words, posted, matchRetry>>
      /\ unconfirmed' = FALSE /\ rdbuf' = 0 /\ count = Len(reqs)
  BY <1>1 DEF FinalRead, CheckWrite, Accepted, GoOn, AtStage
<1>3. Expected(count)' = Expected(count) /\ ValueOf(count)' = ValueOf(count)
  BY <1>2 DEF Expected, ValueOf
<1>4. out' \in Seq(Nat) /\ Increasing(out') /\ Entries(out') = Expected(count)
  <2>1. CASE FinalRead
    <3>1. pc = "final" /\ posted /\ out' = Append(out, ValueOf(rdbuf))
      BY <1>1, <2>1 DEF FinalRead, AtStage
    <3>2. /\ count > 0 /\ rdbuf = count /\ reqs[count].kind = "ap"
          /\ ValueOf(count) \notin Entries(out) /\ Increasing(out)
          /\ Entries(out) \subseteq Expected(count)
          /\ Expected(count) \ Entries(out) \subseteq {ValueOf(count)}
      BY <1>1, <3>1 DEF Contents, ReadsInOrder
    <3>3. ValueOf(count) \in Expected(count)
      BY <1>1, <3>2 DEF Expected
    <3>4. ValueOf(count) \in Nat /\ \A y \in Entries(out) : y < ValueOf(count)
      <4>1. \A y \in Entries(out) : y \in Nat /\ y <= ValueOf(count)
        BY <1>1, <3>2, ExpectedBound
      <4>2. ValueOf(count) \in Nat
        BY <1>1 DEF ValueOf
      <4> QED
        BY <3>2, <4>1, <4>2
    <3>5. out' = Append(out, ValueOf(count))
      BY <3>1, <3>2
    <3>6. /\ Append(out, ValueOf(count)) \in Seq(Nat)
          /\ Increasing(Append(out, ValueOf(count)))
          /\ Entries(Append(out, ValueOf(count))) = Entries(out) \cup {ValueOf(count)}
      BY <1>1, <3>2, <3>4, StoreInOrder
    <3> QED
      BY <3>2, <3>3, <3>5, <3>6
  <2>2. CASE CheckWrite
    <3>1. out' = out /\ ~posted /\ pc # "done"
      BY <1>1, <2>2 DEF CheckWrite, AtStage
    <3>2. Entries(out) = Expected(count) /\ Increasing(out)
      BY <1>1, <3>1 DEF Contents, ReadsInOrder
    <3> QED
      BY <1>1, <3>1, <3>2
  <2> QED
    BY <2>1, <2>2
<1>5. TypeOK'
  <2>1. /\ mismatch' \in BOOLEAN /\ posted' \in BOOLEAN
        /\ checkWrite' \in BOOLEAN /\ unconfirmed' \in BOOLEAN
    BY <1>1, <1>2 DEF TypeOK
  <2>2. /\ pc' \in {"final", "check", "done"} /\ pc' \in Stage
        /\ retry' \in 0..RetryCount /\ rdbuf' \in 0..Len(reqs)
    BY <1>1, <1>2 DEF TypeOK, Stage
  <2> QED
    BY <1>1, <1>2, <1>4, <2>1, <2>2 DEF TypeOK
<1>6. AtStage' /\ Confirmation' /\ ComparesOwnRegister'
  BY <1>2 DEF AtStage, Confirmation, WritesConfirmed, ComparesOwnRegister
<1>7. Entries(out)' = Entries(out') /\ Increasing(out)'
  BY <1>4 DEF Entries, Increasing
<1>8. Contents'
  BY <1>2, <1>3, <1>4, <1>7 DEF Contents, ReadsInOrder
<1> QED
  BY <1>5, <1>6, <1>8 DEF IInv

\* What the request pointer has passed when a command fails is within the request.
LEMMA FailedWords ==
  ASSUME IInv, Fail
  PROVE  words' \in 0..Len(reqs)
<1>1. /\ TypeOK /\ pc \in Accesses /\ pc # "done" /\ words' \in WordsAtFailure
      /\ Len(reqs) \in Nat
  BY DEF IInv, TypeOK, Fail, Accesses
<1>2. CASE pc = "flush" /\ HasWord(reqs[Cur])
  <2>1. PICK m \in 0..(Len(reqs) - Cur) : words' = words + m
    BY <1>1, <1>2 DEF WordsAtFailure
  <2>2. words \in Nat /\ words <= count
    BY <1>1 DEF IInv, TypeOK, AtStage
  <2>3. Cur = count + 1 /\ Cur \in 1..Len(reqs) /\ count \in Nat
    BY <1>1, <1>2, CurrentRequest
  <2> QED
    BY <1>1, <2>1, <2>2, <2>3
<1>3. CASE ~(pc = "flush" /\ HasWord(reqs[Cur]))
  BY <1>1, <1>3, WordsBound DEF WordsAtFailure
<1> QED
  BY <1>2, <1>3

\* Every step of the command keeps the invariant.
LEMMA StepInv ==
  ASSUME IInv, [Next]_vars
  PROVE  IInv'
<1>1. CASE FlushPosting \/ Post \/ ReadDp \/ Match \/ Write \/ WriteMask
  BY <1>1, CompletingStep
<1>2. CASE Flush \/ PostForMatch \/ MatchAgain
  BY <1>2, SameRequestStep
<1>3. CASE FinalRead \/ CheckWrite
  BY <1>3, LastStep
<1>4. CASE MatchFails
  <2>1. /\ pc # "done" /\ pc' = "done" /\ ack' = "OK" /\ mismatch' = TRUE
        /\ UNCHANGED <<reqs, count, checkWrite, retry, matchRetry, out>>
        /\ posted' = posted /\ unconfirmed' = FALSE
        /\ pc = "compare" /\ rdbuf' \in {0, Cur} /\ words' = WordsUpTo(Len(reqs))
    BY <1>4 DEF MatchFails, CompareAccess
  <2>2. posted' \in BOOLEAN /\ unconfirmed' \in BOOLEAN /\ mismatch' \in BOOLEAN
    BY <2>1 DEF IInv, TypeOK
  <2>3. Len(reqs) \in Nat /\ Cur \in 1..Len(reqs)
    BY <2>1, CurrentRequest DEF IInv, TypeOK
  <2>4. rdbuf' \in 0..Len(reqs) /\ words' \in 0..Len(reqs)
    BY <2>1, <2>3, WordsBound
  <2>5. ack' \in {"OK", "WAIT", "FAULT", "ERROR"} /\ (ack' = "OK" => mismatch')
    BY <2>1
  <2> QED
    BY <2>1, <2>2, <2>4, <2>5, StoppedInv, Zenon
<1>5. CASE Fail
  <2>1. /\ pc # "done" /\ pc' = "done" /\ ack' \in {"WAIT", "FAULT", "ERROR"}
        /\ UNCHANGED <<reqs, count, checkWrite, retry, matchRetry, out>>
        /\ UNCHANGED <<rdbuf, unconfirmed>>
    BY <1>5 DEF Fail, Accesses
  <2>2. mismatch' \in BOOLEAN
    BY <1>5 DEF Fail, MismatchAfter
  <2>3. posted' \in BOOLEAN
    BY <1>5 DEF Fail
  <2>4. unconfirmed' \in BOOLEAN /\ rdbuf' \in 0..Len(reqs)
    BY <2>1 DEF IInv, TypeOK
  <2>5. words' \in 0..Len(reqs)
    BY <1>5, FailedWords
  <2>6. ack' \in {"OK", "WAIT", "FAULT", "ERROR"} /\ (ack' = "OK" => mismatch')
    BY <2>1
  <2> QED
    BY <2>1, <2>2, <2>3, <2>4, <2>5, <2>6, StoppedInv, Zenon
<1>6. CASE Retry
  <2>1. /\ pc' = pc /\ pc \notin {"mask", "done"} /\ retry > 0
        /\ ack' = "WAIT" /\ retry' = retry - 1
        /\ UNCHANGED <<reqs, count, mismatch, posted, checkWrite, matchRetry,
                       words, out, rdbuf, unconfirmed>>
    BY <1>6 DEF Retry, Accesses
  <2>2. TypeOK'
    BY <2>1, TransferAssumption DEF IInv, TypeOK
  <2>3. AtStage'
    BY <2>1 DEF IInv, AtStage, Kind, Cur
  <2>4. Contents'
    <3>1. /\ Entries(out)' = Entries(out) /\ (Increasing(out)' <=> Increasing(out))
          /\ Expected(count)' = Expected(count) /\ ValueOf(count)' = ValueOf(count)
      BY <2>1 DEF Entries, Increasing, Expected, ValueOf
    <3> QED
      BY <2>1, <3>1 DEF IInv, Contents, ReadsInOrder
  <2>5. Confirmation'
    BY <2>1 DEF IInv, Confirmation, WritesConfirmed
  <2>6. ComparesOwnRegister'
    BY <2>1 DEF IInv, ComparesOwnRegister, Kind, Cur
  <2> QED
    BY <2>2, <2>3, <2>4, <2>5, <2>6 DEF IInv
<1>7. CASE UNCHANGED vars
  <2>1. TypeOK' /\ AtStage'
    BY <1>7 DEF IInv, vars, TypeOK, AtStage, Kind, Cur
  <2>2. Contents'
    BY <1>7 DEF IInv, vars, Contents, ReadsInOrder, Entries, Increasing, Expected, ValueOf
  <2>3. Confirmation' /\ ComparesOwnRegister'
    BY <1>7 DEF IInv, vars, Confirmation, WritesConfirmed, ComparesOwnRegister, Kind, Cur
  <2> QED
    BY <2>1, <2>2, <2>3 DEF IInv
<1> QED
  BY <1>1, <1>2, <1>3, <1>4, <1>5, <1>6, <1>7 DEF Next

-------------------------------------------------------------------------------
\* The invariant of the command, for any number of requests and any retry counts.
THEOREM Invariance == Spec => []IInv
<1>1. IInv /\ [Next]_vars => IInv'
  BY StepInv
<1> QED
  BY <1>1, InitInv, PTL DEF Spec

\* The state of the command keeps its type: the counters never pass zero, and no
\* request behind the last one is looked at.
THEOREM TypeCorrect == Spec => []TypeOK
BY Invariance, PTL DEF IInv

\* The response of every command, wherever it stops, holds the values of the
\* completed requests, each its own and in their order, less at most the last one.
THEOREM ResponseOrder == Spec => []ReadsInOrder
<1>1. IInv => ReadsInOrder
  BY DEF IInv, Contents
<1> QED
  BY <1>1, Invariance, PTL

\* A response that says OK leaves nothing out.
THEOREM ResponseComplete == Spec => []OkIsComplete
<1>1. IInv => OkIsComplete
  BY DEF IInv, AtStage, Contents, OkIsComplete
<1> QED
  BY <1>1, Invariance, PTL

\* A response that says OK follows an access the target has accepted after the
\* last write.
THEOREM NoUnconfirmedWrite == Spec => []WritesConfirmed
<1>1. IInv => WritesConfirmed
  BY DEF IInv, Confirmation
<1> QED
  BY <1>1, Invariance, PTL

\* A match read compares the register it names.
THEOREM OwnRegister == Spec => []ComparesOwnRegister
<1>1. IInv => ComparesOwnRegister
  BY DEF IInv
<1> QED
  BY <1>1, Invariance, PTL

-------------------------------------------------------------------------------
\* The request pointer has passed the data words of the completed requests.
LengthInv ==
  /\ pc # "done" => words = WordsUpTo(count)
  /\ RequestLength

\* Every step of the command keeps count of the data words it passes.
LEMMA StepLength ==
  ASSUME IInv, LengthInv, [Next]_vars
  PROVE  LengthInv'
<1>1. TypeOK /\ AtStage /\ Contents
  BY DEF IInv
<1>2. reqs' = reqs
  BY DEF Next, vars, FlushPosting, Flush, Post, PostForMatch, ReadDp, Match, MatchAgain,
         MatchFails, Write, WriteMask, FinalRead, CheckWrite, Retry, Fail, Accepted
<1>3. \A n : WordsUpTo(n)' = WordsUpTo(n)
  BY <1>2 DEF WordsUpTo, HasWord
<1>4. CASE FlushPosting \/ Post \/ ReadDp \/ Match \/ Write \/ WriteMask
  <2>1. pc \notin {"final", "check", "done"}
    BY <1>4 DEF FlushPosting, Post, ReadDp, Match, CompareAccess, Write, WriteMask
  <2>2. Completed /\ posted' \in BOOLEAN /\ checkWrite' \in BOOLEAN
    <3>1. PICK p, w : Complete(p, w) /\ p \in BOOLEAN /\ w \in BOOLEAN
      BY <1>1, <1>4 DEF FlushPosting, Post, ReadDp, Match, Write, WriteMask, TypeOK
    <3>2. posted' = p /\ checkWrite' = w
      BY <3>1 DEF Complete
    <3> QED
      BY <3>1, <3>2, Zenon DEF Completed
  <2>3. count' = Cur /\ (pc' = "done" => count' = Len(reqs))
    BY <1>1, <1>2, <2>1, <2>2, AfterRequest
  <2>4. words' = WordsUpTo(Cur)
    BY <2>2 DEF Completed, Complete
  <2> QED
    BY <1>2, <1>3, <2>3, <2>4 DEF LengthInv, RequestLength
<1>5. CASE Flush \/ PostForMatch \/ MatchAgain
  <2>1. /\ pc # "done" /\ UNCHANGED <<count, words>>
    BY <1>5 DEF Flush, PostForMatch, MatchAgain, CompareAccess, GoOn
  <2>2. pc' # "done"
    <3>1. CASE Flush
      <4>1. pc = "flush" /\ pc' = StageOf(reqs[Cur])
        BY <3>1 DEF Flush, GoOn
      <4>2. reqs[Cur] \in Request
        BY <1>1, <4>1, CurrentRequest
      <4> QED
        BY <4>1, <4>2, StageOfRequest
    <3>2. CASE PostForMatch \/ MatchAgain
      BY <3>2 DEF PostForMatch, MatchAgain, GoOn
    <3> QED
      BY <1>5, <3>1, <3>2
  <2> QED
    BY <1>3, <2>1, <2>2 DEF LengthInv, RequestLength
<1>6. CASE FinalRead \/ CheckWrite
  <2>1. /\ pc # "done" /\ UNCHANGED <<count, words>> /\ pc' = "done"
        /\ count = Len(reqs)
    BY <1>1, <1>6 DEF FinalRead, CheckWrite, GoOn, AtStage
  <2> QED
    BY <1>2, <1>3, <2>1 DEF LengthInv, RequestLength
<1>7. CASE MatchFails
  <2>1. pc' = "done" /\ words' = WordsUpTo(Len(reqs))
    BY <1>7 DEF MatchFails
  <2> QED
    BY <1>2, <1>3, <2>1 DEF LengthInv, RequestLength
<1>8. CASE Fail
  <2>1. /\ pc' = "done" /\ words' \in WordsAtFailure /\ count' = count /\ ack' # "OK"
        /\ pc \in Accesses
    BY <1>8 DEF Fail
  <2>2. CASE pc = "flush" /\ HasWord(reqs[Cur])
    <3>1. count \in 1..Len(reqs) - 1 /\ reqs[count].kind = "ap"
      BY <1>1, <2>2 DEF TypeOK, AtStage, Contents
    <3>2. StoppedBehindRead'
      BY <1>2, <2>1, <2>2, <3>1 DEF StoppedBehindRead, Cur, HasWord
    <3> QED
      BY <2>1, <3>2 DEF LengthInv, RequestLength
  <2>3. CASE ~(pc = "flush" /\ HasWord(reqs[Cur]))
    <3>1. words' = WordsUpTo(Len(reqs))
      BY <2>1, <2>3 DEF WordsAtFailure
    <3> QED
      BY <1>2, <1>3, <2>1, <3>1 DEF LengthInv, RequestLength
  <2> QED
    BY <2>2, <2>3
<1>9. CASE Retry \/ UNCHANGED vars
  <2>1. UNCHANGED <<pc, count, words>> /\ (pc = "done" => ack' = ack)
    BY <1>9 DEF Retry, vars, Accesses
  <2>2. pc = "done" => (StoppedBehindRead' <=> StoppedBehindRead)
    BY <1>2, <2>1 DEF StoppedBehindRead, Cur, HasWord
  <2> QED
    BY <1>2, <1>3, <2>1, <2>2 DEF LengthInv, RequestLength
<1> QED
  BY <1>4, <1>5, <1>6, <1>7, <1>8, <1>9 DEF Next

\* The length of the request is right wherever the command stops, but for the one
\* failure that stops it in front of a data word.
THEOREM LengthOfRequest == Spec => []RequestLength
<1>1. Init => LengthInv
  <2> SUFFICES ASSUME Init PROVE LengthInv
    OBVIOUS
  <2>1. words = 0 /\ count = 0 /\ (pc = "done" => Len(reqs) = 0)
    <3>1. IInv
      BY InitInv
    <3> QED
      BY <3>1, StageOfRequest DEF Init, IInv, TypeOK
  <2>2. WordsUpTo(0) = 0
    BY WordsBound
  <2> QED
    BY <2>1, <2>2 DEF LengthInv, RequestLength
<1>2. IInv /\ LengthInv /\ [Next]_vars => LengthInv'
  BY StepLength
<1>3. LengthInv => RequestLength
  BY DEF LengthInv
<1> QED
  BY <1>1, <1>2, <1>3, Invariance, PTL DEF Spec
================================================================================
