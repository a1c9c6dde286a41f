------------------------------ MODULE SwdTransfer ------------------------------
(***************************************************************************)
(* The DAP_Transfer command on an SWD port: DAP_SWD_Transfer in            *)
(* Core/Src/CMSIS-DAP/DAP.c (692-953).                                     *)
(*                                                                         *)
(* Reads of an access port are posted: the target answers one with the     *)
(* value of the one before, and the last value is fetched from RDBUFF.     *)
(* Writes are buffered: whether one worked shows at a later access.  The   *)
(* command hides both from the host, retries accesses the target is too    *)
(* busy for, polls a register until it matches, and stops at the first     *)
(* failure.  One step is one call of SWD_Transfer and the code behind it,  *)
(* up to the next call.                                                    *)
(*                                                                         *)
(* A value is the number of the request that asked for it.  The command    *)
(* clears DAP_TransferAbort and nothing sets it.                           *)
(***************************************************************************)
EXTENDS Naturals, Sequences, FiniteSets

CONSTANTS
  RetryCount,            \* DAP_Data.transfer.retry_count
  MatchRetry,            \* DAP_Data.transfer.match_retry
  MaxRequests            \* bound: requests per command (an 8-bit count)

ASSUME TransferAssumption == {RetryCount, MatchRetry, MaxRequests} \subseteq Nat

\* What the bits RnW, APnDP, MATCH_VALUE and MATCH_MASK of a request make of it;
\* stamp is its bit TIMESTAMP where the command looks at it.
Request == [kind : {"ap", "dp", "write"}, stamp : BOOLEAN]
           \cup [kind : {"apMatch", "dpMatch", "mask"}, stamp : {FALSE}]

\* What the next call of SWD_Transfer is for ("mask" makes none).
Stage == {"flush", "post", "read", "compare", "write", "mask", "final", "check", "done"}

VARIABLES
  reqs,                  \* the requests of the command
  pc,                    \* the stage the command is in
  count,                 \* response_count; request count + 1 is being processed
  ack,                   \* response_value without MISMATCH; "none" is its initial 0,
                         \* "FAULT" also an answer the protocol does not know
  mismatch,              \* the bit MISMATCH of response_value
  posted,                \* post_read
  checkWrite,            \* check_write
  retry,
  matchRetry,
  words,                 \* data words the request pointer has passed, as of the last
                         \* completed request and at the end
  out,                   \* what has been stored in the response
  \* the target
  rdbuf,                 \* request whose value the next AP or RDBUFF read returns; 0: none
  unconfirmed            \* a buffered write has not been followed by an accepted access

vars == <<reqs, pc, count, ack, mismatch, posted, checkWrite, retry, matchRetry,
          words, out, rdbuf, unconfirmed>>

\* Entries of the response, numbered in the order the host expects them: the
\* timestamp of request n and its value.
StampOf(n) == 2 * n
ValueOf(n) == 2 * n + 1

Cur == count + 1
Kind == reqs[Cur].kind
CurStamp == IF reqs[Cur].stamp THEN <<StampOf(Cur)>> ELSE <<>>

HasWord(r) == r.kind \notin {"ap", "dp"}
WordsUpTo(n) == Cardinality({k \in 1..n : HasWord(reqs[k])})

\* Mutant: a match read of an access port is not posted first.
CompareUnposted(r) ==
  [ap |-> "post", dp |-> "read", apMatch |-> "compare", dpMatch |-> "compare",
   write |-> "write", mask |-> "mask"][r.kind]

\* The stage of a request with no posted read before it.
StageOf(r) ==
  [ap |-> "post", dp |-> "read", apMatch |-> "post", dpMatch |-> "compare",
   write |-> "write", mask |-> "mask"][r.kind]

TypeOK ==
  /\ reqs \in Seq(Request) /\ Len(reqs) <= MaxRequests
  /\ pc \in Stage
  /\ count \in 0..Len(reqs)
  /\ ack \in {"none", "OK", "WAIT", "FAULT", "ERROR"}
  /\ mismatch \in BOOLEAN /\ posted \in BOOLEAN
  /\ checkWrite \in BOOLEAN /\ unconfirmed \in BOOLEAN
  /\ retry \in 0..RetryCount
  /\ matchRetry \in 0..MatchRetry
  /\ words \in 0..Len(reqs)
  /\ out \in Seq(Nat)
  /\ rdbuf \in 0..Len(reqs)
  /\ pc \notin {"final", "check", "done"} => count < Len(reqs)

\* Mutant: only a read of an access port collects the posted one.
FlushForApOnly(n, isPosted, isWrite) ==
  IF n <= Len(reqs)
  THEN IF isPosted /\ reqs[n].kind \in {"ap", "apMatch"} THEN "flush" ELSE StageOf(reqs[n])
  ELSE IF isPosted THEN "final" ELSE IF isWrite THEN "check" ELSE "done"

\* Mutant: the command ends without its last read.
NoFinalRead(n, isPosted, isWrite) ==
  IF n <= Len(reqs) THEN IF isPosted THEN "flush" ELSE StageOf(reqs[n])
  ELSE IF isWrite THEN "check" ELSE "done"

\* Where the command goes to process request n: a posted read is collected first;
\* behind the last request the last read is collected or the last write checked.
StartOf(n, isPosted, isWrite) ==
  IF n <= Len(reqs) THEN IF isPosted THEN "flush" ELSE StageOf(reqs[n])
  ELSE IF isPosted THEN "final" ELSE IF isWrite THEN "check" ELSE "done"

Init ==
  /\ \E n \in 0..MaxRequests : reqs \in [1..n -> Request]
  /\ pc = IF reqs = <<>> THEN "done" ELSE StageOf(reqs[1])
  /\ count = 0
  /\ ack = "none"
  /\ mismatch = FALSE
  /\ posted = FALSE
  /\ checkWrite = FALSE
  /\ retry = RetryCount
  /\ matchRetry = MatchRetry
  /\ words = 0
  /\ out = <<>>
  /\ rdbuf = 0
  /\ unconfirmed = FALSE

-------------------------------------------------------------------------------
\* The target accepts the access; a parity error after that is an ERROR.
Accepted ==
  /\ ack' = "OK"
  /\ retry' = RetryCount
  /\ UNCHANGED <<reqs, mismatch>>

\* Request Cur has been processed.
Complete(isPosted, isWrite) ==
  /\ count' = Cur
  /\ posted' = isPosted
  /\ checkWrite' = isWrite
  /\ pc' = StartOf(Cur + 1, isPosted, isWrite)
  /\ matchRetry' = MatchRetry
  /\ words' = WordsUpTo(Cur)

\* The command goes on with the same request.
GoOn(stage) ==
  /\ pc' = stage
  /\ UNCHANGED <<count, checkWrite, words>>

\* A read of an access port behind another: one access collects that value and
\* posts this read.
FlushPosting ==
  /\ pc = "flush" /\ Kind = "ap"
  /\ Accepted
  /\ out' = out \o <<ValueOf(rdbuf)>> \o CurStamp
  /\ rdbuf' = Cur
  /\ unconfirmed' = FALSE
  /\ Complete(TRUE, FALSE)

\* Anything else behind a posted read: its value is fetched from RDBUFF.
Flush ==
  /\ pc = "flush" /\ Kind # "ap"
  /\ Accepted
  /\ out' = Append(out, ValueOf(rdbuf))
  /\ rdbuf' = 0
  /\ posted' = FALSE
  /\ unconfirmed' = FALSE
  /\ GoOn(StageOf(reqs[Cur]))
  /\ UNCHANGED matchRetry

Post ==
  /\ pc = "post" /\ Kind = "ap"
  /\ Accepted
  /\ out' = out \o CurStamp
  /\ rdbuf' = Cur
  /\ unconfirmed' = FALSE
  /\ Complete(TRUE, FALSE)

PostForMatch ==
  /\ pc = "post" /\ Kind = "apMatch"
  /\ Accepted
  /\ rdbuf' = Cur
  /\ unconfirmed' = FALSE
  /\ GoOn("compare")
  /\ UNCHANGED <<posted, matchRetry, out>>

ReadDp ==
  /\ pc = "read"
  /\ Accepted
  /\ out' = out \o CurStamp \o <<ValueOf(Cur)>>
  /\ rdbuf' = 0
  /\ unconfirmed' = FALSE
  /\ Complete(posted, FALSE)

\* The access of a match read; on an access port it also posts the next one.
CompareAccess ==
  /\ pc = "compare"
  /\ rdbuf' = IF Kind = "apMatch" THEN Cur ELSE 0
  /\ unconfirmed' = FALSE
  /\ UNCHANGED out

Match ==
  /\ CompareAccess
  /\ Accepted
  /\ Complete(posted, FALSE)

\* Mutant: the comparisons are not counted.
MatchForever ==
  /\ CompareAccess
  /\ Accepted
  /\ GoOn("compare")
  /\ UNCHANGED <<posted, matchRetry>>

MatchAgain ==
  /\ CompareAccess /\ matchRetry > 0
  /\ Accepted
  /\ matchRetry' = matchRetry - 1
  /\ GoOn("compare")
  /\ UNCHANGED posted

MatchFails ==
  /\ CompareAccess /\ matchRetry = 0
  /\ ack' = "OK" /\ mismatch' = TRUE
  /\ pc' = "done"
  /\ words' = WordsUpTo(Len(reqs))
  /\ UNCHANGED <<reqs, count, posted, checkWrite, retry, matchRetry>>

Write ==
  /\ pc = "write"
  /\ Accepted
  /\ out' = out \o CurStamp
  /\ rdbuf' = 0
  /\ unconfirmed' = TRUE
  /\ Complete(posted, TRUE)

\* Mutant: the mask is treated like a read.
MaskLikeRead ==
  /\ pc = "mask"
  /\ ack' = "OK"
  /\ Complete(posted, FALSE)
  /\ UNCHANGED <<reqs, mismatch, retry, out, rdbuf, unconfirmed>>

\* The match mask stays in the probe.
WriteMask ==
  /\ pc = "mask"
  /\ ack' = "OK"
  /\ Complete(posted, checkWrite)
  /\ UNCHANGED <<reqs, mismatch, retry, out, rdbuf, unconfirmed>>

FinalRead ==
  /\ pc = "final"
  /\ Accepted
  /\ out' = Append(out, ValueOf(rdbuf))
  /\ rdbuf' = 0
  /\ unconfirmed' = FALSE
  /\ GoOn("done")
  /\ UNCHANGED <<posted, matchRetry>>

CheckWrite ==
  /\ pc = "check"
  /\ Accepted
  /\ rdbuf' = 0
  /\ unconfirmed' = FALSE
  /\ GoOn("done")
  /\ UNCHANGED <<posted, matchRetry, out>>

Accesses == Stage \ {"mask", "done"}

\* Mutant: the counter is tested after it has been decremented.
RetryTestedLate ==
  /\ pc \in Accesses
  /\ ack' = "WAIT"
  /\ retry' = retry - 1
  /\ UNCHANGED <<reqs, pc, count, mismatch, posted, checkWrite, matchRetry,
                 words, out, rdbuf, unconfirmed>>

\* The target answers WAIT and the access is tried again.
Retry ==
  /\ pc \in Accesses /\ retry > 0
  /\ ack' = "WAIT"
  /\ retry' = retry - 1
  /\ UNCHANGED <<reqs, pc, count, mismatch, posted, checkWrite, matchRetry,
                 words, out, rdbuf, unconfirmed>>

\* A match read that fails still compares `data`: what the last comparison left
\* there, what came with the wrong parity, or whatever there was before.
MismatchAfter(reply) ==
  IF pc # "compare" THEN {FALSE}
  ELSE IF matchRetry < MatchRetry /\ reply # "ERROR" THEN {TRUE} ELSE BOOLEAN

\* Mutant: a cancelled match read is skipped like a plain one.
SkippingWrites ==
  IF pc = "flush" /\ HasWord(reqs[Cur])
  THEN {words + m : m \in 0..(Len(reqs) - Cur)}
  ELSE {WordsUpTo(Cur) + Cardinality({k \in Cur + 1..Len(reqs) :
                                        reqs[k].kind \in {"write", "mask"}})}

\* The cancelled requests are skipped by their sizes.  When the collection of a
\* posted read fails, the data word of the current request has not been passed yet
\* and its bytes are taken for the next requests.
WordsAtFailure ==
  IF pc = "flush" /\ HasWord(reqs[Cur])
  THEN {words + m : m \in 0..(Len(reqs) - Cur)}
  ELSE {WordsUpTo(Len(reqs))}

\* The target does not accept the access, or the value arrives damaged: the command
\* stops there.
Fail ==
  /\ pc \in Accesses
  /\ \E reply \in {"WAIT", "FAULT", "ERROR"} :
       /\ reply = "WAIT" => retry = 0
       /\ reply = "ERROR" => pc # "write"
       /\ ack' = reply
       /\ mismatch' \in MismatchAfter(reply)
  /\ words' \in WordsAtFailure
  /\ posted' = (posted /\ ~(pc = "flush" /\ Kind \in {"dp", "dpMatch", "apMatch"}))
  /\ pc' = "done"
  /\ UNCHANGED <<reqs, count, checkWrite, retry, matchRetry, out, rdbuf, unconfirmed>>

Next ==
  \/ FlushPosting \/ Flush
  \/ Post \/ PostForMatch \/ ReadDp
  \/ Match \/ MatchAgain \/ MatchFails
  \/ Write \/ WriteMask
  \/ FinalRead \/ CheckWrite
  \/ Retry \/ Fail

\* The command is a function: it runs until it returns.
Spec == Init /\ [][Next]_vars /\ WF_vars(Next)

-------------------------------------------------------------------------------
Entries(s) == {s[i] : i \in DOMAIN s}
Increasing(s) == \A i, j \in DOMAIN s : i < j => s[i] < s[j]

\* What the first n requests are to leave in the response.
Expected(n) ==
  {StampOf(k) : k \in {j \in 1..n : reqs[j].stamp}}
  \cup {ValueOf(k) : k \in {j \in 1..n : reqs[j].kind \in {"ap", "dp"}}}

\* However reads, writes and matches follow one another, and wherever the command
\* stops, the response holds what the completed requests asked for, each value
\* that of its own request and in the order of the requests; only the value of
\* the last one may be missing, when it is still posted.
ReadsInOrder ==
  /\ Increasing(out)
  /\ Entries(out) \subseteq Expected(count)
  /\ Expected(count) \ Entries(out) \subseteq {ValueOf(count)}

\* A response that says OK is complete: every request has been processed, the
\* value of the last posted read included.
OkIsComplete ==
  pc = "done" /\ ack = "OK" /\ ~mismatch
    => count = Len(reqs) /\ Entries(out) = Expected(Len(reqs))

\* A response that says OK vouches for the writes: the target has accepted an
\* access after the last of them, also when that one was followed by a write of
\* the match mask, which makes no access.
WritesConfirmed == pc = "done" /\ ack = "OK" /\ ~mismatch => ~unconfirmed

\* A match read of an access port compares its own register, never what an
\* earlier read has posted.
ComparesOwnRegister == pc = "compare" /\ Kind = "apMatch" => rdbuf = Cur

\* The retry and match counters end every command, whatever the target answers.
Terminates == <>(pc = "done")

\* The collection of a posted read can have failed in front of a data word, which
\* the command then has not passed when it skips the cancelled requests.
StoppedBehindRead ==
  /\ ack # "OK"
  /\ count \in 1..Len(reqs) - 1
  /\ reqs[count].kind = "ap" /\ HasWord(reqs[Cur])

\* The command returns the length of its request (DAP.c:690), by which the dispatcher
\* of packed commands finds the next one: wherever it stops, it has passed the data
\* words of all its requests, those it has cancelled included.
RequestLength == pc = "done" => words = WordsUpTo(Len(reqs)) \/ StoppedBehindRead
================================================================================
