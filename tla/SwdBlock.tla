------------------------------- MODULE SwdBlock -------------------------------
(***************************************************************************)
(* The DAP_TransferBlock command on an SWD port: DAP_SWD_TransferBlock in  *)
(* Core/Src/CMSIS-DAP/DAP.c (1306-1396).                                   *)
(*                                                                         *)
(* One request is made many times: it reads or writes one register again   *)
(* and again.  The command has loops of its own for what DAP_Transfer does *)
(* request by request; the target, whose reads are posted and whose writes *)
(* are buffered, is that of SwdTransfer.  One step is one call of          *)
(* SWD_Transfer and the code behind it, up to the next call.               *)
(***************************************************************************)
EXTENDS Naturals, Sequences

CONSTANTS
  RetryCount,            \* DAP_Data.transfer.retry_count
  MaxWords               \* bound: words per block (a 16-bit count)

ASSUME BlockAssumption == {RetryCount, MaxWords} \subseteq Nat

\* What the bits RnW and APnDP of the request make of it.
Kind == {"ap", "dp", "write"}

VARIABLES
  kind,                  \* the request
  total,                 \* how many words the host asks for
  pc,                    \* what the next call of SWD_Transfer is for
  count,                 \* response_count
  ack,                   \* response_value; "none" is its initial 0
  retry,
  out,                   \* the words in the response, by their number in the block
  \* the target
  rdbuf,                 \* word the next AP or RDBUFF read returns; 0: none
  unconfirmed            \* a buffered write has not been followed by an accepted access

vars == <<kind, total, pc, count, ack, retry, out, rdbuf, unconfirmed>>

TypeOK ==
  /\ kind \in Kind
  /\ total \in 0..MaxWords
  /\ pc \in {"post", "read", "write", "check", "done"}
  /\ count \in 0..total
  /\ ack \in {"none", "OK", "WAIT", "FAULT", "ERROR"}
  /\ retry \in 0..RetryCount
  /\ out \in Seq(1..total)
  /\ rdbuf \in 0..total
  /\ unconfirmed \in BOOLEAN

Init ==
  /\ kind \in Kind
  /\ total \in 0..MaxWords
  /\ pc = IF total = 0 THEN "done"
          ELSE [ap |-> "post", dp |-> "read", write |-> "write"][kind]
  /\ count = 0
  /\ ack = "none"
  /\ retry = RetryCount
  /\ out = <<>>
  /\ rdbuf = 0
  /\ unconfirmed = FALSE

-------------------------------------------------------------------------------
Accepted ==
  /\ ack' = "OK"
  /\ retry' = RetryCount
  /\ UNCHANGED <<kind, total>>

\* A word comes with the read that posts the next one, or at last with RDBUFF; the
\* word of a debug port register with its own read.
Arriving == IF kind = "ap" THEN rdbuf ELSE count + 1

\* What the target has posted after the read of word count + 1.
PostedNext == IF kind = "ap" /\ count + 1 < total THEN count + 2 ELSE 0

\* Mutant: a word of an access port is counted when it is posted.
PostCounting ==
  /\ pc = "post"
  /\ Accepted
  /\ pc' = "read"
  /\ count' = count + 1
  /\ rdbuf' = 1
  /\ unconfirmed' = FALSE
  /\ UNCHANGED out

\* The read in front of the loop.
Post ==
  /\ pc = "post"
  /\ Accepted
  /\ pc' = "read"
  /\ rdbuf' = 1
  /\ unconfirmed' = FALSE
  /\ UNCHANGED <<count, out>>

ReadWord ==
  /\ pc = "read"
  /\ Accepted
  /\ out' = Append(out, Arriving)
  /\ count' = count + 1
  /\ rdbuf' = PostedNext
  /\ unconfirmed' = FALSE
  /\ pc' = IF count' < total THEN "read" ELSE "done"

\* Mutant: the last write is not checked.
WriteUnchecked ==
  /\ pc = "write"
  /\ Accepted
  /\ count' = count + 1
  /\ rdbuf' = 0
  /\ unconfirmed' = TRUE
  /\ pc' = IF count' < total THEN "write" ELSE "done"
  /\ UNCHANGED out

WriteWord ==
  /\ pc = "write"
  /\ Accepted
  /\ count' = count + 1
  /\ rdbuf' = 0
  /\ unconfirmed' = TRUE
  /\ pc' = IF count' < total THEN "write" ELSE "check"
  /\ UNCHANGED out

CheckWrite ==
  /\ pc = "check"
  /\ Accepted
  /\ rdbuf' = 0
  /\ unconfirmed' = FALSE
  /\ pc' = "done"
  /\ UNCHANGED <<count, out>>

Retry ==
  /\ pc # "done" /\ retry > 0
  /\ ack' = "WAIT"
  /\ retry' = retry - 1
  /\ UNCHANGED <<kind, total, pc, count, out, rdbuf, unconfirmed>>

\* goto end
Fail ==
  /\ pc # "done"
  /\ \E reply \in {"WAIT", "FAULT", "ERROR"} :
       /\ reply = "WAIT" => retry = 0
       /\ reply = "ERROR" => pc # "write"
       /\ ack' = reply
  /\ pc' = "done"
  /\ UNCHANGED <<kind, total, count, retry, out, rdbuf, unconfirmed>>

Next == Post \/ ReadWord \/ WriteWord \/ CheckWrite \/ Retry \/ Fail

\* The command is a function: it runs until it returns.
Spec == Init /\ [][Next]_vars /\ WF_vars(Next)

-------------------------------------------------------------------------------
\* The host takes as many words from a read's response as its count says: wherever
\* the block stops, these are the first words of the block, each once, and no word
\* lies behind them.
CountedWordsInOrder ==
  out = IF kind = "write" THEN <<>> ELSE [k \in 1..count |-> k]

-------------------------------------------------------------------------------
(***************************************************************************)
(* Refinement: a block is a DAP_Transfer command of equal requests.  The   *)
(* transfer command counts a posted read as done and the block does not.   *)
(***************************************************************************)
Requests == [k \in 1..total |-> [kind |-> kind, stamp |-> FALSE]]

StageInTransfer ==
  IF pc = "read" /\ kind = "ap" THEN IF count + 1 < total THEN "flush" ELSE "final"
  ELSE pc

CountInTransfer == IF rdbuf # 0 THEN count + 1 ELSE count
PostedInTransfer == kind = "ap" /\ (rdbuf # 0 \/ count > 0)
CheckInTransfer == kind = "write" /\ count > 0

\* The transfer command skips the data words it has not come to.
WordsInTransfer ==
  IF kind # "write" THEN 0
  ELSE IF pc = "done" /\ ack \notin {"none", "OK"} THEN total ELSE count

\* A word is the value of its request.
OutInTransfer == [i \in DOMAIN out |-> 2 * out[i] + 1]

Transfer == INSTANCE SwdTransfer WITH
  MatchRetry  <- 0,
  MaxRequests <- MaxWords,
  reqs        <- Requests,
  pc          <- StageInTransfer,
  count       <- CountInTransfer,
  ack         <- ack,
  mismatch    <- FALSE,
  posted      <- PostedInTransfer,
  checkWrite  <- CheckInTransfer,
  retry       <- retry,
  matchRetry  <- 0,
  words       <- WordsInTransfer,
  out         <- OutInTransfer,
  rdbuf       <- rdbuf,
  unconfirmed <- unconfirmed

\* The shortcuts of the block command cannot be told from the transfer of equal
\* requests: the same accesses in the same order, the same values, the same
\* acknowledge, and it ends.
ActsLikeTransfer == Transfer!Spec
================================================================================
