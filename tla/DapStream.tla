------------------------------- MODULE DapStream -------------------------------
(***************************************************************************)
(* One DAP connection's byte stream: the message buffer, its parser and    *)
(* the parse / execute / send / consume loop of a receive callback.  There *)
(* are two of them.  "remote" is tcp_conn_recv (Core/Src/remoteServer.c:   *)
(* 92-181, 242-289); lan_conn_recv (tls_client.c) is the same code.  So is *)
(* tls_remote_recv, but for who calls it: "tls" is that loop under the     *)
(* record loop of altcp_mbedtls_inner_recv (altcp_tls_mbedtls.c:246-277).  *)
(* "lan" is tcp_server_recv of the LAN-only server (tcpServerRAW.c:        *)
(* 130-245), which goes on where the others close the connection.          *)
(*                                                                         *)
(* TCP hands the stream over in pieces that have nothing to do with frames.*)
(* A byte is identified by the frame it belongs to and its place in it.    *)
(* Where a whole header stands the parser reads that header.  Where it     *)
(* looks for one and none stands whole, behind bytes that were cut off or  *)
(* dropped, the bytes it takes for one are the client's all the same: a    *)
(* signature with a length from behind the hole, the middle of a payload.  *)
(* They can say anything, and what they say is part of what was written.   *)
(***************************************************************************)
EXTENDS Integers, Sequences, FiniteSets, SequencesExt

CONSTANTS
  Hdr,                   \* sizeof(struct cmsis_dap_tcp_packet_hdr): 8
  PktSize,               \* DAP_PKT_SIZE, and recv_buffer_size of the LAN server: 4096
  Wnd,                   \* TCP_WND, the most one receive callback brings: 4096
  Dec,                   \* sizeof(dec_buf), the most one read of a TLS record does: 1024
  Frame,                 \* what the client can write: payload length and header, and
                         \* for each byte what a parser reads that looks for a header
                         \* there and finds none whole
  MaxFrames              \* bound: frames per connection

MsgBuf == 3 * (PktSize + Hdr)           \* sizeof(msgbuf_t.data)

\* A header has the signature and type of a request, or is wrong in one of them.
Header == [len : Nat, head : {"ok", "type", "signature"}]

ASSUME StreamAssumption ==
  /\ {Hdr, PktSize, Wnd, Dec, MaxFrames} \subseteq Nat \ {0}
  /\ \A f \in Frame : /\ [len |-> f.len, head |-> f.head] \in Header
                      /\ \A k \in 1..Hdr + f.len : f.torn[k] \in Header
  /\ Hdr + PktSize - 1 + Wnd <= MsgBuf            \* 8 + 4096 - 1 + 4096 <= 12312
  /\ Dec <= Wnd

VARIABLES
  mode,                  \* whose: "remote", "tls" or "lan"
  frames,                \* what the client has written
  held,                  \* how many bytes of it came with the end of the handshake and
                         \* wait, unread, for another segment
  delivered,             \* how many bytes of it the firmware has been given
  rx,                    \* the message buffer
  executed,              \* frames passed to DAP_ProcessCommand, in order; 0: one that
                         \* was put together from the bytes of several
  answered,              \* those whose response tcp_write accepted, in order
  why                    \* "open", what ended the connection, or the first thing that
                         \* went wrong on a connection that went on

vars == <<mode, frames, held, delivered, rx, executed, answered, why>>

Closed == {"peer", "full", "header", "send"}
Live   == why \notin Closed

\* The header h is one of a request.  The LAN server ignores the type, and its buffer
\* holds header and payload.
WellFormed(h) ==
  IF mode = "lan" THEN h.head # "signature" /\ Hdr + h.len <= PktSize
  ELSE h.head = "ok" /\ h.len <= PktSize

\* Mutant: room for one frame, as if a callback never brought more than its end.
CapacityOfOneFrame == IF mode = "lan" THEN PktSize ELSE Hdr + PktSize

Capacity == IF mode = "lan" THEN PktSize ELSE MsgBuf

Bytes(n) == [k \in 1..Hdr + frames[n].len |-> <<n, k>>]
Wire == FlattenSeq([n \in 1..Len(frames) |-> Bytes(n)])

TypeOK ==
  /\ mode \in {"remote", "tls", "lan"}
  /\ frames \in Seq(Frame) /\ Len(frames) <= MaxFrames
  /\ delivered \in 0..Len(Wire)
  /\ held \in 0..Len(Wire) /\ (held > 0 => mode = "tls" /\ delivered = 0)
  /\ rx \in Seq(ToSet(Wire)) /\ Len(rx) < Hdr + PktSize      \* less than a frame waits
  /\ executed \in Seq(0..Len(frames))
  /\ answered \in Seq(0..Len(frames))
  /\ why \in {"open", "truncated", "discarded", "lost", "hole"} \cup Closed

Init ==
  /\ mode \in {"remote", "tls", "lan"}
  /\ frames = <<>>
  /\ held = 0
  /\ delivered = 0
  /\ rx = <<>>
  /\ executed = <<>>
  /\ answered = <<>>
  /\ why = "open"

-------------------------------------------------------------------------------
\* What is read where the buffer starts.
HeaderAt(buf) ==
  LET f     == frames[buf[1][1]]
      whole == SubSeq(buf, 1, Hdr) = SubSeq(Bytes(buf[1][1]), 1, Hdr)
  IN  IF whole THEN [len |-> f.len, head |-> f.head] ELSE f.torn[buf[1][2]]

\* Mutant: a header with an impossible length is not refused.
ParseNoLengthCheck(buf) ==
  IF Len(buf) < Hdr THEN 0
  ELSE IF HeaderAt(buf).head # "ok" THEN -1
  ELSE IF Len(buf) < Hdr + HeaderAt(buf).len THEN 0 ELSE 1

\* Mutant: the signature and the packet type are not looked at.
ParseNoMagic(buf) ==
  IF Len(buf) < Hdr THEN 0
  ELSE IF HeaderAt(buf).len > PktSize THEN -1
  ELSE IF Len(buf) < Hdr + HeaderAt(buf).len THEN 0 ELSE 1

\* msgbuf_parse, and the checks in the LAN server's loop: 1 a whole request, 0 not
\* yet, -1 refused.
Parse(buf) ==
  IF Len(buf) < Hdr THEN 0
  ELSE IF ~WellFormed(HeaderAt(buf)) THEN -1
  ELSE IF Len(buf) < Hdr + HeaderAt(buf).len THEN 0 ELSE 1

\* Mutant: everything is thrown away, the start of the next frame included.
ConsumeAll(buf, n) == <<>>

\* msgbuf_consume, and the advance of offset.
Consume(buf, n) == SubSeq(buf, n + 1, Len(buf))

Noted(end, trouble) == IF end = "open" THEN trouble ELSE end

\* What is executed when a request is found at the start of the buffer: frame n, or
\* bytes that are not those of one frame.
Command(buf, n) == IF SubSeq(buf, 1, Hdr + HeaderAt(buf).len) = Bytes(n) THEN n ELSE 0

\* Mutant: what could not be sent is consumed and the connection kept, in both.
RefusedIgnored(s, c, rest) ==
  [s EXCEPT !.done = Append(@, c), !.buf = rest]

\* The response to c does not fit into the send buffer.
Refused(s, c, rest) ==
  IF mode = "lan"
  THEN [s EXCEPT !.done = Append(@, c), !.buf = rest, !.end = Noted(@, "lost")]
  ELSE [s EXCEPT !.done = Append(@, c), !.buf = <<>>, !.end = "send"]

\* One round of the loop, from the loop's state s.  fits are the frames such that
\* lwIP takes, in this callback, the responses to commands that begin in them.
Round(s) ==
  LET n    == s.buf[1][1]
      c    == Command(s.buf, n)
      rest == Consume(s.buf, Hdr + HeaderAt(s.buf).len)
  IN
    IF s.end \in Closed \/ Parse(s.buf) = 0 THEN s
    ELSE IF Parse(s.buf) = -1
    THEN [s EXCEPT !.buf = <<>>,
                   !.end = IF mode = "lan" THEN Noted(@, "discarded") ELSE "header"]
    ELSE IF n \notin s.fits THEN Refused(s, c, rest)
    ELSE [s EXCEPT !.done = Append(@, c), !.sent = Append(@, c), !.buf = rest]

\* Mutant: one frame per callback.
DrainOnce(s) == Round(s)

\* The loop: every round that goes on takes something off the buffer.
Drain(s) ==
  LET rounds == Len(s.buf)
      after[k \in 0..rounds] == IF k = 0 THEN s ELSE Round(after[k - 1])
  IN  after[rounds]

-------------------------------------------------------------------------------
\* The client writes one more frame.
ClientSend ==
  /\ Live
  /\ Len(frames) < MaxFrames
  /\ \E f \in Frame : frames' = Append(frames, f)
  /\ UNCHANGED <<mode, held, delivered, rx, executed, answered, why>>

\* The first bytes come in one segment with the end of the handshake: the adapter
\* calls the connected callback and returns without reading them.
HeldBack ==
  /\ Live /\ mode = "tls" /\ delivered = 0 /\ held = 0
  /\ held' \in 1..Len(Wire)
  /\ UNCHANGED <<mode, frames, delivered, rx, executed, answered, why>>

\* Has another segment come than the one whose bytes are held?
Heard == held = 0 \/ held < Len(Wire)

Arriving(n) == SubSeq(Wire, delivered + 1, delivered + n)

\* The receive callback with a pbuf of n bytes.
Recv(n, fits) ==
  LET pbuf == Arriving(n)
      room == Capacity - Len(rx)
      cut  == n > room
      s    == Drain([buf  |-> rx \o (IF cut THEN SubSeq(pbuf, 1, room) ELSE pbuf),
                     done |-> executed, sent |-> answered, fits |-> fits,
                     end  |-> IF cut THEN Noted(why, "truncated") ELSE why])
  IN
  /\ Live
  /\ delivered' = delivered + n
  /\ held' = 0
  /\ IF cut /\ mode # "lan"                          \* msgbuf_add_pbuf
     THEN rx' = <<>> /\ why' = "full" /\ UNCHANGED <<executed, answered>>
     ELSE rx' = s.buf /\ why' = s.end /\ executed' = s.done /\ answered' = s.sent
  /\ UNCHANGED <<mode, frames>>

\* What one call of the callback can bring.
Brought == 1..Min({IF mode = "tls" THEN Dec ELSE Wnd, Len(Wire) - delivered})

RecvSome ==
  /\ Heard
  /\ \E n \in Brought : \E fits \in SUBSET {b[1] : b \in ToSet(rx \o Arriving(n))} :
       Recv(n, fits)

\* No pbuf is left for what a record's read has decrypted: it is dropped, and the
\* loop goes on with the next.
DropDecrypted ==
  /\ Live /\ mode = "tls" /\ Heard
  /\ \E n \in Brought : delivered' = delivered + n
  /\ held' = 0
  /\ why' = Noted(why, "hole")
  /\ UNCHANGED <<mode, frames, rx, executed, answered>>

\* The peer's FIN or reset, at any moment.
PeerGone ==
  /\ Live
  /\ why' = "peer"
  /\ rx' = <<>>
  /\ UNCHANGED <<mode, frames, held, delivered, executed, answered>>

Next == ClientSend \/ HeldBack \/ RecvSome \/ DropDecrypted \/ PeerGone

Spec == Init /\ [][Next]_vars

\* A step that brings bytes: of those above, RecvSome and DropDecrypted.
Delivery == Live /\ Heard /\ delivered' \in delivered + 1..Len(Wire)

\* TCP delivers what was written, as long as the connection lives, and what is held
\* behind the handshake as soon as something comes behind it.  Nothing makes the client
\* write again.
FairSpec == Spec /\ WF_delivered(Delivery)

-------------------------------------------------------------------------------
Ends(n) == Len(FlattenSeq([i \in 1..n |-> Bytes(i)]))

\* TLS_FORWARDING.md section 5: as long as nothing went wrong, whatever the pieces,
\* after each callback every frame that has arrived as a whole has been executed and
\* answered: none waits in the buffer for more traffic, and none was taken apart.
CompleteFramesServed ==
  why = "open" =>
    \A n \in 1..Len(frames) :
      /\ Ends(n) <= delivered <=> n \in ToSet(executed)
      /\ n \in ToSet(executed) <=> n \in ToSet(answered)

\* The buffer is exactly the unserved end of what has been delivered, so the next
\* header is looked for where a frame begins.
BufferAligned ==
  why = "open" => rx = SubSeq(Wire, Ends(Len(executed)) + 1, delivered)

\* The buffer never overflows: three frames are enough for the start of one and
\* whatever one callback brings, so msgbuf_add_pbuf's error is not reached and no
\* client is thrown out for sending fast.
NeverFull == why # "full"

\* No frame is executed that is malformed, none twice and none out of order, whatever
\* has been truncated, dropped or discarded.  And as long as nothing has, and to the end
\* where trouble closes the connection, nothing but frames is executed, each in its
\* turn.  Behind a hole in the stream something else may be (OnlyWrittenMessages).
OnlyWellFormedRuns ==
  /\ \A n \in ToSet(executed) \ {0} : WellFormed(frames[n])
  /\ \A i, j \in DOMAIN executed : i < j /\ executed[j] # 0 => executed[i] < executed[j]
  /\ mode = "remote" \/ why = "open" => \A i \in DOMAIN executed : executed[i] = i

-------------------------------------------------------------------------------
\* The requests of the client: its frames up to the first malformed one.
Requests ==
  Cardinality({n \in DOMAIN frames : \A m \in 1..n : WellFormed(frames[m])})

\* How many of them have been answered, one after the other.
InTurn ==
  Cardinality({n \in DOMAIN answered : \A m \in 1..n : executed[m] = m /\ answered[m] = m})

\* One more may have been executed before something went wrong with its answer.
Clean == InTurn + IF Len(executed) > InTurn /\ executed[InTurn + 1] = InTurn + 1 THEN 1 ELSE 0

Rpc == INSTANCE InOrderRpc WITH
         issued   <- Requests,
         executed <- Clean,
         answered <- InTurn,
         open     <- why = "open",
         heard    <- Heard

\* Fragmentation and coalescing do not show: until something goes wrong the
\* connection behaves as an in-order request/response service, and every request is
\* served unless it does.  Excepted are requests held behind the TLS handshake while
\* the client waits for their answers and writes nothing more: till then the service
\* does not hear it (Heard).
RpcSpec == Rpc!Spec

-------------------------------------------------------------------------------
(***************************************************************************)
(* What the repository says and the code does not do.                      *)
(***************************************************************************)

\* TLS_FORWARDING.md:176-178: the gateway "waits for the declared payload length, and
\* processes all complete messages": what is executed was written as one message.  The
\* LAN server says so as well (tcpServerRAW.c:191).
OnlyWrittenMessages == 0 \notin ToSet(executed)
================================================================================
