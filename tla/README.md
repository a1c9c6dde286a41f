# TLA+ models of the CMSIS-DAP network gateway (STM32F746)

The firmware is a debug probe on the network: a bare-metal program (lwIP with
`NO_SYS=1`, one thread) that receives CMSIS-DAP commands over TCP, executes them
on an SWD or JTAG target through two SPI peripherals, and sends the responses
back. It reaches its users in one of three build-time modes
(`Core/Inc/dap_server_config.h`): `LAN` (a TCP server), `WAN` (a TCP server and
an outbound connection to a relay) and `TLS` (the same with TLS on the outbound
connection; the mode the repository is configured for).

## 1. Inventory

| Component | Source | State it keeps | Operations |
|---|---|---|---|
| WAN server | `Core/Src/remoteServer.c` | two static contexts (pcb, message buffer), `s_active_client`, `s_remote_connected`, `s_remote_reconnect_pending` | callbacks of lwIP: accept, recv, sent, err, connected, poll; the reconnect timer |
| TLS client | `Core/Src/tls_client.c` | the same, the remote context on an altcp pcb, the TLS configuration | the same |
| TLS adapter | `Core/Src/altcp_tls_mbedtls.c` | per pair of altcp pcbs: mbedTLS session, `handshake_done`, undecrypted pbufs | inner connected/recv/sent/err, connect, write, close, abort |
| Framing | `msgbuf_*` and the receive loops of the two files above | the message buffer | add, parse, consume |
| LAN server | `Core/Src/tcpServerRAW.c` | per connection a heap-allocated state with a buffer of 4096 bytes | accept, recv, sent, poll, err, close |
| DAP commands | `CMSIS-DAP/DAP.c` | `DAP_Data` (clock, retry counts, match mask, JTAG chain), `DAP_TransferAbort` | one handler per command |
| SWD/JTAG lines | `CMSIS-DAP/SW_DP.c`, `JTAG_DP.c`, `helper.c`, `Port/port.c` | SPI registers, the target's state machine | bit sequences, register transfers |
| Ethernet driver | `LWIP/Target/ethernetif.c` on `stm32f7xx_hal_eth.c` | a ring of 4 DMA descriptors with the positions of reader and builder, a pool of 12 receive buffers, `RxAllocStatus` | receive, transmit, link supervision |
| Main loop | `Core/Src/main.c`, `LWIP/App/lwip.c` | - | poll the driver, check the timeouts, supervise the link |

The components interact by calls and callbacks only. `MX_LWIP_Process` polls the
Ethernet driver; lwIP calls back into the server, which parses its buffer, calls
`DAP_ProcessCommand` to completion, writes the response and returns. No code
preempts other code in a way that matters: what interleaves are *callbacks*, in the
order segments, resets, give-ups and timers arrive, and several connections share
static contexts, one pool of tcp pcbs and one debug port. Two pieces of hardware do
run beside the program: the Ethernet DMA, which fills descriptors while the loop
reads and rebuilds them, and the target, which follows the SWD line clock by clock.

What is hard, in order of importance:

1. **Recovery of the outbound link.** A probe in the field is reachable only over
   it. Connection attempts fail at many places, each of which has to arm exactly
   one reconnect timer, and late callbacks of earlier connections must not upset it.
2. **Shared static contexts.** Callbacks carry the context, not the connection.
3. **Framing.** TCP delivers the stream in arbitrary pieces; commands are executed
   before it is known whether their answers can be sent.
4. **Zero-copy reception.** Buffers go from the pool to the DMA, to lwIP and back;
   the pool runs empty with descriptors half rebuilt, and the link comes and goes.
5. **Transfer commands.** Reads are posted and writes buffered in the target, retries
   nest, and a failure can come at any access.
6. **Bit arithmetic.** SPIs move 4 to 16 bits; sequences have any length, and an SWD
   transaction is cut at places that are not those of its fields.

What makes each part correct: a lost link is sought again and only one attempt is
under way (1); a context serves one connection, whose bytes alone are in its buffer
(2); requests are executed once, in order, and their answers are not lost silently
(3); each buffer is in one place and what was received is handed over (4); a response
holds what the target has really done (5); the right bits in the right cycles (6).

## 2. Modules

| Module | Models | Uses |
|---|---|---|
| `ReconnectingLink` | abstract: what the gateway promises about the outbound link | |
| `RemoteServer` | `remoteServer.c`: both contexts, the slot, the timer, lwIP's pcb pool | refines `ReconnectingLink` |
| `RemoteServerProofs` | inductive invariant of `RemoteServer`, its safety properties, the refinement | |
| `TlsClient` | the remote half of `tls_client.c` on `altcp_tls_mbedtls.c`; the LAN half as a competitor for pcbs | refines `ReconnectingLink` (until a handshake fails for good; liveness without fatal TLS errors) |
| `TlsClientProofs` | inductive invariant of `TlsClient` under every fault; one connection, one stream, a timer for a lost link and the refinement until a handshake fails for good | |
| `InOrderRpc` | abstract: requests executed and answered in order, at most once | |
| `DapStream` | message buffer, parser and receive loop of one connection, in both variants of the code | refines `InOrderRpc` |
| `DapStreamProofs` | its invariants and the refinement, for any sizes, any fragmentation and any number of frames | |
| `SpiSequence` | `calculate_xfer_sizes`, `SWJ_Sequence`, `apply_jtag_xfer` | |
| `SpiSequenceProofs` | its invariants for every bit count | |
| `SwdTransfer` | `DAP_SWD_Transfer` and the target it talks to | |
| `SwdTransferProofs` | its invariants for commands of any length and any retry counts | |
| `SwdBlock` | `DAP_SWD_TransferBlock` and the same target | refines `SwdTransfer` |
| `SwdBlockProofs` | its invariant and the refinement, for blocks of any length | |
| `SwdLine` | `SWD_Transfer_LL`: one SWD transaction, clock cycle by clock cycle | |
| `SwdLineProofs` | its invariants; two of the three need the turnaround of one cycle | |
| `FrameQueue` | abstract: what a receive path promises | |
| `EthRx` | the receive ring of the HAL, the buffer pool and the link supervision of `ethernetif.c`, in the phases of the main loop | refines `FrameQueue` |
| `EthRxProofs` | its invariants and the refinement, for rings and pools of any size | |
| `MC*` | nothing of their own: they give TLC a module per specification | |

A definition named `Mutant: ...` in a comment is a wrong variant of the definition
that follows it; it is used to show that a property notices that mistake and is
part of no specification.

### RemoteServer

One action per callback; each callback runs to completion, so it is one step.
`ctxPcb`, `rx`, `active`, `connected`, `pending` are the static variables. `st`,
`arg`, `relay` and `timers` are lwIP's side: the state of each pcb, the argument its
callbacks get, which pcbs lead to the relay, and how many entries of
`tcp_remote_reconnect_timer` are in the timeout list. A pcb that was closed is
"closing" until lwIP expires it, or free at once, which is how `tcp_close` behaves
when received data was not yet credited to the window. `rx` is abstracted to the
set of connections whose bytes a buffer holds. `DropSession` is the part that
`tcp_conn_err` and `tcp_conn_close` share. The receive callback is split by how its
loop ends (`RecvKept`, `RecvClosed`); `DapStream` has the loop itself.

`tcp_abort` after a failed `tcp_connect` calls the error callback, so that path
schedules twice; the model does too, and the property is that only one timer
results. `tcp_server_accept` ignores `err`, so lwIP's call with a null pcb
(`AcceptNoPcb`) clears the server context's buffer; it can only happen while the
slot is empty.

### TlsClient

A connection is a pair of altcp pcbs plus a tcp pcb; `MEMP_NUM_ALTCP_PCB = 5` makes
two pairs. The states distinguish what the adapter makes of it: `failed` and
`broken` are connections on which mbedTLS reported a fatal error during and after
the handshake, `deaf` one whose FIN has been consumed while nobody closed it. The
constant `Faults` says which fatal errors can occur, and `reported` which have. This is
the point of the model: on
a fatal handshake error the adapter tells the client and returns `ERR_ABRT`, but
frees nothing, so the connection goes on calling back with the shared context as
its argument. `RemoteClose(c, s)` therefore closes the *context's* connection, which
need not be `c`.

Some properties therefore hold only until a handshake has failed for good
(`HandshakesGood`): that there is one connection at a time, that its bytes alone are in
the buffer, and `LinkWatched`, that a link without a connection has a timer. What breaks
the last one is this. When a handshake fails as it starts, the *connected* callback
clears the context's connection (`tls_client.c:434`), whichever that is, and leaves
`s_remote_connected` set. Two pairs are enough:

1. The handshake of the first pair fails as it starts; the pair leaks. The timer
   sends the SYN of the second pair.
2. The leaked connection is reset: the context forgets the second one, and a timer is armed.
3. The timer sends the SYN of the first pair again; it connects, completes its
   handshake and is the link, `s_remote_connected` is set.
4. The handshake of the second pair starts and fails: the context's connection is
   NULL, `s_remote_connected` still set, a timer armed.
5. The timer finds `LinkBusy` and is gone.

The context has no connection and no timer, and so it stays until one of the two
connections it has forgotten calls back with an error or with a message that cannot be
answered.

`unread` is the set of connections with application records received and not
decrypted: the adapter returns after completing the handshake without reading
what came in the same segment.

After a close inside a receive callback the adapter's loop goes on with freed
memory; the model takes the outcome in which nothing more is read (mbedTLS's freed
context is zeroed). The bytes of a connection that goes on after it was forgotten
are attributed to it in `rx`.

### DapStream

The client's frames have a length and a header that is right or wrong in its
signature or type. A byte is `<<frame, place>>`, so a buffer is a sequence of
identifiable bytes and "the next eight bytes are a header" is a statement about
where they come from. Where a parser looks for a header and none stands whole, behind
bytes that were cut off or dropped, what it reads is bytes of the client all the same:
a signature that survived with a length from behind the hole, or the middle of a
payload. A frame's field `torn` says for each of its bytes what a header that begins
there reads as, and may be anything, a good header included (`HeaderAt`). `Frame` is
the constant set of frames a client can write. `Recv` is the whole receive callback: it
appends a pbuf of any size up to the window, and runs parse, execute, send and consume
until the parser is unsatisfied. `fits` are the frames whose responses lwIP takes during the callback
(`TCP_SND_BUF` is 2048 bytes; a response can be refused).

The code has the loop twice, and `mode` says which one runs. "remote" is that of
the WAN server, which closes the connection when the buffer overflows, a header is
refused or a response does not fit. "tls" is the same loop in the TLS client, called
by the adapter with what each read of a record decrypts; the adapter drops that
without an error when no pbuf is left (`DropDecrypted`), and goes on. A write that
mbedTLS cannot complete is a response that does not fit. "lan" is `tcp_server_recv` of the
LAN-only server, which goes on: it cuts what does not fit its buffer of one packet,
throws its buffer away at a bad header, and only prints a message when a response is
refused. A command put together from bytes of several frames is then executed as the
command 0 of nobody. The documents say that this does not happen; behind a hole it
does, in "lan" and in "tls" (`dap_hole`). `OnlyWellFormedRuns` says what is
left: no frame is executed that is malformed, none twice, none out of order, and as long
as nothing went wrong, and in the WAN server always, nothing but frames is executed.

`held` are the bytes that came in one segment with the end of the TLS handshake. The
adapter returns without reading them, so that nothing is delivered until another segment
comes behind them (`Heard`). A client that waits for its answer does not send one, and its
request waits for ever.

`why` keeps the first thing that went wrong, and the
refinement to `InOrderRpc` says that the service is in order until then:
`issued`, `executed` and `answered` of the abstract service are the numbers of
requests that got that far in turn. The abstract service owes progress only while it
hears its client (`heard`), which is `Heard`: the held requests are the one exception to
its liveness.

### SpiSequence

A bit is its number in the request. `left` is the array `xFerSizes`, `ptr` the bytes
by which the byte loop has advanced its pointer, and each step one SPI transfer.
Both functions are modelled by one step relation; they differ in where the
remainders are taken from (`RestFrom`). The SPI has data sizes of 4 to 16 bits. A
sequence of one to three bits is written to its register as it is, which is a reserved
value, and `SpiCycles` leaves open what the SPI makes of it: any size it has, with
nothing of the request in the cycles behind. `ClocksMatchCount` therefore begins at
four bits, and `BitsInOrder` is about the request's own bits.

### SwdTransfer

One step is one call of `SWD_Transfer` with the code behind it, up to the next call;
`pc` says which call that is. A request is what its bits make of it: `ap` and `dp`
are plain reads, `apMatch` and `dpMatch` reads with value match, `write`, and `mask`,
the write of the match mask that stays in the probe. The response `out` holds
numbers: `StampOf(n)` is the timestamp of request n and `ValueOf(n)` its value.

The target is `rdbuf`, the request whose value it returns next (a read of an access
port returns the value of the one before it; any other access loses it), and
`unconfirmed`, a write it has accepted into its buffer and not yet shown to have
worked. Each access is accepted (`Accepted`), to be repeated (`Retry`) or fails
(`Fail`): "FAULT" stands for every acknowledge that is neither OK nor WAIT, "ERROR"
for a value with wrong parity. After a failing match read the command compares
`data` all the same (`MismatchAfter`). `words` is where the request pointer is, in
data words; it is off only where the code loses count (`WordsAtFailure`).
`DAP_TransferAbort` is set nowhere in the repository, so its tests never succeed.

### SwdBlock

One request made many times. The code has loops of its own for it, with posting,
retries, the last read from RDBUFF and the check of the last write; the target is
that of `SwdTransfer`. `Arriving` and `PostedNext` are the choice between another
access port read and RDBUFF at the end of the block. The refinement says that a host
cannot tell the block from the transfer command with equal requests: the state
functions under "Refinement" give each stage of the one as a stage of the other. They
differ in when a posted read is counted, which `CountInTransfer` makes up for.

### SwdLine

A transaction is a row of cycles, and `Frame` is that row as ARM IHI 0031 defines
it for the target: request, turnaround, acknowledge, and for an OK the word with its
parity in the order the direction calls for. `line` is what the probe does in each
cycle, which `Drive` and `Listen` append one SPI transfer at a time; `word` says for
each bit of `read_data` which cycles were merged into it, so that a wrong shift
shows as a wrong or doubled cycle. `AckRead` compares the cycles which the code's
shift picks with those of the acknowledge. `damaged` is a cycle of the data in which
the line is disturbed; the acknowledge itself is not disturbed. Timing (the
`delay_cnt` loops) and the TODO for a data phase behind WAIT and FAULT are left out.

### EthRx

One step is one round of the loop in `HAL_ETH_ReadData` or `ETH_UpdateDescriptor`,
with steps of the DMA (`Receive`, `Lose`) between any two. `pc` is the phase of the main
loop: "poll" (`HAL_ETH_ReadData`), "build" (`ETH_UpdateDescriptor`, which returns to
`after`), "input" (lwIP processes a frame) and "timers" (the timeouts, then the look at
the link). lwIP frees buffers in the last two only. A descriptor is `own` (whose it
is), `addr` (DESC2, where the DMA writes) and `attached` (`BackupAddr0`, what the
driver thinks is there): the latter two part when the driver hands a buffer over.
`Waiting`, the refinement's queue, is read off the ring: the frames of the filled
descriptors from the reader's position on, each in the place that the number of
filled ones between it and the reader gives it. `Unplug` says when the link may go down: "any" is the
code, in which HAL_ETH_Stop may be called with the ring in any state; with "idle" every
descriptor is empty and built then, which the code does not guarantee.

A frame fits one buffer of 1536 bytes, which holds for every Ethernet frame the MAC
accepts; that a frame spans descriptors (the fields for first and last segment) is
therefore left out.

## 3. Model checking

| Run | Question | Bounds |
|---|---|---|
| `remote_server` | are contexts, slot, buffers, pcbs and timer consistent in every order of callbacks, and is the server a `ReconnectingLink`, liveness included? | 5 pcbs, lwIP's own pool size |
| `tls_client` | what survives every fatal TLS error, what holds until a handshake fails for good, and is it a `ReconnectingLink` without fatal errors, liveness included? | 2 pairs and 5 tcp pcbs, the real pool sizes |
| `tls_error`, `tls_leak` | two statements of the documents that do not hold | the same |
| `dap_stream` | is a connection an in-order RPC service for every fragmentation, and what is left of that when something goes wrong? | header 2, packet 4, window 4, TLS reads of 3, three frames with lengths 0, 1, 2 and 5, wrong headers, and torn ones that are refused or ask for 0 to 2 bytes |
| `dap_hole` | a statement of a document on what is executed, which does not hold behind dropped bytes | the same sizes; well-formed frames of 0 to 2 bytes that look like a header only in their headers |
| `spi_sequence` | clock counts, chunk sizes, bit order | every count up to 72 (clocks from 4 on): all residues modulo 8 with zero to eight bytes |
| `swd_transfer` | is a transfer's response complete, in order and honest, whatever the target answers? | three requests of every kind, one retry, one match retry |
| `swd_block` | does a block count its words right, and is it the transfer of equal requests? | up to five words, two retries |
| `swd_line` | do probe and target stay in step, and is the word put together right? | both directions, every acknowledge, every cycle of the data disturbed, a turnaround of one cycle |
| `eth_rx` | is every buffer accounted for, does reading always resume, and is the driver a `FrameQueue`, liveness included? | ring of 3, 4 buffers, 5 frames, the link down in the quiet only |
| `eth_restart` | a statement of a comment that does not hold when the link goes down at any time | ring of 2, 3 buffers, 8 frames |

Why the bounds are enough. The pcb pools have their real sizes. `dap_stream` scales
the sizes of the code (8, 4096, 4096 and 1024) down with their relations kept: a read
of a TLS record is more than a header and less than a packet; the window is a packet, so that one callback brings two short frames and part of a
third; the "remote" buffer holds three frames and the "lan" buffer one packet with its
header in it; 2 is the longest payload the LAN server takes, and 5 is refused by
both parsers. Three frames are enough for a frame in the buffer, one being split, and
one behind a malformed one; the bound `MaxFrames` limits what one client sends.
`MaxBits` limits the counts. What `DAP_SWD_Transfer` does with a request depends on
what is posted by the one before, and the response shows it with the one behind:
three requests (`MaxRequests`) make all such triples, and one retry of each kind both
outcomes of each counter's test. A block's first, last and middle words are the
cases its loops have; five (`MaxWords`) repeat the middle. `swd_line` is not scaled:
it is one transaction with all its cycles. The ring of three has a first, a
middle and a last position, one buffer more than that lets lwIP hold one without
starving the ring and starve it with two, and five frames (`MaxFrames`) go once
round the ring and on.

`CHECK_DEADLOCK` is off where the model stops because the client has sent all its
frames, the sequence or transaction has been clocked out or the command has
returned, and in those runs only.

### Fairness

The main loop polls forever (`main.c:148-154`, `lwip.c:142-157`), which justifies
weak fairness of initialisation, of an armed timer and of lwIP's expiry of closed
pcbs, and, in `DapStream`, of the delivery of bytes that TCP still holds. That the
relay can be reached again and again is an assumption about the network: strong
fairness of sending a SYN and of completing a handshake (`RelayReachable`), kept
apart from the rest. `SwdTransfer` and `SwdBlock` are functions that run until they
return, hence the weak fairness of their steps. Nothing is assumed of LAN clients,
which may hold or return their pcbs as they like.

`EthRx` has the same weak fairness of the loop, and two assumptions of its
surroundings: that the link comes up again (strong fairness of `LinkUp`), and that
lwIP does not keep every buffer for ever (strong fairness of `StackFrees`): it frees
what it delivers, and its reassembly and out-of-order queues are bounded and time
out. In `DapStream` fairness is of the `Delivery` of bytes and says nothing of which
piece sizes are delivered; nor does it say that bytes held behind the TLS handshake are
delivered while no further segment comes, and nothing makes a client write one.

### What the runs found

* `tls_error`: a fatal record error is reported as a null pbuf with `ERR_CLSD`,
  which `tls_remote_recv` ignores. The client keeps the dead connection and
  schedules nothing, contrary to `TLS_FORWARDING.md:220-221`.
* `tls_leak`: a fatal handshake error, reported to the connected callback when the
  handshake starts (`altcp_tls_mbedtls.c:180-187`) and to the error callback later
  (`235-242`), leaks the pair. After two of them no attempt
  can succeed, contrary to "Automatically reconnects" in `tls_client.c:11`.
* `dap_hole`: the TLS adapter drops decrypted bytes when no pbuf is left
  (`altcp_tls_mbedtls.c:250-263`), and a command is completed from behind the hole and
  executed, where `TLS_FORWARDING.md:176-178` speaks of complete messages. The LAN-only
  server does the same where it cuts what does not fit (`tcpServerRAW.c:152-156`), under
  the comment "We have a complete message" (191); the property is violated in that mode as well.
* `eth_restart`: `HAL_ETH_Start` resets the count of descriptors to build and neither of the
  driver's positions in the ring. When the link goes down while a descriptor waits for
  its buffer, the builder is behind the reader from then on; a descriptor without a
  buffer is read later, and the address it still holds is a buffer that lwIP was given
  before. `ethernetif.c:311-315` promises a newly allocated pbuf with the received
  packet.

Deviations that were met while modelling and have no run of their own. The models
contain them, and where a property would fail it excepts them by name, so that the
property says nothing of them:

* A handshake that fails as it starts can take away a connection that is up and leave
  the reconnect timer disarmed (`tls_client.c:434`; section 2). `LinkWatched` excepts
  all that follows a failed handshake.
* A request that shares a segment with the end of the TLS handshake waits for the next
  segment (`altcp_tls_mbedtls.c:229-244`). `RpcSpec` excepts it (`Heard`).
* A single unread frame at the moment the link goes down is enough to drop it and to part
  the reader's and the DMA's positions, and frames come out of order after the restart;
  this is why `eth_rx` restricts `Unplug` to "idle".
* `SWJ_Sequence` advances both the pointer and the offset (`SW_DP.c:60-115`), so the
  remainder of, say, 12 bits is bits 16 to 19 of the data (`SwjSound` in
  `SpiSequence` lists the counts that are right).
* Sequences of 1 to 3 bits are one transfer of that length (`helper.c:172-177`), which
  the SPI does not have (`helper.c:150-151`). `ClocksMatchCount` and `ChunksSupported`
  begin at four.
* When a posted read cannot be collected in front of a write or a match read, the
  transfer command leaves its loop before it has passed that request's data word
  and counts the word's bytes as requests (`DAP.c:741-749`, `856-862`): the
  request length it returns is wrong (`StoppedBehindRead` in `SwdTransfer`).
* With a turnaround of more than one cycle, which `DAP_SWD_Configure` accepts
  (`DAP.c:494`), `SWD_Transfer_LL` finds the acknowledge in the wrong place
  (`SW_DP.c:278`): `SwdLine` calls it "garbled".
* `tcp_server_accept` of the LAN-only server allocates a connection state before it
  looks at `newpcb`; lwIP calls it with NULL when its pool is empty, and the 4 KiB are
  lost (`tcpServerRAW.c:97-115`).

## 4. Proofs

All invariants of all passing runs are theorems, and so is the safety half of each
refinement: initial states map to initial states and every step to a step or a
stutter. The proofs hold for every value of the constants: any pool, any bit count, any
ring, any buffer and any stream. They use only the modules' named assumptions:
`PcbAssumption` and `TlsAssumption` (NULL is none of the connections, the pool is a
number), `BitsAssumption`, `TransferAssumption` and `BlockAssumption` (the counts are
numbers), `EthAssumption` (at least as many buffers as descriptors), `StreamAssumption`
(how the sizes of the stream are related in the code), and, where a theorem says so,
that the turnaround is one cycle, or that the link goes down only with the ring in a
certain state. This last one is a premise about behaviours, left of the implication in
the theorem, since the code does not guarantee it.

* `RemoteServerProofs`. The safety invariants are not inductive one by one: that a
  close leaves exactly one timer (`PendingIffOneTimer`) needs that a connected link
  has none armed (`LinkNeverStranded`), which needs that the callback comes from
  the context's own connection (`CallbacksOwned`), which needs that the slot
  variable and the context agree (`SlotMatchesContext`). `IInv` is their
  conjunction with the type invariant and with the fact that nothing has happened
  before boot. The main lemmas are that forgetting a session and that a connection
  attempt with nothing armed preserve it; each action is then one of these. From
  `IInv` follow the invariants, the action property `SessionsIndependent`, and
  `LinkSafety`: each step of the server is a step of `ReconnectingLink` or leaves
  its variables unchanged.
* `TlsClientProofs`. Although any leaked connection may call back at any time, every
  error and close path ends in the same forgotten state with one timer armed
  (`ForgottenIInv`), which is why the three fault-tolerant invariants are inductive
  together. `BootClean` covers the time before `tcp_server_init`. Until a handshake fails
  for good, `ForgottenIsDown` adds that a context without a connection is disconnected,
  hence `LinkWatched` (`Watched`), and `Sole` says that the context's connection is the only one: `StepEffect` says what
  each kind of callback does to the connections (nothing, one begun, one
  progressing, one gone), and one connection, one stream and the refinement
  follow from it.
* `DapStreamProofs`. No property of the stream is inductive alone. `IInv` has three
  parts besides the types. `InOrder` and `Proper` hold whatever has gone wrong: what is
  in the buffer lies behind all that was executed and before all that is still to
  come, and the frames executed are well formed and in order (`OnlyWellFormedRuns`).
  `Aligned` holds while nothing has: the buffer is exactly what was delivered behind
  the frames that were served, and those are the first so many
  (`BufferAligned`, `CompleteFramesServed`). `Frozen` takes over once something has:
  the frame whose turn it would be is malformed, or a byte of it is lost, or something
  else was executed in its place, so nothing is executed *in turn* any more, though the
  LAN-only server goes on. This is
  what makes the refinement of `InOrderRpc` (`InOrderService`) hold in all three modes.
  The loop is a recursive function; it exists and unfolds by induction on its argument
  (`LoopUnfolds`, `DrainUnfolds`), and a round either leaves the loop's state alone or
  consumes at least a header, so that the loop reaches a state in which the parser is
  unsatisfied within as many rounds as there are bytes (`DrainReaches`). One round
  preserves each part (`RoundSound`, `RoundAligned`, `RoundFrozen`), hence the loop does
  (`DrainServes`, `DrainStaysFrozen`). `NeverFull` is arithmetic: after the loop
  less than a frame is left, and `StreamAssumption` has room for a window behind it.
* `SpiSequenceProofs`. The invariant relates the three loop counters, the pointer
  and the output: the bits still to send are `count - currentBit`, and the output
  is a prefix of the request for JTAG. `XferSizesSum` is the arithmetic of
  `calculate_xfer_sizes` for every count.
* `SwdTransferProofs`. That an OK response is complete follows only from what holds
  at every stage: `AtStage` (which stages have a read posted), `Contents` (exactly
  the value of the last request is missing then, and it is what the target returns
  next) and `Confirmation` (an unconfirmed write implies `check_write` and nothing
  posted). `CompletedInv` shows that a request which leaves its entries in the
  response leaves the invariant; each completing action is shown to do that.

* `SwdBlockProofs`. The invariant ties the stage, the count and what the target holds:
  in an access port block the next word is posted, and the response is the words up
  to the count. `BlockIsTransfer` shows for each step of the block the step of
  `SwdTransfer` it is; that every state function of the refinement changes as the
  transfer's action says follows from the invariant.
* `EthRxProofs`. `Positions` says that the reader is ahead of the builder by the
  descriptors that wait to be built, and that every descriptor without a buffer is
  one of those; `Ring`, that the DMA owns none without a buffer; `Pace`, how many
  may wait in which phase of the loop. Together they make `BuffersAccounted`
  inductive. `RecoveryPossible` needs a count: the pool is empty and a descriptor has
  no buffer, but there are at least as many buffers as descriptors, so lwIP holds one
  (`SomeBufferElsewhere`). These theorems and `HandedOverOnce` have the premise
  `BuiltWhenDown`: the link goes down only with every descriptor built. Without it
  `Positions` breaks, which `eth_restart` shows.
  `QueueService`, the refinement of `FrameQueue`, is about the order in the ring. The
  filled descriptors that the reader has not passed are a row that begins at the reader
  (`Row`, `RowQueue`: no gap, because the DMA fills in ring order and stops at a
  descriptor it does not own). So a reception appends to the queue (`OneMoreFrame`,
  `ReceiveQueue`), a read takes its head (`OneFrameLess`, `ReadQueue`), the builder only
  ever touches descriptors outside the row (`BuildQueue`), and what the link's restart
  resets is empty when the link goes down in the quiet (`LinkQueue`), its premise
  `QuietWhenDown`.
* `SwdLineProofs`. The frame of the target is laid out cycle by cycle for the three
  kinds of transaction (`RefusedFrame`, `ReadFrame`, `WriteFrame`), and so is what the
  probe does (`Right`). `LineInv` says how many cycles have been clocked before each
  transfer (`Place`) and which bits of the word they have become (`Collected`,
  `WordOf`). `RightBehind`, `Released`, `Driven` and `Merging` extend both by a
  transfer of any size; the last transfer of a read brings seven bits and the parity, which is why
  `Merging` is applied with 33 bits there. `StaysInStep` and `HonestAck` assume
  `Turnaround = 1`, which is not a convenience: with more, the acknowledge is read in
  the wrong cycles (see above) and both properties fail. `WordsRead` needs no
  assumption: with a longer turnaround the transaction stops at what it takes for the
  acknowledge (`Garbled`), so a wrong word is never returned with an OK.

The library's induction theorems take an operator as a parameter, which the provers
cannot instantiate; `DapStreamProofs!Induction` states induction over the naturals
for a *set*, from the well-foundedness of finite subsets, and this is enough for the
recursive functions here.

Only model-checked: everything under fairness, that is `Terminates`, the liveness
halves of `LinkSpec`, `RpcSpec`, `ActsLikeTransfer` and `QueueSpec`, and the refuted
temporal properties, because the prover does not do liveness or `ENABLED`. The refuted
statements have no theorem by their nature; `HandedOverOnce` shows that the one of
`eth_restart` holds without its fault.

## 5. Not modelled, and why

* Of the repository's lines nearly all are vendored: the HAL, CMSIS, lwIP and mbedTLS.
  Of these only what the firmware's own correctness turns on is modelled: the life of a
  tcp pcb and of an altcp pair in lwIP, and the receive ring in the HAL. The rest
  appears as the choices it leaves to the firmware. Half-open pcbs (SYN_RCVD) are not
  told apart from free ones.
* The command layer beyond the two transfer commands: dispatch, packed and queued commands,
  configuration, JTAG transfers (commented out in this branch), and `SWD_Sequence`.
* The adapter's write side below "the response was taken or refused": mbedTLS's
  output buffer, and the record that is torn when a write is refused.
* The LAN-only server's accept and its heap.
* Ethernet transmission, and frames that span several buffers.
* `SWO.c` and `UART.c` are compiled out; `DAP_vendor.c` is the empty template;
  `jtag.c` is not reached from the command layer.
* Start-up code and interrupt handlers keep no protocol state.
* `mbedtls_rng.c` and `xFer` wait on peripherals; there is no bound in the code that
  could be checked.

## 6. Plan

In this order:

1. `TlsWrite`: mbedTLS's output buffer with `WANT_WRITE`, in the handshake (which
   nothing resumes when the send buffer drains) and in close notifications.
2. `DapCommands`: command dispatch, packed commands, `DAP_Data` shared by LAN and relay
   clients, the request and response lengths each handler reports.
3. `LanServer`: accept and the heap of connection states beside lwIP's pcb pool.
4. `SWD_Sequence` on `SwdLine`, and a transfer of `SwdTransfer` composed of its
   transactions.
5. Proofs: that `SwdTransfer` and `SwdBlock` end, as a bound on the number of accesses
   (a quantity each step decreases), which is the safety content of `Terminates`.
