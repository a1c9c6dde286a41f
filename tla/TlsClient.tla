------------------------------- MODULE TlsClient -------------------------------
(***************************************************************************)
(* The TLS-mode DAP server: the remote half of Core/Src/tls_client.c on    *)
(* top of the firmware's own TLS adapter, Core/Src/altcp_tls_mbedtls.c,    *)
(* and the LAN half as far as it competes for TCP control blocks.          *)
(*                                                                         *)
(* A TLS connection is a pair of altcp pcbs (the TLS one and the TCP one   *)
(* under it) and one tcp pcb.  Its callbacks always get the one context,   *)
(* s_remote_ctx, until tls_remote_close removes them; the context, not the *)
(* connection that called back, decides what is closed.                    *)
(*                                                                         *)
(* mbedTLS reports fatal errors of three kinds: "config" (the TLS          *)
(* configuration cannot be created), "handshake" (a bad certificate, a     *)
(* refused cipher suite, no memory) and "record" (a bad MAC, an alert).    *)
(***************************************************************************)
EXTENDS Naturals, FiniteSets

CONSTANTS
  Conn,                  \* pairs of altcp pcbs (MEMP_NUM_ALTCP_PCB / 2)
  TcpPool,               \* MEMP_NUM_TCP_PCB
  Faults,                \* the kinds of fatal errors that can occur
  NULL

ASSUME TlsAssumption == /\ NULL \notin Conn
                        /\ TcpPool \in Nat
                        /\ Faults \subseteq {"config", "handshake", "record"}

\* "failed": mbedtls_ssl_handshake reported a fatal error.  "broken": the
\* handshake was done and mbedtls_ssl_read reported one.  "deaf": the peer's FIN
\* has been consumed (CLOSE_WAIT) and nobody closed.
ConnState == {"free", "syn", "handshake", "open", "failed", "broken", "deaf"}

VARIABLES
  reported,              \* the kinds of fatal errors mbedTLS has reported so far
  boot,                  \* "no", or how tcp_server_init ended: "lan_only", "full"
  \* altcp's and lwIP's side
  st,                    \* state of each connection
  unread,                \* connections with application records not decrypted yet
  lan,                   \* is s_active_client set?
  lingering,             \* tcp pcbs in the states after tcp_close
  timers,                \* armed tls_remote_reconnect_timer entries
  \* tls_client.c's static variables
  ctxPcb,                \* s_remote_ctx.pcb
  rx,                    \* the connections whose bytes s_remote_ctx.rx holds
  connected,             \* s_remote_connected
  pending                \* s_remote_reconnect_pending

lanVars == <<lan, lingering>>
connVars == <<st, unread>>
linkVars == <<connected, pending, timers>>
vars == <<reported, boot, st, unread, lan, lingering, timers, ctxPcb, rx, connected, pending>>

TypeOK ==
  /\ reported \subseteq Faults
  /\ boot \in {"no", "lan_only", "full"}
  /\ st \in [Conn -> ConnState]
  /\ unread \in SUBSET Conn
  /\ lan \in BOOLEAN
  /\ lingering \in 0..TcpPool
  /\ timers \in Nat
  /\ ctxPcb \in Conn \cup {NULL}
  /\ rx \in SUBSET Conn
  /\ connected \in BOOLEAN
  /\ pending \in BOOLEAN

Init ==
  /\ reported = {}
  /\ boot = "no"
  /\ st = [c \in Conn |-> "free"]
  /\ unread = {}
  /\ lan = FALSE
  /\ lingering = 0
  /\ timers = 0
  /\ ctxPcb = NULL
  /\ rx = {}
  /\ connected = FALSE
  /\ pending = FALSE

-------------------------------------------------------------------------------
FreeConns == {c \in Conn : st[c] = "free"}
LiveConns == Conn \ FreeConns

\* tcp_new and the accept of a SYN draw on one pool.
TcpPcbLeft == lingering + Cardinality(LiveConns) + (IF lan THEN 1 ELSE 0) < TcpPool

\* tcp_close: the pcb lingers, or is reset and freed at once when received data
\* is still unacknowledged to the window.
Linger == lingering' \in {lingering, lingering + 1}

LinkTimer == [pending |-> pending, timers |-> timers]

SetLinkTimer(l) ==
  /\ pending' = l.pending
  /\ timers' = l.timers

\* Mutant: the flag is not tested.
ScheduleAlways(l) == [pending |-> TRUE, timers |-> l.timers + 1]

\* tls_remote_schedule_reconnect: arm the timer unless one is pending.
ScheduleReconnect(l) ==
  IF l.pending THEN l ELSE [pending |-> TRUE, timers |-> l.timers + 1]

\* Mutant: the context keeps pointing at the connection.
ForgetRxOnly ==
  /\ ctxPcb' = ctxPcb
  /\ rx' = {}
  /\ connected' = FALSE
  /\ SetLinkTimer(ScheduleReconnect(LinkTimer))

\* Mutant: the flag of the connection stays set.
ForgetStillConnected ==
  /\ ctxPcb' = NULL
  /\ rx' = {}
  /\ UNCHANGED connected
  /\ SetLinkTimer(ScheduleReconnect(LinkTimer))

\* Mutant: no reconnect is scheduled.
ForgetForGood ==
  /\ ctxPcb' = NULL
  /\ rx' = {}
  /\ connected' = FALSE
  /\ UNCHANGED <<pending, timers>>

\* Mutant: half a message of the dead connection stays in the buffer.
ForgetKeepingRx ==
  /\ ctxPcb' = NULL
  /\ UNCHANGED rx
  /\ connected' = FALSE
  /\ SetLinkTimer(ScheduleReconnect(LinkTimer))

\* tls_remote_err, and tls_remote_close after closing: whichever connection
\* called back, the context forgets the connection it points at.
ForgetRemote ==
  /\ ctxPcb' = NULL
  /\ rx' = {}
  /\ connected' = FALSE
  /\ SetLinkTimer(ScheduleReconnect(LinkTimer))

\* Mutant: the connection is forgotten and not closed.
CloseWithoutFree(c, s) ==
  /\ st' = [st EXCEPT ![c] = s]
  /\ UNCHANGED <<unread, lingering>>
  /\ ForgetRemote

\* tls_remote_close(ctx, 1), in a callback of c that leaves c in state s: it is
\* the context's connection that is closed and freed, if there is one.
RemoteClose(c, s) ==
  /\ st' = [d \in Conn |-> IF d = ctxPcb THEN "free" ELSE IF d = c THEN s ELSE st[d]]
  /\ unread' = unread \ {ctxPcb}
  /\ IF ctxPcb # NULL THEN Linger ELSE UNCHANGED lingering
  /\ ForgetRemote

LinkBusy == connected \/ ctxPcb # NULL

\* altcp_tls_new found no altcp pair, no tcp pcb or no memory for the TLS state.
ConnectImpossible(l) ==
  /\ SetLinkTimer(ScheduleReconnect(l))
  /\ UNCHANGED <<connVars, ctxPcb, rx, connected>>

\* altcp_connect has queued the SYN.
ConnectStarted(l) ==
  /\ TcpPcbLeft
  /\ \E c \in FreeConns : /\ st' = [st EXCEPT ![c] = "syn"]
                          /\ ctxPcb' = c
  /\ rx' = {}
  /\ SetLinkTimer(l)
  /\ UNCHANGED <<unread, connected>>

\* altcp_connect failed: altcp_abort frees the pair and calls tls_remote_err,
\* which schedules a first time.
ConnectRefused(l) ==
  /\ TcpPcbLeft
  /\ FreeConns # {}
  /\ rx' = {}
  /\ ctxPcb' = NULL
  /\ connected' = FALSE
  /\ SetLinkTimer(ScheduleReconnect(ScheduleReconnect(l)))
  /\ UNCHANGED connVars

\* tls_remote_try_connect, entered with the timer state l.
TryConnect(l) ==
  IF LinkBusy
  THEN SetLinkTimer(l) /\ UNCHANGED <<connVars, ctxPcb, rx, connected>>
  ELSE ConnectImpossible(l) \/ ConnectStarted(l) \/ ConnectRefused(l)

-------------------------------------------------------------------------------
\* main(): tcp_server_init, once.  Without a TLS configuration only the LAN
\* server runs.
ServerInit ==
  /\ boot = "no"
  /\ \/ boot' = "full" /\ TryConnect(LinkTimer) /\ UNCHANGED reported
     \/ /\ "config" \in Faults
        /\ reported' = reported \cup {"config"}
        /\ boot' = "lan_only"
        /\ UNCHANGED <<connVars, ctxPcb, rx, linkVars>>
  /\ UNCHANGED lanVars

\* tls_remote_reconnect_timer, REMOTE_RECONNECT_MS after it was armed.
ReconnectTimer ==
  /\ timers > 0
  /\ TryConnect([pending |-> FALSE, timers |-> timers - 1])
  /\ UNCHANGED <<reported, boot, lanVars>>

\* Mutant: the application's connected callback is called when TCP is connected.
ConnectedBeforeHandshake(c) ==
  /\ st[c] = "syn"
  /\ st' = [st EXCEPT ![c] = "handshake"]
  /\ ctxPcb' = c
  /\ connected' = TRUE
  /\ pending' = FALSE
  /\ timers' = IF timers > 0 THEN timers - 1 ELSE 0
  /\ UNCHANGED <<reported, boot, unread, lanVars, rx>>

\* altcp_mbedtls_inner_connected: the ClientHello goes out.
HandshakeStart(c) ==
  /\ st[c] = "syn"
  /\ st' = [st EXCEPT ![c] = "handshake"]
  /\ UNCHANGED <<reported, boot, unread, lanVars, ctxPcb, rx, linkVars>>

\* The same with a fatal error: tls_remote_connected_cb gets ERR_CLSD.  The
\* connection is neither closed nor freed.
HandshakeStartFails(c) ==
  /\ "handshake" \in Faults
  /\ reported' = reported \cup {"handshake"}
  /\ st[c] = "syn"
  /\ st' = [st EXCEPT ![c] = "failed"]
  /\ ctxPcb' = NULL
  /\ rx' = {}
  /\ SetLinkTimer(ScheduleReconnect(LinkTimer))
  /\ UNCHANGED <<boot, unread, lanVars, connected>>

\* altcp_mbedtls_inner_recv with the last handshake bytes, then
\* tls_remote_connected_cb with ERR_OK.  The callback returns without reading the
\* application records that came in the same segment.
HandshakeDone(c) ==
  /\ st[c] = "handshake"
  /\ st' = [st EXCEPT ![c] = "open"]
  /\ unread' \in {unread, unread \cup {c}}
  /\ ctxPcb' = c
  /\ connected' = TRUE
  /\ pending' = FALSE
  /\ timers' = IF timers > 0 THEN timers - 1 ELSE 0      \* sys_untimeout
  /\ UNCHANGED <<reported, boot, lanVars, rx>>

\* altcp_mbedtls_inner_recv while the handshake is not done and mbedTLS reports a
\* fatal error, again at every later segment: tls_remote_err is called and ERR_ABRT
\* returned, but nothing is closed or freed.  lwIP skips the rest of the segment
\* after ERR_ABRT, the FIN in it included.
HandshakeFails(c) ==
  /\ "handshake" \in Faults
  /\ reported' = reported \cup {"handshake"}
  /\ st[c] \in {"handshake", "failed"}
  /\ \E s \in {"failed", "deaf"} : st' = [st EXCEPT ![c] = s]
  /\ ForgetRemote
  /\ UNCHANGED <<boot, unread, lanVars>>

\* altcp_mbedtls_inner_recv reads all records and tls_remote_recv processes them;
\* what is left in the buffer is nothing or the start of a message.
AppDataKept(c) ==
  /\ st[c] = "open"
  /\ unread' = unread \ {c}
  /\ \E leftover \in BOOLEAN : rx' = IF leftover THEN rx \cup {c} ELSE {}
  /\ UNCHANGED <<reported, boot, st, lanVars, ctxPcb, linkVars>>

\* tls_remote_recv that ends in tls_remote_close: a full buffer, a bad header, or
\* a response the context's connection could not take.
AppDataClosed(c) ==
  /\ st[c] = "open"
  /\ RemoteClose(c, "open")
  /\ UNCHANGED <<reported, boot, lan>>

\* mbedtls_ssl_read reports a fatal error: tls_remote_recv gets a null pbuf with
\* ERR_CLSD and ignores it; ERR_ABRT is returned as above.
RecordFails(c) ==
  /\ "record" \in Faults
  /\ reported' = reported \cup {"record"}
  /\ st[c] = "open"
  /\ \E s \in {"broken", "deaf"} : st' = [st EXCEPT ![c] = s]
  /\ UNCHANGED <<boot, unread, lanVars, ctxPcb, rx, linkVars>>

\* The peer's FIN: tls_remote_recv gets a null pbuf with ERR_OK.
PeerClosed(c) ==
  /\ st[c] \in {"handshake", "open", "failed", "broken"}
  /\ RemoteClose(c, "deaf")
  /\ UNCHANGED <<reported, boot, lan>>

\* altcp_mbedtls_inner_err: reset, given up by lwIP, or the SYN refused.  The pair
\* is freed and tls_remote_err is called.
ConnErr(c) ==
  /\ st[c] # "free"
  /\ st' = [st EXCEPT ![c] = "free"]
  /\ unread' = unread \ {c}
  /\ ForgetRemote
  /\ UNCHANGED <<reported, boot, lanVars>>

\* lan_server_accept: the first client takes the slot, a second one is closed.
LanAccept ==
  /\ boot # "no"
  /\ TcpPcbLeft
  /\ \/ ~lan /\ lan' = TRUE /\ UNCHANGED lingering
     \/ lan /\ Linger /\ UNCHANGED lan
  /\ UNCHANGED <<reported, boot, connVars, ctxPcb, rx, linkVars>>

\* lan_conn_close and lan_conn_err.
LanLost ==
  /\ lan
  /\ lan' = FALSE
  /\ Linger
  /\ UNCHANGED <<reported, boot, connVars, ctxPcb, rx, linkVars>>

\* lwIP frees a closed tcp pcb.
PcbExpires ==
  /\ lingering > 0
  /\ lingering' = lingering - 1
  /\ UNCHANGED <<reported, boot, connVars, lan, ctxPcb, rx, linkVars>>

Next ==
  \/ ServerInit \/ ReconnectTimer
  \/ LanAccept \/ LanLost \/ PcbExpires
  \/ \E c \in Conn :
       \/ HandshakeStart(c) \/ HandshakeStartFails(c)
       \/ HandshakeDone(c) \/ HandshakeFails(c)
       \/ AppDataKept(c) \/ AppDataClosed(c) \/ RecordFails(c)
       \/ PeerClosed(c) \/ ConnErr(c)

Spec == Init /\ [][Next]_vars

-------------------------------------------------------------------------------
(***************************************************************************)
(* Fairness: the main loop runs forever (main.c:148-154).  That the relay  *)
(* answers again and again is an assumption about the network.             *)
(***************************************************************************)
SynSent(c) == ReconnectTimer /\ st[c] = "free" /\ st'[c] = "syn"

Scheduling ==
  /\ WF_vars(ServerInit)
  /\ WF_vars(ReconnectTimer)
  /\ WF_vars(PcbExpires)

RelayReachable ==
  /\ SF_vars(\E c \in Conn : SynSent(c))
  /\ SF_vars(\E c \in Conn : HandshakeStart(c))
  /\ SF_vars(\E c \in Conn : HandshakeDone(c))

FairSpec == Spec /\ Scheduling /\ RelayReachable

-------------------------------------------------------------------------------
(***************************************************************************)
(* What holds whatever errors mbedTLS reports.                             *)
(***************************************************************************)

\* The flag s_remote_reconnect_pending is set exactly while one reconnect timer
\* is armed, even when callbacks of leaked connections interfere (lines 371-384,
\* 446-447).
PendingIffOneTimer == timers = IF pending THEN 1 ELSE 0

\* s_remote_ctx.pcb never points at a freed pair: tls_send_dap_response and
\* tls_remote_close dereference it in callbacks of any connection.
ContextNotDangling == ctxPcb # NULL => st[ctxPcb] # "free"

\* Responses and the flag: while the link counts as connected and the context has
\* a connection, its handshake is done, so no response is tried on a pair that is
\* still negotiating (lines 362, 443-446).
ConnectedIsHandshaken ==
  connected /\ ctxPcb # NULL => st[ctxPcb] \in {"open", "broken", "deaf"}

-------------------------------------------------------------------------------
(***************************************************************************)
(* What holds until a handshake fails for good, though records may have.   *)
(***************************************************************************)
HandshakesGood == "handshake" \notin reported

\* Giving up is never silent: with a TLS configuration, a link without a
\* connection has a reconnect timer armed.  A handshake that fails as it starts
\* can break it: line 434 clears the context's connection, whichever it is, and leaves
\* s_remote_connected, for which the timer then finds the link busy and is gone.
LinkWatched == HandshakesGood /\ boot = "full" /\ ctxPcb = NULL => pending

\* The context's connection is the only one there is, so the connection that
\* calls back is the one the callback acts on.
OneConnection == HandshakesGood => LiveConns = {ctxPcb} \ {NULL}

\* The buffer holds only bytes of the connection the context serves.
BufferOfOneStream == HandshakesGood => rx \subseteq {ctxPcb}

Link == INSTANCE ReconnectingLink WITH
          Conn <- Conn,
          live <- LiveConns,
          up   <- connected

\* Till then every step is one of the reconnecting link; and if mbedTLS never reports
\* a fatal error, every loss is followed by a new connection, also while LAN clients
\* compete for the tcp pcbs.
LinkSpec ==
  /\ Link!Init
  /\ [][HandshakesGood' => Link!Next \/ UNCHANGED Link!lvars]_vars
  /\ [](reported = {}) => Link!Fairness

-------------------------------------------------------------------------------
(***************************************************************************)
(* What the repository's documents say and the code does not do.           *)
(***************************************************************************)

\* TLS_FORWARDING.md:220: "schedules a reconnect after remote errors": a
\* connection with a fatal record error is not kept as the working link.
RemoteErrorSchedules == \A c \in Conn : st[c] = "broken" /\ ctxPcb = c => pending

\* tls_client.c:11: "Automatically reconnects the TLS link on disconnection":
\* again and again there is a connection, or an attempt.
KeepsReconnecting == []<>(ctxPcb # NULL)
================================================================================
