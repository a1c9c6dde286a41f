----------------------------- MODULE RemoteServer -----------------------------
(***************************************************************************)
(* The WAN-mode DAP server (Core/Src/remoteServer.c): one LAN client slot  *)
(* and one outbound relay connection that is re-established by a timer.    *)
(*                                                                         *)
(* The firmware has one thread; what interleaves are the callbacks lwIP    *)
(* makes from the main loop: segments, resets and give-ups of each pcb, in *)
(* any order between pcbs, and the reconnect timer.  Each callback runs to *)
(* completion and is one action.                                           *)
(*                                                                         *)
(* Data is abstracted: a message buffer is the set of pcbs whose bytes it  *)
(* still holds (DapStream models its contents), and the parse/execute/send *)
(* loop of the receive callback appears by how it can end.                 *)
(***************************************************************************)
EXTENDS Naturals

CONSTANTS
  Pcb,                   \* lwIP's pool of TCP control blocks (MEMP_NUM_TCP_PCB)
  NULL                   \* the null pointer

Role == {"server", "remote"}     \* the two contexts, by their role

ASSUME PcbAssumption == NULL \notin Pcb \cup Role

PcbState == {"free", "syn_sent", "established", "closing"}

VARIABLES
  booted,                \* has tcp_server_init run?
  \* lwIP's side
  st,                    \* state of each pcb; "closing" is every state after tcp_close
  arg,                   \* the context each pcb's callbacks get: a role, or NULL
  relay,                 \* the pcbs whose other end is the relay
  timers,                \* armed tcp_remote_reconnect_timer entries
  \* remoteServer.c's static variables
  ctxPcb,                \* s_server_ctx.pcb and s_remote_ctx.pcb
  rx,                    \* per context: the pcbs whose bytes its msgbuf holds
  active,                \* s_active_client
  connected,             \* s_remote_connected
  pending                \* s_remote_reconnect_pending

lwipVars == <<st, arg, relay>>
linkVars == <<connected, pending, timers>>
vars == <<booted, st, arg, relay, timers, ctxPcb, rx, active, connected, pending>>

TypeOK ==
  /\ booted \in BOOLEAN
  /\ st \in [Pcb -> PcbState]
  /\ arg \in [Pcb -> Role \cup {NULL}]
  /\ relay \in SUBSET Pcb
  /\ timers \in Nat
  /\ ctxPcb \in [Role -> Pcb \cup {NULL}]
  /\ rx \in [Role -> SUBSET Pcb]
  /\ active \in Pcb \cup {NULL}
  /\ connected \in BOOLEAN
  /\ pending \in BOOLEAN

Init ==
  /\ booted = FALSE
  /\ st = [p \in Pcb |-> "free"]
  /\ arg = [p \in Pcb |-> NULL]
  /\ relay = {}
  /\ timers = 0
  /\ ctxPcb = [r \in Role |-> NULL]
  /\ rx = [r \in Role |-> {}]
  /\ active = NULL
  /\ connected = FALSE
  /\ pending = FALSE

-------------------------------------------------------------------------------
(***************************************************************************)
(* Helpers shared by the callbacks.                                        *)
(***************************************************************************)

FreePcbs == {p \in Pcb : st[p] = "free"}

\* lwIP gives up a pcb: it goes to a closing state, or straight back to the pool.
Release(p, s) ==
  /\ st' = [st EXCEPT ![p] = s]
  /\ arg' = [arg EXCEPT ![p] = NULL]
  /\ relay' = IF s = "free" THEN relay \ {p} ELSE relay

\* The reconnect flag and lwIP's timeout list, as a value the helpers below map.
LinkTimer == [pending |-> pending, timers |-> timers]

SetLinkTimer(l) ==
  /\ pending' = l.pending
  /\ timers' = l.timers

\* Mutant: the flag is not tested.
ScheduleAlways(l) == [pending |-> TRUE, timers |-> l.timers + 1]

\* tcp_remote_schedule_reconnect: arm the timer unless one is pending.
ScheduleReconnect(l) ==
  IF l.pending THEN l ELSE [pending |-> TRUE, timers |-> l.timers + 1]

\* Mutant: an error of the remote connection is not followed by a schedule call.
DropWithoutSchedule(r) ==
  /\ ctxPcb' = [ctxPcb EXCEPT ![r] = NULL]
  /\ rx' = [rx EXCEPT ![r] = {}]
  /\ active' = IF r = "server" THEN NULL ELSE active
  /\ connected' = IF r = "remote" THEN FALSE ELSE connected
  /\ UNCHANGED <<pending, timers>>

\* Mutant: the message buffer is not emptied.
DropKeepingBuffer(r) ==
  /\ ctxPcb' = [ctxPcb EXCEPT ![r] = NULL]
  /\ rx' = rx
  /\ active' = IF r = "server" THEN NULL ELSE active
  /\ connected' = IF r = "remote" THEN FALSE ELSE connected
  /\ SetLinkTimer(IF r = "remote" THEN ScheduleReconnect(LinkTimer) ELSE LinkTimer)

\* Mutant: the LAN slot is not given back.
DropKeepingSlot(r) ==
  /\ ctxPcb' = [ctxPcb EXCEPT ![r] = NULL]
  /\ rx' = [rx EXCEPT ![r] = {}]
  /\ active' = active
  /\ connected' = IF r = "remote" THEN FALSE ELSE connected
  /\ SetLinkTimer(IF r = "remote" THEN ScheduleReconnect(LinkTimer) ELSE LinkTimer)

\* Mutant: the role is not tested before the link is declared down.
DropAnyRole(r) ==
  /\ ctxPcb' = [ctxPcb EXCEPT ![r] = NULL]
  /\ rx' = [rx EXCEPT ![r] = {}]
  /\ active' = IF r = "server" THEN NULL ELSE active
  /\ connected' = FALSE
  /\ SetLinkTimer(ScheduleReconnect(LinkTimer))

\* What tcp_conn_err does, and tcp_conn_close after closing: the session of a
\* context is forgotten, and the loss of the relay link schedules a reconnect.
DropSession(r) ==
  /\ ctxPcb' = [ctxPcb EXCEPT ![r] = NULL]
  /\ rx' = [rx EXCEPT ![r] = {}]
  /\ active' = IF r = "server" THEN NULL ELSE active
  /\ connected' = IF r = "remote" THEN FALSE ELSE connected
  /\ SetLinkTimer(IF r = "remote" THEN ScheduleReconnect(LinkTimer) ELSE LinkTimer)

\* Mutant: the callbacks stay on the pcb that is being closed.
CloseWithoutDetach(r, p) ==
  /\ st' = [st EXCEPT ![p] = "closing"]
  /\ UNCHANGED <<arg, relay>>
  /\ DropSession(r)

\* Mutant: the callbacks are removed and the pcb is not closed.
DetachWithoutClose(r, p) ==
  /\ arg' = [arg EXCEPT ![p] = NULL]
  /\ UNCHANGED <<st, relay>>
  /\ DropSession(r)

\* tcp_conn_close(ctx, tpcb, 1): callbacks removed, tcp_close, session forgotten.
\* tcp_close of an established pcb returns ERR_OK in lwIP 2.1.2, so the
\* tcp_abort behind it is not reached; it resets and frees the pcb at once when
\* received data is still unacknowledged to the window.
ConnClose(r, p) ==
  /\ \E s \in {"closing", "free"} : Release(p, s)
  /\ DropSession(r)

\* tcp_setup_conn(p, role): empty buffer, context and callbacks bound to p.
SetupConn(r, p) ==
  /\ rx' = [rx EXCEPT ![r] = {}]
  /\ ctxPcb' = [ctxPcb EXCEPT ![r] = p]
  /\ arg' = [arg EXCEPT ![p] = r]

LinkBusy == connected \/ ctxPcb["remote"] # NULL

\* tcp_connect is on its way: the pcb is set up and its SYN queued.
ConnectStarted(l) ==
  /\ \E p \in FreePcbs :
       /\ SetupConn("remote", p)
       /\ st' = [st EXCEPT ![p] = "syn_sent"]
       /\ relay' = relay \cup {p}
  /\ SetLinkTimer(l)
  /\ UNCHANGED <<active, connected>>

\* tcp_connect failed (no route while the Ethernet link is down): tcp_abort
\* frees the pcb and calls tcp_conn_err, which schedules a first time.
ConnectRefused(l) ==
  /\ FreePcbs # {}
  /\ rx' = [rx EXCEPT !["remote"] = {}]
  /\ ctxPcb' = [ctxPcb EXCEPT !["remote"] = NULL]
  /\ connected' = FALSE
  /\ SetLinkTimer(ScheduleReconnect(ScheduleReconnect(l)))
  /\ UNCHANGED <<lwipVars, active>>

\* tcp_new found the pool empty.
ConnectImpossible(l) ==
  /\ FreePcbs = {}
  /\ SetLinkTimer(ScheduleReconnect(l))
  /\ UNCHANGED <<lwipVars, ctxPcb, rx, active, connected>>

\* Mutant: an attempt that finds no pcb is not rescheduled.
TryConnectOnce(l) ==
  \/ ConnectStarted(l)
  \/ ConnectRefused(l)
  \/ /\ FreePcbs = {}
     /\ SetLinkTimer(l)
     /\ UNCHANGED <<lwipVars, ctxPcb, rx, active, connected>>

\* tcp_remote_try_connect, entered with the timer state l.
TryConnect(l) ==
  IF LinkBusy
  THEN SetLinkTimer(l) /\ UNCHANGED <<lwipVars, ctxPcb, rx, active, connected>>
  ELSE ConnectStarted(l) \/ ConnectRefused(l) \/ ConnectImpossible(l)

-------------------------------------------------------------------------------
(***************************************************************************)
(* The callbacks.                                                          *)
(***************************************************************************)

\* main(): called once, after lwIP is up and with an empty pool.
ServerInit ==
  /\ ~booted
  /\ booted' = TRUE
  /\ TryConnect(LinkTimer)

\* tcp_server_accept: a LAN peer completed the three-way handshake.  A second
\* client is closed at once; the active one keeps the slot.
Accept(p) ==
  /\ booted
  /\ st[p] = "free"
  /\ \/ /\ active # NULL
        /\ \E s \in {"closing", "free"} : Release(p, s)
        /\ UNCHANGED <<ctxPcb, rx, active>>
     \/ /\ active = NULL
        /\ active' = p
        /\ SetupConn("server", p)
        /\ st' = [st EXCEPT ![p] = "established"]
        /\ UNCHANGED relay
  /\ UNCHANGED <<booted, linkVars>>

\* tcp_server_accept with newpcb = NULL: lwIP reports that no pcb was left for
\* a SYN.  The callback ignores err and sets up the null pcb.
AcceptNoPcb ==
  /\ booted
  /\ FreePcbs = {}
  /\ active = NULL
  /\ rx' = [rx EXCEPT !["server"] = {}]
  /\ ctxPcb' = [ctxPcb EXCEPT !["server"] = NULL]
  /\ UNCHANGED <<booted, lwipVars, active, linkVars>>

\* tcp_conn_recv with data, when the loop ends with parse_ret = 0: what is left
\* is nothing, or the start of a message.
RecvKept(p, r) ==
  /\ st[p] = "established"
  /\ arg[p] = r
  /\ \E leftover \in BOOLEAN :
       rx' = [rx EXCEPT ![r] = IF leftover THEN @ \cup {p} ELSE {}]
  /\ UNCHANGED <<booted, lwipVars, ctxPcb, active, linkVars>>

\* tcp_conn_recv that ends in tcp_conn_close: the peer's FIN (p == NULL), a full
\* buffer, a bad header, or a response that could not be sent.
RecvClosed(p, r) ==
  /\ st[p] = "established"
  /\ arg[p] = r
  /\ ConnClose(r, p)
  /\ UNCHANGED booted

\* tcp_conn_err: reset by the peer, retransmissions exhausted, or a SYN
\* refused.  lwIP has freed the pcb.
ConnErr(p, r) ==
  /\ st[p] \in {"syn_sent", "established"}
  /\ arg[p] = r
  /\ Release(p, "free")
  /\ DropSession(r)
  /\ UNCHANGED booted

\* tcp_remote_connected_cb with ERR_OK (lwIP 2.1.2 calls it with nothing else).
ConnectedCb(p) ==
  /\ st[p] = "syn_sent"
  /\ arg[p] = "remote"
  /\ st' = [st EXCEPT ![p] = "established"]
  /\ ctxPcb' = [ctxPcb EXCEPT !["remote"] = p]
  /\ connected' = TRUE
  /\ pending' = FALSE
  /\ timers' = IF timers > 0 THEN timers - 1 ELSE 0      \* sys_untimeout
  /\ UNCHANGED <<booted, arg, relay, rx, active>>

\* tcp_remote_reconnect_timer: fires REMOTE_RECONNECT_MS after it was armed.
ReconnectTimer ==
  /\ timers > 0
  /\ TryConnect([pending |-> FALSE, timers |-> timers - 1])
  /\ UNCHANGED booted

\* lwIP frees a pcb at the end of its closing states; no callback is left on it.
PcbExpires(p) ==
  /\ st[p] = "closing"
  /\ Release(p, "free")
  /\ UNCHANGED <<booted, ctxPcb, rx, active, linkVars>>

Next ==
  \/ ServerInit
  \/ ReconnectTimer
  \/ AcceptNoPcb
  \/ \E p \in Pcb :
       \/ Accept(p)
       \/ ConnectedCb(p)
       \/ PcbExpires(p)
       \/ \E r \in Role : RecvKept(p, r) \/ RecvClosed(p, r) \/ ConnErr(p, r)

Spec == Init /\ [][Next]_vars

-------------------------------------------------------------------------------
(***************************************************************************)
(* Fairness.  The main loop polls the network and checks the timers        *)
(* forever (main.c:148-154), so an armed timer fires, lwIP expires closing *)
(* pcbs, and the handshake of a SYN either completes or is given up.  That *)
(* the relay can be reached again and again is an assumption about the     *)
(* network, not about the code; it is stated apart.                        *)
(***************************************************************************)
SynSent(p) == ReconnectTimer /\ st[p] = "free" /\ st'[p] = "syn_sent"

Scheduling ==
  /\ WF_vars(ServerInit)
  /\ WF_vars(ReconnectTimer)
  /\ \A p \in Pcb : WF_vars(PcbExpires(p))

RelayReachable ==
  /\ SF_vars(\E p \in Pcb : SynSent(p))
  /\ SF_vars(\E p \in Pcb : ConnectedCb(p))

FairSpec == Spec /\ Scheduling /\ RelayReachable

-------------------------------------------------------------------------------
(***************************************************************************)
(* Safety.                                                                 *)
(***************************************************************************)

\* The flag s_remote_reconnect_pending tells the truth: it is set exactly while
\* one reconnect timer is armed, and never are two armed, whatever order errors,
\* closes, failed attempts and late handshakes come in (lines 353-366, 398-416).
PendingIffOneTimer == timers = IF pending THEN 1 ELSE 0

\* No callback reaches a context it no longer belongs to: a pcb that calls back
\* into a context is live and is the one the context points at, and a context
\* points at nothing else.  Violating it takes a close that forgets to detach,
\* or an attempt started while another is alive (lines 183-196, 320-350).
CallbacksOwned ==
  \A r \in Role :
    /\ ctxPcb[r] # NULL => arg[ctxPcb[r]] = r
    /\ \A p \in Pcb : arg[p] = r => /\ ctxPcb[r] = p
                                    /\ st[p] \in {"syn_sent", "established"}
                                    /\ (r = "remote" <=> p \in relay)

\* No pcb is leaked: whatever is neither free nor on its way out of lwIP is held
\* by a context that will hear of its end.
NoPcbLeaked ==
  \A p \in Pcb : st[p] \in {"syn_sent", "established"} => arg[p] # NULL

\* The LAN slot is taken exactly while the server context has a connection
\* (lines 227-240 test one variable, the callbacks maintain the other).
SlotMatchesContext == active = ctxPcb["server"]

\* The link is never stranded: once booted, without a relay connection and
\* without an attempt in progress a reconnect timer is armed; and with either of
\* them none is, so a timer never disturbs a working link.
LinkNeverStranded ==
  /\ booted => (pending <=> ctxPcb["remote"] = NULL)
  /\ connected <=> /\ ctxPcb["remote"] # NULL
                   /\ st[ctxPcb["remote"]] = "established"

\* A message buffer never mixes streams: it holds only bytes of the connection
\* its context serves now, so half a message of an old connection cannot become
\* the head of a message of the next one.
BufferOfOneStream ==
  \A r \in Role : rx[r] \subseteq {ctxPcb[r]}

\* A step that begins or ends a LAN session leaves the relay link alone, and the
\* other way round, although both go through the same tcp_conn_* functions.
SessionsIndependent ==
  [][\/ UNCHANGED <<ctxPcb["server"], active>>
     \/ UNCHANGED <<ctxPcb["remote"], connected, pending, timers>>]_vars

-------------------------------------------------------------------------------
(***************************************************************************)
(* Refinement: the relay link is a ReconnectingLink.                       *)
(***************************************************************************)
LivePcbs == {p \in relay : st[p] \in {"syn_sent", "established"}}

Link == INSTANCE ReconnectingLink WITH
          Conn <- Pcb,
          live <- LivePcbs,
          up   <- connected

\* The WAN client implements the link's promise, recovery included: under the
\* fairness above every loss of the link is followed by a new connection.
LinkSpec == Link!Spec
=============================================================================
