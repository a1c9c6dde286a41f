----------------------------- MODULE TlsClientProofs -----------------------------
(***************************************************************************)
(* What the TLS client keeps to whatever mbedTLS reports, for any number   *)
(* of connections, tcp pcbs and kinds of faults: although every callback   *)
(* acts on the one context, the context never points at a freed pair and   *)
(* is never half connected; and until a handshake fails for good, it is    *)
(* never left without a connection and without a timer.                    *)
(***************************************************************************)
EXTENDS TlsClient, TLAPS

\* The types of the link's own variables; how many tcp pcbs linger plays no part.
LinkTypes ==
  /\ st \in [Conn -> ConnState]
  /\ ctxPcb \in Conn \cup {NULL}
  /\ connected \in BOOLEAN
  /\ pending \in BOOLEAN
  /\ timers \in Nat

\* Nothing happens to the link before tcp_server_init: no connection exists, so
\* none calls back, and no timer is armed.
BootClean == boot = "no" => ~pending /\ \A c \in Conn : st[c] = "free"

\* A context that does not count as connected has a connection or a timer.
WatchedUnlessUp == boot = "full" /\ ctxPcb = NULL /\ ~connected => pending

\* The inductive invariant.
IInv ==
  /\ LinkTypes
  /\ PendingIffOneTimer
  /\ ContextNotDangling
  /\ ConnectedIsHandshaken
  /\ WatchedUnlessUp
  /\ BootClean

-------------------------------------------------------------------------------
USE TlsAssumption DEF ConnState

\* The invariant holds before tcp_server_init.
LEMMA InitIInv == Init => IInv
<1> SUFFICES ASSUME Init PROVE IInv
  OBVIOUS
<1>1. LinkTypes /\ BootClean
  BY DEF Init, LinkTypes, BootClean
<1>2. PendingIffOneTimer
  BY DEF Init, PendingIffOneTimer
<1>3. ContextNotDangling /\ ConnectedIsHandshaken /\ WatchedUnlessUp
  BY DEF Init, ContextNotDangling, ConnectedIsHandshaken, WatchedUnlessUp
<1> QED
  BY <1>1, <1>2, <1>3 DEF IInv

\* tls_remote_schedule_reconnect leaves exactly one timer armed.
LEMMA ArmOnce ==
  ASSUME IInv, SetLinkTimer(ScheduleReconnect(LinkTimer))
  PROVE  pending' = TRUE /\ timers' = 1
<1>1. pending \in BOOLEAN /\ PendingIffOneTimer
  BY DEF IInv, LinkTypes
<1> QED
  BY <1>1 DEF PendingIffOneTimer, SetLinkTimer, ScheduleReconnect, LinkTimer

\* A context without connection, disconnected and with one timer armed satisfies
\* every part of the invariant: what tls_remote_err and tls_remote_close leave.
LEMMA ForgottenIInv ==
  ASSUME st' \in [Conn -> ConnState], ctxPcb' = NULL, connected' \in BOOLEAN,
         pending' = TRUE, timers' = 1, boot' # "no"
  PROVE  IInv'
  BY DEF IInv, LinkTypes, PendingIffOneTimer, ContextNotDangling,
         ConnectedIsHandshaken, WatchedUnlessUp, BootClean

\* tls_remote_err, and the end of tls_remote_close, whichever connection it is.
LEMMA ForgetIInv ==
  ASSUME IInv, ForgetRemote, st' \in [Conn -> ConnState], boot' # "no"
  PROVE  IInv'
<1>1. pending' = TRUE /\ timers' = 1
  BY ArmOnce DEF ForgetRemote
<1>2. ctxPcb' = NULL /\ connected' = FALSE
  BY DEF ForgetRemote
<1> QED
  BY <1>1, <1>2, ForgottenIInv

\* The timer state from which an attempt starts: nothing armed.
Idle == [pending |-> FALSE, timers |-> 0]

\* What scheduling does to it, also twice in a row.
LEMMA IdleLinkTimer ==
  /\ SetLinkTimer(Idle) => pending' = FALSE /\ timers' = 0
  /\ SetLinkTimer(ScheduleReconnect(Idle)) => pending' = TRUE /\ timers' = 1
  /\ SetLinkTimer(ScheduleReconnect(ScheduleReconnect(Idle)))
       => pending' = TRUE /\ timers' = 1
<1> DEFINE Armed == [pending |-> TRUE, timers |-> 1]
<1>1. SetLinkTimer(Idle) => pending' = FALSE /\ timers' = 0
  BY Zenon DEF SetLinkTimer, Idle
<1>2. ScheduleReconnect(Idle) = Armed
  BY DEF ScheduleReconnect, Idle
<1>3. ScheduleReconnect(Armed) = Armed
  BY DEF ScheduleReconnect
<1>4. SetLinkTimer(Armed) => pending' = TRUE /\ timers' = 1
  BY Zenon DEF SetLinkTimer
<1> QED
  BY <1>1, <1>2, <1>3, <1>4

\* A call of tls_remote_try_connect with nothing armed.
LEMMA TryConnectIInv ==
  ASSUME IInv, TryConnect(Idle), boot' # "no"
  PROVE  IInv'
<1>1. CASE LinkBusy
  <2>1. /\ pending' = FALSE /\ timers' = 0
        /\ st' = st /\ ctxPcb' = ctxPcb /\ connected' = connected
    BY <1>1, IdleLinkTimer DEF TryConnect, connVars
  <2> QED
    BY <1>1, <2>1 DEF LinkBusy, IInv, LinkTypes, PendingIffOneTimer,
       ContextNotDangling, ConnectedIsHandshaken, WatchedUnlessUp, BootClean
<1>2. CASE ~LinkBusy /\ ConnectImpossible(Idle)
  <2>1. /\ pending' = TRUE /\ timers' = 1
        /\ st' = st /\ ctxPcb' = NULL /\ connected' \in BOOLEAN
    BY <1>2, IdleLinkTimer DEF ConnectImpossible, connVars, LinkBusy, IInv, LinkTypes
  <2> QED
    BY <2>1, ForgottenIInv DEF IInv, LinkTypes
<1>3. CASE ~LinkBusy /\ ConnectRefused(Idle)
  <2>1. /\ pending' = TRUE /\ timers' = 1
        /\ st' = st /\ ctxPcb' = NULL /\ connected' \in BOOLEAN
    BY <1>3, IdleLinkTimer DEF ConnectRefused, connVars
  <2> QED
    BY <2>1, ForgottenIInv DEF IInv, LinkTypes
<1>4. CASE ~LinkBusy /\ ConnectStarted(Idle)
  <2>1. pending' = FALSE /\ timers' = 0
    BY <1>4, IdleLinkTimer DEF ConnectStarted
  <2>2. PICK c \in Conn : st' = [st EXCEPT ![c] = "syn"] /\ ctxPcb' = c
    BY <1>4 DEF ConnectStarted, FreeConns
  <2>3. ~connected /\ connected' = connected
    BY <1>4 DEF LinkBusy, ConnectStarted
  <2> QED
    BY <2>1, <2>2, <2>3 DEF IInv, LinkTypes, PendingIffOneTimer,
       ContextNotDangling, ConnectedIsHandshaken, WatchedUnlessUp, BootClean
<1> QED
  BY <1>1, <1>2, <1>3, <1>4 DEF TryConnect

\* Every callback preserves the invariant.
LEMMA NextIInv == IInv /\ [Next]_vars => IInv'
<1> SUFFICES ASSUME IInv, [Next]_vars PROVE IInv'
  OBVIOUS
<1>0. LinkTypes
  BY DEF IInv
<1>01. ASSUME NEW c \in Conn, st[c] # "free" PROVE boot # "no"
  BY <1>01 DEF IInv, BootClean
<1>1. CASE ServerInit
  <2>1. timers = 0 /\ pending = FALSE
    BY <1>0, <1>1 DEF ServerInit, IInv, BootClean, PendingIffOneTimer, LinkTypes
  <2>2. LinkTimer = Idle
    BY <2>1 DEF LinkTimer, Idle
  <2>3. CASE boot' = "full" /\ TryConnect(LinkTimer)
    BY <2>2, <2>3, TryConnectIInv
  <2>4. CASE boot' = "lan_only" /\ UNCHANGED <<connVars, ctxPcb, rx, linkVars>>
    BY <2>4 DEF connVars, linkVars, IInv, LinkTypes, PendingIffOneTimer,
       ContextNotDangling, ConnectedIsHandshaken, WatchedUnlessUp, BootClean
  <2> QED
    BY <1>1, <2>3, <2>4 DEF ServerInit
<1>2. CASE ReconnectTimer
  <2>1. timers - 1 = 0
    BY <1>2, <1>0 DEF ReconnectTimer, IInv, PendingIffOneTimer, LinkTypes
  <2>2. [pending |-> FALSE, timers |-> timers - 1] = Idle
    BY <2>1 DEF Idle
  <2>3. boot' # "no"
    BY <1>2, <1>0 DEF ReconnectTimer, IInv, PendingIffOneTimer, BootClean, LinkTypes
  <2> QED
    BY <1>2, <2>2, <2>3, TryConnectIInv DEF ReconnectTimer
<1>3. ASSUME NEW c \in Conn, HandshakeStart(c) PROVE IInv'
  BY <1>3 DEF HandshakeStart, linkVars, IInv, LinkTypes, PendingIffOneTimer,
     ContextNotDangling, ConnectedIsHandshaken, WatchedUnlessUp, BootClean
<1>4. ASSUME NEW c \in Conn, HandshakeStartFails(c) PROVE IInv'
  <2>1. st' \in [Conn -> ConnState] /\ ctxPcb' = NULL /\ connected' \in BOOLEAN
    BY <1>0, <1>4 DEF HandshakeStartFails, LinkTypes
  <2>2. pending' = TRUE /\ timers' = 1 /\ boot' # "no"
    BY <1>01, <1>4, ArmOnce DEF HandshakeStartFails
  <2> QED
    BY <2>1, <2>2, ForgottenIInv
<1>5. ASSUME NEW c \in Conn, HandshakeDone(c) PROVE IInv'
  <2>1. /\ st' = [st EXCEPT ![c] = "open"] /\ ctxPcb' = c
        /\ connected' = TRUE /\ pending' = FALSE /\ boot' = boot /\ boot # "no"
    BY <1>01, <1>5 DEF HandshakeDone
  <2>2. timers' = 0
    BY <1>0, <1>5 DEF HandshakeDone, IInv, LinkTypes, PendingIffOneTimer
  <2> QED
    BY <1>0, <2>1, <2>2 DEF IInv, LinkTypes, PendingIffOneTimer,
       ContextNotDangling, ConnectedIsHandshaken, WatchedUnlessUp, BootClean
<1>6. ASSUME NEW c \in Conn, HandshakeFails(c) PROVE IInv'
  BY <1>0, <1>01, <1>6, ForgetIInv DEF HandshakeFails, LinkTypes
<1>7. ASSUME NEW c \in Conn, AppDataKept(c) PROVE IInv'
  BY <1>7 DEF AppDataKept, linkVars, connVars, IInv, LinkTypes, PendingIffOneTimer,
     ContextNotDangling, ConnectedIsHandshaken, WatchedUnlessUp, BootClean
<1>8. ASSUME NEW c \in Conn, AppDataClosed(c) \/ PeerClosed(c) PROVE IInv'
  BY <1>0, <1>01, <1>8, ForgetIInv DEF AppDataClosed, PeerClosed, RemoteClose, LinkTypes
<1>9. ASSUME NEW c \in Conn, RecordFails(c) PROVE IInv'
  <2>1. PICK s \in {"broken", "deaf"} : st' = [st EXCEPT ![c] = s]
    BY <1>9 DEF RecordFails
  <2>2. /\ boot' = boot /\ ctxPcb' = ctxPcb /\ connected' = connected
        /\ pending' = pending /\ timers' = timers
    BY <1>9 DEF RecordFails, linkVars
  <2>3. st[c] = "open" /\ boot # "no"
    BY <1>01, <1>9 DEF RecordFails
  <2>4. LinkTypes' /\ PendingIffOneTimer' /\ WatchedUnlessUp' /\ BootClean'
    BY <1>0, <2>1, <2>2, <2>3 DEF IInv, LinkTypes, PendingIffOneTimer, WatchedUnlessUp, BootClean
  <2>5. ContextNotDangling'
    BY <1>0, <2>1, <2>2, <2>3 DEF IInv, LinkTypes, ContextNotDangling
  <2>6. ConnectedIsHandshaken'
    BY <1>0, <2>1, <2>2, <2>3 DEF IInv, LinkTypes, ConnectedIsHandshaken
  <2> QED
    BY <2>4, <2>5, <2>6 DEF IInv
<1>10. ASSUME NEW c \in Conn, ConnErr(c) PROVE IInv'
  BY <1>0, <1>01, <1>10, ForgetIInv DEF ConnErr, LinkTypes
<1>11. CASE LanAccept \/ LanLost \/ PcbExpires \/ UNCHANGED vars
  <2>1. /\ boot' = boot /\ st' = st /\ ctxPcb' = ctxPcb /\ connected' = connected
        /\ pending' = pending /\ timers' = timers
    BY <1>11 DEF LanAccept, LanLost, PcbExpires, vars, connVars, linkVars
  <2> QED
    BY <2>1 DEF IInv, LinkTypes, PendingIffOneTimer,
       ContextNotDangling, ConnectedIsHandshaken, WatchedUnlessUp, BootClean
<1> QED
  BY <1>1, <1>2, <1>3, <1>4, <1>5, <1>6, <1>7, <1>8, <1>9, <1>10, <1>11 DEF Next

-------------------------------------------------------------------------------
\* The inductive invariant holds in every reachable state, for every pool size
\* and whichever fatal errors mbedTLS reports.
THEOREM Invariance == Spec => []IInv
  BY InitIInv, NextIInv, PTL DEF Spec

\* s_remote_reconnect_pending and the armed reconnect timer agree, whichever
\* callbacks of leaked connections interfere.
THEOREM OneTimer == Spec => []PendingIffOneTimer
<1>1. IInv => PendingIffOneTimer
  BY DEF IInv
<1> QED
  BY <1>1, Invariance, PTL

\* s_remote_ctx.pcb never points at a pair that altcp has freed.
THEOREM NotDangling == Spec => []ContextNotDangling
<1>1. IInv => ContextNotDangling
  BY DEF IInv
<1> QED
  BY <1>1, Invariance, PTL

\* Responses are never tried on a pair that is still negotiating.
THEOREM Handshaken == Spec => []ConnectedIsHandshaken
<1>1. IInv => ConnectedIsHandshaken
  BY DEF IInv
<1> QED
  BY <1>1, Invariance, PTL

\* An error that has been reported stays reported, and one of a handshake is.
LEMMA OnceReported ==
  ASSUME [Next]_vars, HandshakesGood'
  PROVE  /\ HandshakesGood
         /\ \A c \in Conn : ~HandshakeStartFails(c) /\ ~HandshakeFails(c)
<1> USE DEF HandshakesGood
<1>1. ASSUME NEW c \in Conn PROVE ~HandshakeStartFails(c) /\ ~HandshakeFails(c)
  BY DEF HandshakeStartFails, HandshakeFails
<1>2. CASE ServerInit
  BY <1>1, <1>2 DEF ServerInit
<1>3. CASE ReconnectTimer \/ LanAccept \/ LanLost \/ PcbExpires \/ UNCHANGED vars
  BY <1>1, <1>3 DEF ReconnectTimer, LanAccept, LanLost, PcbExpires, vars
<1>4. ASSUME NEW c \in Conn,
             \/ HandshakeStart(c) \/ HandshakeDone(c) \/ AppDataKept(c) \/ AppDataClosed(c)
             \/ RecordFails(c) \/ PeerClosed(c) \/ ConnErr(c)
      PROVE  HandshakesGood
  BY <1>4 DEF HandshakeStart, HandshakeDone, AppDataKept, AppDataClosed, RecordFails,
              PeerClosed, ConnErr
<1> QED
  BY <1>1, <1>2, <1>3, <1>4 DEF Next

\* Until a handshake fails for good, the context forgets the flag with the connection.
ForgottenIsDown == HandshakesGood /\ ctxPcb = NULL => ~connected

\* Everything that clears the context's connection clears the flag, but for the
\* callback of a handshake that fails as it starts.
LEMMA ForgottenStaysDown ==
  ASSUME LinkTypes, ForgottenIsDown, [Next]_vars
  PROVE  ForgottenIsDown'
<1> SUFFICES ASSUME HandshakesGood' PROVE ctxPcb' = NULL => ~connected'
  BY DEF ForgottenIsDown
<1>0. /\ ctxPcb = NULL => ~connected
      /\ \A c \in Conn : ~HandshakeStartFails(c) /\ ~HandshakeFails(c)
  BY OnceReported DEF ForgottenIsDown
<1>1. ASSUME NEW l, TryConnect(l) PROVE ctxPcb' = NULL => ~connected'
  BY <1>0, <1>1 DEF TryConnect, LinkBusy, ConnectImpossible, ConnectRefused, ConnectStarted,
              FreeConns
<1>2. ForgetRemote => (ctxPcb' = NULL => ~connected')
  BY DEF ForgetRemote
<1>3. CASE ServerInit
  BY <1>0, <1>1, <1>3 DEF ServerInit, linkVars
<1>4. CASE ReconnectTimer
  BY <1>1, <1>4 DEF ReconnectTimer
<1>5. ASSUME NEW c \in Conn, HandshakeDone(c) PROVE ctxPcb' = NULL => ~connected'
  BY <1>5 DEF HandshakeDone
<1>6. ASSUME NEW c \in Conn, AppDataClosed(c) \/ PeerClosed(c) \/ ConnErr(c)
      PROVE  ctxPcb' = NULL => ~connected'
  BY <1>2, <1>6 DEF AppDataClosed, PeerClosed, ConnErr, RemoteClose
<1>7. ASSUME NEW c \in Conn, HandshakeStart(c) \/ AppDataKept(c) \/ RecordFails(c)
      PROVE  ctxPcb' = NULL => ~connected'
  BY <1>0, <1>7 DEF HandshakeStart, AppDataKept, RecordFails, linkVars
<1>8. CASE LanAccept \/ LanLost \/ PcbExpires \/ UNCHANGED vars
  BY <1>0, <1>8 DEF LanAccept, LanLost, PcbExpires, vars, linkVars
<1> QED
  BY <1>0, <1>3, <1>4, <1>5, <1>6, <1>7, <1>8 DEF Next

\* Until a handshake fails for good, a link without a connection always has its
\* reconnect timer armed, also after fatal record errors.
THEOREM Watched == Spec => []LinkWatched
<1>1. Init => ForgottenIsDown
  BY DEF Init, ForgottenIsDown
<1>2. IInv /\ ForgottenIsDown /\ [Next]_vars => ForgottenIsDown'
  BY ForgottenStaysDown DEF IInv
<1>3. IInv /\ ForgottenIsDown => LinkWatched
  BY DEF IInv, WatchedUnlessUp, ForgottenIsDown, LinkWatched
<1> QED
  BY <1>1, <1>2, <1>3, Invariance, PTL DEF Spec
-------------------------------------------------------------------------------
\* Until a handshake fails for good a callback always comes from the context's own
\* connection: in TLC's run these two are invariants together, and so they are here.
Sole == OneConnection /\ BufferOfOneStream

\* The same, connection by connection.
SolePointwise ==
  /\ \A c \in Conn : st[c] # "free" <=> c = ctxPcb
  /\ rx \subseteq {ctxPcb}

\* The two forms agree.
LEMMA SoleForms == LinkTypes => (Sole <=> (HandshakesGood => SolePointwise))
<1> SUFFICES ASSUME LinkTypes PROVE Sole <=> (HandshakesGood => SolePointwise)
  OBVIOUS
<1>1. LiveConns = {c \in Conn : st[c] # "free"}
  BY DEF LiveConns, FreeConns
<1>2. {ctxPcb} \ {NULL} = {c \in Conn : c = ctxPcb}
  BY DEF LinkTypes
<1>3. LiveConns = {ctxPcb} \ {NULL} <=> \A c \in Conn : st[c] # "free" <=> c = ctxPcb
  BY <1>1, <1>2
<1> QED
  BY <1>3 DEF Sole, SolePointwise, OneConnection, BufferOfOneStream

\* A connection ends, or the attempt does: the context forgets it.
LinkEnds == ctxPcb # NULL /\ ctxPcb' = NULL /\ rx' = {} /\ connected' = FALSE
            /\ \A c \in Conn : st'[c] = "free"
\* An attempt starts.
LinkBegins == ctxPcb = NULL /\ ctxPcb' \in Conn /\ rx' = {} /\ connected' = connected
              /\ \A c \in Conn : st'[c] # "free" <=> c = ctxPcb'
\* The handshake is done.
LinkComesUp == ctxPcb # NULL /\ ctxPcb' = ctxPcb /\ rx' = rx /\ connected' = TRUE
               /\ \A c \in Conn : st'[c] # "free" <=> st[c] # "free"
\* The link stays as it is.
LinkSame == ctxPcb' = ctxPcb /\ rx' \subseteq rx \cup {ctxPcb} /\ connected' = connected
            /\ \A c \in Conn : st'[c] # "free" <=> st[c] # "free"

\* An attempt of tls_remote_try_connect begins a connection or changes nothing.
LEMMA TryConnectEffect ==
  ASSUME IInv, SolePointwise, NEW l, TryConnect(l)
  PROVE  LinkBegins \/ LinkSame
<1>0. LinkTypes
  BY DEF IInv
<1>1. CASE LinkBusy \/ ConnectImpossible(l)
  BY <1>1 DEF TryConnect, ConnectImpossible, connVars, LinkSame
<1>2. CASE ~LinkBusy /\ ConnectRefused(l)
  BY <1>0, <1>2 DEF ConnectRefused, LinkBusy, connVars, LinkSame, LinkTypes
<1>3. CASE ~LinkBusy /\ ConnectStarted(l)
  <2>1. PICK c \in Conn : st[c] = "free" /\ st' = [st EXCEPT ![c] = "syn"] /\ ctxPcb' = c
    BY <1>3 DEF ConnectStarted, FreeConns
  <2> QED
    BY <1>0, <1>3, <2>1 DEF ConnectStarted, LinkBusy, LinkBegins, LinkTypes, SolePointwise
<1> QED
  BY <1>1, <1>2, <1>3 DEF TryConnect
\* While handshakes are good every step of the client is one of the four.
LEMMA StepEffect ==
  ASSUME IInv, SolePointwise, HandshakesGood', [Next]_vars
  PROVE  LinkBegins \/ LinkComesUp \/ LinkEnds \/ LinkSame
<1>0. LinkTypes
  BY DEF IInv
<1>1. ASSUME NEW c \in Conn, st[c] # "free"
      PROVE  c = ctxPcb /\ ctxPcb # NULL /\ \A d \in Conn : d # c => st[d] = "free"
  BY <1>1 DEF SolePointwise
<1>2. CASE ServerInit
  BY <1>2, TryConnectEffect DEF ServerInit, connVars, linkVars, LinkSame
<1>3. CASE ReconnectTimer
  BY <1>3, TryConnectEffect DEF ReconnectTimer
<1>4. ASSUME NEW c \in Conn, HandshakeStart(c) PROVE LinkSame
  BY <1>0, <1>4 DEF HandshakeStart, linkVars, LinkSame, LinkTypes
<1>5. ASSUME NEW c \in Conn, HandshakeDone(c) PROVE LinkComesUp
  BY <1>0, <1>1, <1>5 DEF HandshakeDone, LinkComesUp, LinkTypes
<1>6. ASSUME NEW c \in Conn, AppDataKept(c) PROVE LinkSame
  BY <1>1, <1>6 DEF AppDataKept, linkVars, LinkSame
<1>7. ASSUME NEW c \in Conn, AppDataClosed(c) \/ PeerClosed(c) PROVE LinkEnds
  <2>1. st[c] # "free"
    BY <1>7 DEF AppDataClosed, PeerClosed
  <2>2. PICK s : RemoteClose(c, s)
    BY <1>7 DEF AppDataClosed, PeerClosed
  <2> QED
    BY <1>1, <2>1, <2>2 DEF RemoteClose, ForgetRemote, LinkEnds
<1>8. ASSUME NEW c \in Conn, ConnErr(c) PROVE LinkEnds
  BY <1>0, <1>1, <1>8 DEF ConnErr, ForgetRemote, LinkEnds, LinkTypes
<1>9. CASE LanAccept \/ LanLost \/ PcbExpires \/ UNCHANGED vars
  BY <1>9 DEF LanAccept, LanLost, PcbExpires, vars, connVars, linkVars, LinkSame
<1>10. ASSUME NEW c \in Conn, RecordFails(c) PROVE LinkSame
  BY <1>0, <1>10 DEF RecordFails, linkVars, LinkSame, LinkTypes
<1>11. ASSUME NEW c \in Conn PROVE ~HandshakeStartFails(c) /\ ~HandshakeFails(c)
  BY OnceReported
<1> QED
  BY <1>2, <1>3, <1>4, <1>5, <1>6, <1>7, <1>8, <1>9, <1>10, <1>11 DEF Next

\* Each of the four keeps the context's connection the only one.
LEMMA SoleStep ==
  ASSUME IInv, IInv', Sole, [Next]_vars
  PROVE  Sole'
<1>1. (LinkTypes => (Sole <=> (HandshakesGood => SolePointwise)))'
  BY SoleForms, PTL
<1> SUFFICES ASSUME HandshakesGood' PROVE SolePointwise'
  BY <1>1 DEF IInv
<1>2. SolePointwise
  BY SoleForms, OnceReported DEF IInv
<1> QED
  BY <1>2, StepEffect DEF SolePointwise, LinkBegins, LinkComesUp, LinkEnds, LinkSame

\* As long as no handshake has failed for good, for any number of pairs.
LEMMA AlwaysSole == Spec => []Sole
<1>1. Init => Sole
  BY DEF Init, Sole, OneConnection, LiveConns, FreeConns, BufferOfOneStream
<1>2. IInv /\ IInv' /\ Sole /\ [Next]_vars => Sole'
  BY SoleStep
<1> QED
  BY <1>1, <1>2, Invariance, PTL DEF Spec

\* There is at most one connection, and it is the one the context acts on, until a
\* handshake fails for good.
THEOREM OnlyConnection == Spec => []OneConnection
<1>1. Sole => OneConnection
  BY DEF Sole
<1> QED
  BY <1>1, AlwaysSole, PTL

\* The receive buffer holds bytes of that connection only, till then.
THEOREM OneStream == Spec => []BufferOfOneStream
<1>1. Sole => BufferOfOneStream
  BY DEF Sole
<1> QED
  BY <1>1, AlwaysSole, PTL

\* What the step does to the connections that exist.
LEMMA LinkStep ==
  ASSUME IInv, IInv', Sole, HandshakesGood', [Next]_vars
  PROVE  Link!Next \/ UNCHANGED Link!lvars
<1>1. SolePointwise /\ LinkTypes
  BY SoleForms, OnceReported DEF IInv
<1>2. LiveConns = {c \in Conn : st[c] # "free"}
  BY DEF LiveConns, FreeConns
<1>3. LiveConns' = {c \in Conn : st'[c] # "free"}
  BY DEF LiveConns, FreeConns
<1>4. CASE LinkSame
  BY <1>2, <1>3, <1>4 DEF LinkSame, Link!lvars
<1>5. CASE LinkBegins
  <2>1. LiveConns = {} /\ \E c \in Conn : LiveConns' = {c}
    BY <1>1, <1>2, <1>3, <1>5 DEF LinkBegins, SolePointwise
  <2> QED
    BY <2>1, <1>5 DEF LinkBegins, Link!Next, Link!Attempt
<1>6. CASE LinkComesUp
  <2>1. LiveConns # {} /\ LiveConns' = LiveConns /\ connected' = TRUE
    BY <1>1, <1>2, <1>3, <1>6 DEF LinkComesUp, SolePointwise, LinkTypes
  <2>2. connected \in BOOLEAN
    BY <1>1 DEF LinkTypes
  <2> QED
    BY <2>1, <2>2, Zenon DEF Link!Next, Link!Establish, Link!lvars
<1>7. CASE LinkEnds
  <2>1. LiveConns # {} /\ LiveConns' = {} /\ connected' = FALSE
    BY <1>1, <1>2, <1>3, <1>7 DEF LinkEnds, SolePointwise, LinkTypes
  <2> QED
    BY <2>1 DEF Link!Next, Link!Lose
<1> QED
  BY <1>1, <1>4, <1>5, <1>6, <1>7, StepEffect

\* The safety half of the refinement LinkSpec: one connection, up only while it exists,
\* until a handshake fails for good.
THEOREM LinkSafety ==
  Spec => Link!Init /\ [][HandshakesGood' => Link!Next \/ UNCHANGED Link!lvars]_vars
<1>1. Init => Link!Init
  BY DEF Init, Link!Init, LiveConns, FreeConns
<1>2. IInv /\ IInv' /\ Sole /\ [Next]_vars
        => [HandshakesGood' => Link!Next \/ UNCHANGED Link!lvars]_vars
  BY LinkStep
<1> QED
  BY <1>1, <1>2, Invariance, AlwaysSole, PTL DEF Spec
=================================================================================
