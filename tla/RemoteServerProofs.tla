-------------------------- MODULE RemoteServerProofs --------------------------
(***************************************************************************)
(* The safety of RemoteServer for every pool of pcbs.                      *)
(*                                                                         *)
(* The invariants the runs check are inductive only together: a callback's *)
(* effect on the link is predictable because the pcb it runs for is the    *)
(* one its context points at (CallbacksOwned), and that is preserved       *)
(* because an attempt starts only when the context points at nothing.      *)
(***************************************************************************)
EXTENDS RemoteServer, TLAPS

\* A pcb back in the pool is nobody's connection to the relay any more.
FreePcbsForgotten == \A p \in Pcb : st[p] = "free" => p \notin relay

\* Before tcp_server_init nothing is armed and no context has a pcb.
BootClean == ~booted => ~pending /\ \A r \in Role : ctxPcb[r] = NULL

\* The inductive invariant.
IInv ==
  /\ TypeOK
  /\ PendingIffOneTimer
  /\ CallbacksOwned
  /\ NoPcbLeaked
  /\ SlotMatchesContext
  /\ LinkNeverStranded
  /\ BufferOfOneStream
  /\ FreePcbsForgotten
  /\ BootClean

-------------------------------------------------------------------------------
USE PcbAssumption DEF Role, PcbState

\* The invariant holds when main has not yet called tcp_server_init.
LEMMA InitIInv == Init => IInv
<1> SUFFICES ASSUME Init PROVE IInv
  OBVIOUS
<1> USE DEF Init
<1>1. TypeOK
  BY DEF TypeOK
<1>2. PendingIffOneTimer
  BY DEF PendingIffOneTimer
<1>3. CallbacksOwned
  BY DEF CallbacksOwned
<1>4. NoPcbLeaked
  BY DEF NoPcbLeaked
<1>5. SlotMatchesContext
  BY DEF SlotMatchesContext
<1>6. LinkNeverStranded
  BY DEF LinkNeverStranded
<1>7. BufferOfOneStream
  BY DEF BufferOfOneStream
<1>8. FreePcbsForgotten
  BY DEF FreePcbsForgotten
<1>9. BootClean
  BY DEF BootClean
<1> QED
  BY <1>1, <1>2, <1>3, <1>4, <1>5, <1>6, <1>7, <1>8, <1>9 DEF IInv

\* The two helpers on the timer state, as facts about the next state.
LEMMA ArmOnce ==
  ASSUME PendingIffOneTimer, pending \in BOOLEAN,
         SetLinkTimer(ScheduleReconnect(LinkTimer))
  PROVE  pending' = TRUE /\ timers' = 1
  BY DEF PendingIffOneTimer, SetLinkTimer, ScheduleReconnect, LinkTimer

Idle == [pending |-> FALSE, timers |-> 0]

\* The helpers on the timer state from which an attempt starts: nothing armed.
LEMMA IdleLinkTimer ==
  /\ SetLinkTimer(Idle) => pending' = FALSE /\ timers' = 0
  /\ ScheduleReconnect(Idle) = [pending |-> TRUE, timers |-> 1]
  /\ ScheduleReconnect(ScheduleReconnect(Idle)) = [pending |-> TRUE, timers |-> 1]
  /\ SetLinkTimer(ScheduleReconnect(Idle)) => pending' = TRUE /\ timers' = 1
<1>1. SetLinkTimer(Idle) => pending' = FALSE /\ timers' = 0
  BY Zenon DEF SetLinkTimer, Idle
<1>2. ScheduleReconnect(Idle) = [pending |-> TRUE, timers |-> 1]
  BY DEF ScheduleReconnect, Idle
<1>3. ScheduleReconnect([pending |-> TRUE, timers |-> 1]) = [pending |-> TRUE, timers |-> 1]
  BY DEF ScheduleReconnect
<1>4. SetLinkTimer([pending |-> TRUE, timers |-> 1]) => pending' = TRUE /\ timers' = 1
  BY Zenon DEF SetLinkTimer
<1> QED
  BY <1>1, <1>2, <1>3, <1>4

\* A call of tcp_remote_try_connect with no timer armed keeps the invariant.
LEMMA TryConnectIInv ==
  ASSUME IInv, TryConnect(Idle), booted'
  PROVE  IInv'
<1> USE DEF IInv
<1>1. CASE LinkBusy
  <2> pending' = FALSE /\ timers' = 0 /\ ctxPcb["remote"] # NULL
    BY <1>1, IdleLinkTimer DEF TryConnect, LinkBusy, LinkNeverStranded
  <2> UNCHANGED <<st, arg, relay, ctxPcb, rx, active, connected>>
    BY <1>1 DEF TryConnect, lwipVars
  <2>1. TypeOK'
    BY DEF TypeOK
  <2>2. PendingIffOneTimer'
    BY DEF TypeOK, PendingIffOneTimer
  <2>3. CallbacksOwned'
    BY DEF TypeOK, CallbacksOwned, FreePcbsForgotten
  <2>4. NoPcbLeaked'
    BY DEF TypeOK, NoPcbLeaked
  <2>5. SlotMatchesContext'
    BY DEF TypeOK, SlotMatchesContext
  <2>6. LinkNeverStranded'
    BY DEF TypeOK, CallbacksOwned, LinkNeverStranded
  <2>7. BufferOfOneStream'
    BY DEF TypeOK, CallbacksOwned, BufferOfOneStream
  <2>8. FreePcbsForgotten'
    BY DEF TypeOK, FreePcbsForgotten
  <2>9. BootClean'
    BY DEF TypeOK, BootClean
  <2> QED
    BY <2>1, <2>2, <2>3, <2>4, <2>5, <2>6, <2>7, <2>8, <2>9
<1>2. CASE ~LinkBusy /\ ConnectImpossible(Idle)
  <2> pending' = TRUE /\ timers' = 1 /\ ctxPcb["remote"] = NULL
    BY <1>2, IdleLinkTimer DEF ConnectImpossible, LinkBusy
  <2> UNCHANGED <<st, arg, relay, ctxPcb, rx, active, connected>>
    BY <1>2 DEF ConnectImpossible, lwipVars
  <2>1. TypeOK'
    BY DEF TypeOK
  <2>2. PendingIffOneTimer'
    BY DEF TypeOK, PendingIffOneTimer
  <2>3. CallbacksOwned'
    BY DEF TypeOK, CallbacksOwned, FreePcbsForgotten
  <2>4. NoPcbLeaked'
    BY DEF TypeOK, NoPcbLeaked
  <2>5. SlotMatchesContext'
    BY DEF TypeOK, SlotMatchesContext
  <2>6. LinkNeverStranded'
    BY DEF TypeOK, CallbacksOwned, LinkNeverStranded
  <2>7. BufferOfOneStream'
    BY DEF TypeOK, CallbacksOwned, BufferOfOneStream
  <2>8. FreePcbsForgotten'
    BY DEF TypeOK, FreePcbsForgotten
  <2>9. BootClean'
    BY DEF TypeOK, BootClean
  <2> QED
    BY <2>1, <2>2, <2>3, <2>4, <2>5, <2>6, <2>7, <2>8, <2>9
<1>3. CASE ~LinkBusy /\ ConnectRefused(Idle)
  <2> pending' = TRUE /\ timers' = 1
    BY <1>3, IdleLinkTimer DEF ConnectRefused
  <2> /\ ctxPcb["remote"] = NULL
      /\ ctxPcb' = [ctxPcb EXCEPT !["remote"] = NULL]
      /\ rx' = [rx EXCEPT !["remote"] = {}]
      /\ connected' = FALSE
      /\ UNCHANGED <<st, arg, relay, active>>
    BY <1>3 DEF ConnectRefused, lwipVars, LinkBusy
  <2>1. TypeOK'
    BY DEF TypeOK
  <2>2. PendingIffOneTimer'
    BY DEF TypeOK, PendingIffOneTimer
  <2>3. CallbacksOwned'
    BY DEF TypeOK, CallbacksOwned, FreePcbsForgotten
  <2>4. NoPcbLeaked'
    BY DEF TypeOK, NoPcbLeaked
  <2>5. SlotMatchesContext'
    BY DEF TypeOK, SlotMatchesContext
  <2>6. LinkNeverStranded'
    BY DEF TypeOK, CallbacksOwned, LinkNeverStranded
  <2>7. BufferOfOneStream'
    BY DEF TypeOK, CallbacksOwned, BufferOfOneStream
  <2>8. FreePcbsForgotten'
    BY DEF TypeOK, FreePcbsForgotten
  <2>9. BootClean'
    BY DEF TypeOK, BootClean
  <2> QED
    BY <2>1, <2>2, <2>3, <2>4, <2>5, <2>6, <2>7, <2>8, <2>9
<1>4. ASSUME ~LinkBusy, ConnectStarted(Idle) PROVE IInv'
  <2> pending' = FALSE /\ timers' = 0
    BY <1>4, IdleLinkTimer DEF ConnectStarted
  <2> PICK p \in Pcb : /\ st[p] = "free"
                       /\ rx' = [rx EXCEPT !["remote"] = {}]
                       /\ ctxPcb' = [ctxPcb EXCEPT !["remote"] = p]
                       /\ arg' = [arg EXCEPT ![p] = "remote"]
                       /\ st' = [st EXCEPT ![p] = "syn_sent"]
                       /\ relay' = relay \cup {p}
    BY <1>4 DEF ConnectStarted, SetupConn, FreePcbs
  <2> ctxPcb["remote"] = NULL /\ ~connected /\ UNCHANGED <<active, connected>>
    BY <1>4 DEF LinkBusy, ConnectStarted
  <2>1. TypeOK'
    BY DEF TypeOK
  <2>2. PendingIffOneTimer'
    BY DEF TypeOK, PendingIffOneTimer
  <2>3. CallbacksOwned'
    BY DEF TypeOK, CallbacksOwned, FreePcbsForgotten
  <2>4. NoPcbLeaked'
    BY DEF TypeOK, NoPcbLeaked
  <2>5. SlotMatchesContext'
    BY DEF TypeOK, SlotMatchesContext
  <2>6. LinkNeverStranded'
    BY DEF TypeOK, CallbacksOwned, LinkNeverStranded
  <2>7. BufferOfOneStream'
    BY DEF TypeOK, CallbacksOwned, BufferOfOneStream
  <2>8. FreePcbsForgotten'
    BY DEF TypeOK, FreePcbsForgotten
  <2>9. BootClean'
    BY DEF TypeOK, BootClean
  <2> QED
    BY <2>1, <2>2, <2>3, <2>4, <2>5, <2>6, <2>7, <2>8, <2>9
<1> QED
  BY <1>1, <1>2, <1>3, <1>4 DEF TryConnect

\* Every callback preserves the invariant: one step per action, and in it one per
\* part of the invariant.
LEMMA NextIInv == IInv /\ [Next]_vars => IInv'
<1> SUFFICES ASSUME IInv, [Next]_vars PROVE IInv'
  OBVIOUS
<1> USE DEF IInv
<1>1. CASE ServerInit
  <2>1. LinkTimer = Idle
    BY <1>1, Zenon DEF ServerInit, LinkTimer, Idle, BootClean, PendingIffOneTimer, TypeOK
  <2> QED
    BY <1>1, <2>1, TryConnectIInv DEF ServerInit
<1>2. CASE ReconnectTimer
  <2>0. timers - 1 = 0
    BY <1>2 DEF ReconnectTimer, PendingIffOneTimer
  <2>1. [pending |-> FALSE, timers |-> timers - 1] = Idle
    BY <2>0 DEF Idle
  <2>2. booted'
    BY <1>2 DEF ReconnectTimer, BootClean, PendingIffOneTimer
  <2> QED
    BY <1>2, <2>1, <2>2, TryConnectIInv DEF ReconnectTimer
<1>3. CASE AcceptNoPcb
  <2> USE <1>3 DEF AcceptNoPcb, lwipVars, linkVars
  <2>1. TypeOK'
    BY DEF TypeOK
  <2>2. PendingIffOneTimer'
    BY DEF TypeOK, PendingIffOneTimer
  <2>3. CallbacksOwned'
    BY DEF TypeOK, CallbacksOwned, FreePcbsForgotten, SlotMatchesContext
  <2>4. NoPcbLeaked'
    BY DEF TypeOK, NoPcbLeaked
  <2>5. SlotMatchesContext'
    BY DEF TypeOK, SlotMatchesContext
  <2>6. LinkNeverStranded'
    BY DEF TypeOK, CallbacksOwned, LinkNeverStranded
  <2>7. BufferOfOneStream'
    BY DEF TypeOK, CallbacksOwned, BufferOfOneStream
  <2>8. FreePcbsForgotten'
    BY DEF TypeOK, FreePcbsForgotten
  <2>9. BootClean'
    BY DEF TypeOK, BootClean
  <2> QED
    BY <2>1, <2>2, <2>3, <2>4, <2>5, <2>6, <2>7, <2>8, <2>9
<1>4. ASSUME NEW p \in Pcb, Accept(p), active = NULL PROVE IInv'
  <2> USE <1>4 DEF Accept, SetupConn, linkVars
  <2>1. TypeOK'
    BY DEF TypeOK
  <2>2. PendingIffOneTimer'
    BY DEF TypeOK, PendingIffOneTimer
  <2>3. CallbacksOwned'
    <3>1. /\ arg' = [arg EXCEPT ![p] = "server"] /\ relay' = relay
          /\ ctxPcb' = [ctxPcb EXCEPT !["server"] = p]
          /\ st' = [st EXCEPT ![p] = "established"]
          /\ ctxPcb["server"] = NULL /\ st[p] = "free" /\ p \notin relay
      BY DEF SlotMatchesContext, FreePcbsForgotten
    <3>2. /\ arg[p] \notin Role
          /\ \A q \in Pcb : arg[q] # "server"
          /\ ctxPcb["remote"] # p
      BY <3>1, Zenon DEF CallbacksOwned, TypeOK
    <3> HIDE <1>4
    <3>3. ASSUME NEW r \in Role, ctxPcb'[r] # NULL PROVE arg'[ctxPcb'[r]] = r
      BY <3>1, <3>2, <3>3 DEF CallbacksOwned, TypeOK
    <3>4. ASSUME NEW r \in Role, NEW q \in Pcb, arg'[q] = r
          PROVE  /\ ctxPcb'[r] = q
                 /\ st'[q] \in {"syn_sent", "established"}
                 /\ (r = "remote" <=> q \in relay')
      BY <3>1, <3>2, <3>4 DEF CallbacksOwned, TypeOK
    <3> QED
      BY <3>3, <3>4 DEF CallbacksOwned
  <2>4. NoPcbLeaked'
    BY DEF TypeOK, NoPcbLeaked
  <2>5. SlotMatchesContext'
    BY DEF TypeOK, SlotMatchesContext
  <2>6. LinkNeverStranded'
    BY DEF TypeOK, CallbacksOwned, LinkNeverStranded
  <2>7. BufferOfOneStream'
    BY DEF TypeOK, CallbacksOwned, BufferOfOneStream
  <2>8. FreePcbsForgotten'
    BY DEF TypeOK, FreePcbsForgotten
  <2>9. BootClean'
    BY DEF TypeOK, BootClean
  <2> QED
    BY <2>1, <2>2, <2>3, <2>4, <2>5, <2>6, <2>7, <2>8, <2>9
<1>5. ASSUME NEW p \in Pcb, Accept(p), active # NULL PROVE IInv'
  <2> /\ st[p] = "free"
      /\ booted
      /\ \E s \in {"closing", "free"} : st' = [st EXCEPT ![p] = s]
      /\ arg' = [arg EXCEPT ![p] = NULL]
      /\ relay' \in {relay, relay \ {p}}
      /\ booted' = booted /\ connected' = connected /\ pending' = pending
      /\ ctxPcb' = ctxPcb /\ rx' = rx /\ active' = active /\ timers' = timers
    BY <1>5 DEF Accept, Release, linkVars
  <2>1. TypeOK'
    BY DEF TypeOK
  <2>2. PendingIffOneTimer'
    BY DEF TypeOK, PendingIffOneTimer
  <2>3. CallbacksOwned'
    BY DEF TypeOK, CallbacksOwned, FreePcbsForgotten
  <2>4. NoPcbLeaked'
    BY DEF TypeOK, NoPcbLeaked
  <2>5. SlotMatchesContext'
    BY DEF TypeOK, SlotMatchesContext
  <2>6. LinkNeverStranded'
    BY DEF TypeOK, CallbacksOwned, LinkNeverStranded
  <2>7. BufferOfOneStream'
    BY DEF TypeOK, CallbacksOwned, BufferOfOneStream
  <2>8. FreePcbsForgotten'
    BY DEF TypeOK, FreePcbsForgotten
  <2>9. BootClean'
    BY DEF TypeOK, BootClean
  <2> QED
    BY <2>1, <2>2, <2>3, <2>4, <2>5, <2>6, <2>7, <2>8, <2>9
<1>6. ASSUME NEW p \in Pcb, ConnectedCb(p) PROVE IInv'
  <2> USE <1>6 DEF ConnectedCb
  <2>1. TypeOK'
    <3>1. st' \in [Pcb -> PcbState] /\ arg' \in [Pcb -> Role \cup {NULL}]
      BY DEF TypeOK
    <3>2. relay' \in SUBSET Pcb
      BY DEF TypeOK
    <3>3. booted' \in BOOLEAN /\ connected' \in BOOLEAN /\ pending' \in BOOLEAN
      BY DEF TypeOK
    <3>4. ctxPcb' \in [Role -> Pcb \cup {NULL}] /\ rx' \in [Role -> SUBSET Pcb]
      BY DEF TypeOK
    <3>5. active' \in Pcb \cup {NULL}
      BY DEF TypeOK
    <3>6. timers' \in Nat
      BY DEF TypeOK
    <3> QED
      BY <3>1, <3>2, <3>3, <3>4, <3>5, <3>6 DEF TypeOK
  <2>2. PendingIffOneTimer'
    BY DEF TypeOK, PendingIffOneTimer
  <2>3. CallbacksOwned'
    BY DEF TypeOK, CallbacksOwned, FreePcbsForgotten
  <2>4. NoPcbLeaked'
    BY DEF TypeOK, NoPcbLeaked
  <2>5. SlotMatchesContext'
    BY DEF TypeOK, SlotMatchesContext
  <2>6. LinkNeverStranded'
    BY DEF TypeOK, CallbacksOwned, LinkNeverStranded
  <2>7. BufferOfOneStream'
    BY DEF TypeOK, CallbacksOwned, BufferOfOneStream
  <2>8. FreePcbsForgotten'
    BY DEF TypeOK, FreePcbsForgotten
  <2>9. BootClean'
    BY DEF TypeOK, CallbacksOwned, BootClean
  <2> QED
    BY <2>1, <2>2, <2>3, <2>4, <2>5, <2>6, <2>7, <2>8, <2>9
<1>7. ASSUME NEW p \in Pcb, PcbExpires(p) PROVE IInv'
  <2> USE <1>7 DEF PcbExpires, Release, linkVars
  <2>1. TypeOK'
    BY DEF TypeOK
  <2>2. PendingIffOneTimer'
    BY DEF TypeOK, PendingIffOneTimer
  <2>3. CallbacksOwned'
    BY DEF TypeOK, CallbacksOwned, FreePcbsForgotten
  <2>4. NoPcbLeaked'
    BY DEF TypeOK, NoPcbLeaked
  <2>5. SlotMatchesContext'
    BY DEF TypeOK, SlotMatchesContext
  <2>6. LinkNeverStranded'
    BY DEF TypeOK, CallbacksOwned, LinkNeverStranded
  <2>7. BufferOfOneStream'
    BY DEF TypeOK, CallbacksOwned, BufferOfOneStream
  <2>8. FreePcbsForgotten'
    BY DEF TypeOK, FreePcbsForgotten
  <2>9. BootClean'
    BY DEF TypeOK, BootClean
  <2> QED
    BY <2>1, <2>2, <2>3, <2>4, <2>5, <2>6, <2>7, <2>8, <2>9
<1>8. ASSUME NEW p \in Pcb, NEW r \in Role, RecvKept(p, r) PROVE IInv'
  <2> USE <1>8 DEF RecvKept, lwipVars, linkVars
  <2>1. TypeOK'
    BY DEF TypeOK
  <2>2. PendingIffOneTimer'
    BY DEF TypeOK, PendingIffOneTimer
  <2>3. CallbacksOwned'
    BY DEF TypeOK, CallbacksOwned, FreePcbsForgotten
  <2>4. NoPcbLeaked'
    BY DEF TypeOK, NoPcbLeaked
  <2>5. SlotMatchesContext'
    BY DEF TypeOK, SlotMatchesContext
  <2>6. LinkNeverStranded'
    BY DEF TypeOK, CallbacksOwned, LinkNeverStranded
  <2>7. BufferOfOneStream'
    BY DEF TypeOK, CallbacksOwned, BufferOfOneStream
  <2>8. FreePcbsForgotten'
    BY DEF TypeOK, FreePcbsForgotten
  <2>9. BootClean'
    BY DEF TypeOK, BootClean
  <2> QED
    BY <2>1, <2>2, <2>3, <2>4, <2>5, <2>6, <2>7, <2>8, <2>9
<1>9. ASSUME NEW p \in Pcb, NEW r \in Role, RecvClosed(p, r) PROVE IInv'
  <2> /\ arg[p] = r
      /\ st[p] = "established"
      /\ \E s \in {"closing", "free"} : /\ st' = [st EXCEPT ![p] = s]
                                        /\ s = "free" => relay' = relay \ {p}
      /\ arg' = [arg EXCEPT ![p] = NULL]
      /\ relay' \in {relay, relay \ {p}}
    BY <1>9 DEF RecvClosed, ConnClose, Release
  <2> DropSession(r) /\ UNCHANGED booted
    BY <1>9 DEF RecvClosed, ConnClose
  <2> /\ ctxPcb' = [ctxPcb EXCEPT ![r] = NULL]
      /\ rx' = [rx EXCEPT ![r] = {}]
      /\ active' = IF r = "server" THEN NULL ELSE active
      /\ IF r = "remote" THEN connected' = FALSE ELSE connected' = connected
    BY DEF DropSession
  <2> IF r = "remote" THEN pending' = TRUE /\ timers' = 1
                      ELSE pending' = pending /\ timers' = timers
    BY ArmOnce DEF DropSession, TypeOK, SetLinkTimer, LinkTimer
  <2>1. TypeOK'
    <3>1. st' \in [Pcb -> PcbState] /\ arg' \in [Pcb -> Role \cup {NULL}]
      BY DEF TypeOK
    <3>2. relay' \in SUBSET Pcb
      BY DEF TypeOK
    <3>3. ctxPcb' \in [Role -> Pcb \cup {NULL}] /\ rx' \in [Role -> SUBSET Pcb]
      BY DEF TypeOK
    <3>4. booted' \in BOOLEAN /\ connected' \in BOOLEAN
      BY DEF TypeOK
    <3>5. pending' \in BOOLEAN /\ timers' \in Nat
      <4>1. CASE r = "remote"
        BY <4>1
      <4>2. CASE r # "remote"
        BY <4>2 DEF TypeOK
      <4> QED
        BY <4>1, <4>2
    <3>6. active' \in Pcb \cup {NULL}
      BY DEF TypeOK
    <3> QED
      BY <3>1, <3>2, <3>3, <3>4, <3>5, <3>6 DEF TypeOK
  <2>2. PendingIffOneTimer'
    BY DEF TypeOK, PendingIffOneTimer
  <2>3. CallbacksOwned'
    BY DEF TypeOK, CallbacksOwned, FreePcbsForgotten
  <2>4. NoPcbLeaked'
    BY DEF TypeOK, NoPcbLeaked
  <2>5. SlotMatchesContext'
    BY DEF TypeOK, SlotMatchesContext
  <2>6. LinkNeverStranded'
    BY DEF TypeOK, CallbacksOwned, LinkNeverStranded
  <2>7. BufferOfOneStream'
    BY DEF TypeOK, CallbacksOwned, BufferOfOneStream
  <2>8. FreePcbsForgotten'
    BY DEF TypeOK, FreePcbsForgotten
  <2>9. BootClean'
    BY DEF TypeOK, CallbacksOwned, BootClean
  <2> QED
    BY <2>1, <2>2, <2>3, <2>4, <2>5, <2>6, <2>7, <2>8, <2>9
<1>10. ASSUME NEW p \in Pcb, NEW r \in Role, ConnErr(p, r) PROVE IInv'
  <2> /\ arg[p] = r
      /\ st' = [st EXCEPT ![p] = "free"]
      /\ arg' = [arg EXCEPT ![p] = NULL]
      /\ relay' = relay \ {p}
    BY <1>10 DEF ConnErr, Release
  <2> DropSession(r) /\ UNCHANGED booted
    BY <1>10 DEF ConnErr
  <2> /\ ctxPcb' = [ctxPcb EXCEPT ![r] = NULL]
      /\ rx' = [rx EXCEPT ![r] = {}]
      /\ active' = IF r = "server" THEN NULL ELSE active
      /\ IF r = "remote" THEN connected' = FALSE ELSE connected' = connected
    BY DEF DropSession
  <2> IF r = "remote" THEN pending' = TRUE /\ timers' = 1
                      ELSE pending' = pending /\ timers' = timers
    BY ArmOnce DEF DropSession, TypeOK, SetLinkTimer, LinkTimer
  <2>1. TypeOK'
    <3>1. st' \in [Pcb -> PcbState] /\ arg' \in [Pcb -> Role \cup {NULL}]
      BY DEF TypeOK
    <3>2. relay' \in SUBSET Pcb
      BY DEF TypeOK
    <3>3. ctxPcb' \in [Role -> Pcb \cup {NULL}] /\ rx' \in [Role -> SUBSET Pcb]
      BY DEF TypeOK
    <3>4. booted' \in BOOLEAN /\ connected' \in BOOLEAN
      BY DEF TypeOK
    <3>5. pending' \in BOOLEAN /\ timers' \in Nat
      <4>1. CASE r = "remote"
        BY <4>1
      <4>2. CASE r # "remote"
        BY <4>2 DEF TypeOK
      <4> QED
        BY <4>1, <4>2
    <3>6. active' \in Pcb \cup {NULL}
      BY DEF TypeOK
    <3> QED
      BY <3>1, <3>2, <3>3, <3>4, <3>5, <3>6 DEF TypeOK
  <2>2. PendingIffOneTimer'
    BY DEF TypeOK, PendingIffOneTimer
  <2>3. CallbacksOwned'
    BY DEF TypeOK, CallbacksOwned, FreePcbsForgotten
  <2>4. NoPcbLeaked'
    BY DEF TypeOK, NoPcbLeaked
  <2>5. SlotMatchesContext'
    BY DEF TypeOK, SlotMatchesContext
  <2>6. LinkNeverStranded'
    BY DEF TypeOK, CallbacksOwned, LinkNeverStranded
  <2>7. BufferOfOneStream'
    BY DEF TypeOK, CallbacksOwned, BufferOfOneStream
  <2>8. FreePcbsForgotten'
    BY DEF TypeOK, FreePcbsForgotten
  <2>9. BootClean'
    BY DEF TypeOK, CallbacksOwned, BootClean
  <2> QED
    BY <2>1, <2>2, <2>3, <2>4, <2>5, <2>6, <2>7, <2>8, <2>9
<1>11. CASE UNCHANGED vars
  BY <1>11 DEF vars, TypeOK, PendingIffOneTimer, CallbacksOwned, NoPcbLeaked,
       SlotMatchesContext, LinkNeverStranded, BufferOfOneStream,
       FreePcbsForgotten, BootClean
<1> QED
  BY <1>1, <1>2, <1>3, <1>4, <1>5, <1>6, <1>7, <1>8, <1>9, <1>10, <1>11 DEF Next

-------------------------------------------------------------------------------
\* The inductive invariant holds of every behaviour, for every pool of pcbs.
THEOREM Invariance == Spec => []IInv
  BY InitIInv, NextIInv, PTL DEF Spec

\* Every variable keeps its type: in particular sys_untimeout and the timer
\* never count an armed reconnect timer below zero.
THEOREM TypeCorrect == Spec => []TypeOK
<1>1. IInv => TypeOK
  BY DEF IInv
<1> QED
  BY <1>1, Invariance, PTL

\* tcp_remote_schedule_reconnect, the timer and the connected callback keep the
\* pending flag equal to "one timer is armed", and never arm a second one.
THEOREM OneTimer == Spec => []PendingIffOneTimer
<1>1. IInv => PendingIffOneTimer
  BY DEF IInv
<1> QED
  BY <1>1, Invariance, PTL

\* A callback only ever reaches the context that points at its pcb.
THEOREM Ownership == Spec => []CallbacksOwned
<1>1. IInv => CallbacksOwned
  BY DEF IInv
<1> QED
  BY <1>1, Invariance, PTL

\* No live pcb is without a context.
THEOREM NoLeak == Spec => []NoPcbLeaked
<1>1. IInv => NoPcbLeaked
  BY DEF IInv
<1> QED
  BY <1>1, Invariance, PTL

\* s_active_client and s_server_ctx.pcb agree.
THEOREM LanSlot == Spec => []SlotMatchesContext
<1>1. IInv => SlotMatchesContext
  BY DEF IInv
<1> QED
  BY <1>1, Invariance, PTL

\* The link is connecting, connected, or waiting for an armed timer.
THEOREM NeverStranded == Spec => []LinkNeverStranded
<1>1. IInv => LinkNeverStranded
  BY DEF IInv
<1> QED
  BY <1>1, Invariance, PTL

\* A message buffer holds bytes of the connection its context serves only.
THEOREM OneStream == Spec => []BufferOfOneStream
<1>1. IInv => BufferOfOneStream
  BY DEF IInv
<1> QED
  BY <1>1, Invariance, PTL

-------------------------------------------------------------------------------
(***************************************************************************)
(* What a step does to the relay link and to the LAN slot: the facts that  *)
(* the independence of the sessions and the refinement both rest on.       *)
(***************************************************************************)
LinkSame    == /\ ctxPcb'["remote"] = ctxPcb["remote"]
               /\ connected' <=> connected
LinkBegins  == /\ ctxPcb["remote"] = NULL
               /\ ctxPcb'["remote"] \in Pcb
               /\ connected' <=> connected
LinkComesUp == /\ ctxPcb["remote"] # NULL
               /\ ctxPcb'["remote"] = ctxPcb["remote"]
               /\ ~connected
               /\ connected'
LinkEnds    == /\ ctxPcb["remote"] # NULL
               /\ ctxPcb'["remote"] = NULL
               /\ ~connected'

SlotSame == ctxPcb'["server"] = ctxPcb["server"] /\ active' = active
TimerSame == pending' = pending /\ timers' = timers

\* An attempt touches nothing of the LAN session, and begins or leaves the link.
LEMMA TryConnectEffect ==
  ASSUME IInv, NEW l, TryConnect(l)
  PROVE  SlotSame /\ (LinkSame \/ LinkBegins)
<1>1. CASE LinkBusy
  BY <1>1 DEF TryConnect, SlotSame, LinkSame
<1>2. CASE ~LinkBusy /\ ConnectStarted(l)
  BY <1>2 DEF ConnectStarted, SetupConn, FreePcbs, LinkBusy, IInv, TypeOK,
              SlotSame, LinkBegins
<1>3. CASE ~LinkBusy /\ ConnectRefused(l)
  <2>1. ~connected /\ ~connected' /\ ctxPcb["remote"] = NULL
    BY <1>3 DEF ConnectRefused, LinkBusy
  <2>2. ctxPcb' = [ctxPcb EXCEPT !["remote"] = NULL] /\ active' = active
    BY <1>3 DEF ConnectRefused
  <2>3. SlotSame /\ ctxPcb'["remote"] = ctxPcb["remote"]
    BY <2>1, <2>2 DEF IInv, TypeOK, SlotSame
  <2>4. connected' <=> connected
    BY <2>1
  <2> QED
    BY <2>3, <2>4 DEF LinkSame
<1>4. CASE ~LinkBusy /\ ConnectImpossible(l)
  BY <1>4 DEF ConnectImpossible, SlotSame, LinkSame
<1> QED
  BY <1>1, <1>2, <1>3, <1>4 DEF TryConnect

\* Forgetting the session of context r, whose connection was alive.
LEMMA DropEffect ==
  ASSUME IInv, NEW r \in Role, ctxPcb[r] # NULL, DropSession(r)
  PROVE  /\ r = "remote" => SlotSame /\ LinkEnds
         /\ r = "server" => LinkSame /\ TimerSame
<1>1. CASE r = "remote"
  BY <1>1 DEF DropSession, IInv, TypeOK, SlotSame, LinkEnds
<1>2. CASE r = "server"
  <2>1. ctxPcb'["remote"] = ctxPcb["remote"] /\ connected' = connected
    BY <1>2 DEF DropSession, IInv, TypeOK
  <2>2. pending' = pending /\ timers' = timers
    BY <1>2, Zenon DEF DropSession, SetLinkTimer, LinkTimer
  <2> QED
    BY <1>2, <2>1, <2>2 DEF LinkSame, TimerSame
<1> QED
  BY <1>1, <1>2

\* A step leaves the LAN session alone, or leaves the link and its timer alone.
LEMMA StepEffect ==
  ASSUME IInv, [Next]_vars
  PROVE  \/ LinkSame /\ TimerSame
         \/ SlotSame /\ (LinkSame \/ LinkBegins \/ LinkComesUp \/ LinkEnds)
<1>1. CASE ServerInit \/ ReconnectTimer
  BY <1>1, TryConnectEffect DEF ServerInit, ReconnectTimer
<1>2. CASE AcceptNoPcb
  BY <1>2 DEF AcceptNoPcb, linkVars, LinkSame, TimerSame, IInv, TypeOK
<1>3. ASSUME NEW p \in Pcb, Accept(p)
      PROVE  LinkSame /\ TimerSame
  BY <1>3 DEF Accept, SetupConn, linkVars, LinkSame, TimerSame, IInv, TypeOK
<1>4. ASSUME NEW p \in Pcb, ConnectedCb(p)
      PROVE  SlotSame /\ LinkComesUp
  <2>1. ctxPcb["remote"] = p /\ ~connected
    BY <1>4 DEF ConnectedCb, IInv, CallbacksOwned, LinkNeverStranded
  <2> QED
    BY <1>4, <2>1 DEF ConnectedCb, SlotSame, LinkComesUp, IInv, TypeOK
<1>5. ASSUME NEW p \in Pcb, PcbExpires(p)
      PROVE  LinkSame /\ TimerSame
  BY <1>5 DEF PcbExpires, linkVars, LinkSame, TimerSame
<1>6. ASSUME NEW p \in Pcb, NEW r \in Role, RecvKept(p, r)
      PROVE  LinkSame /\ TimerSame
  BY <1>6 DEF RecvKept, linkVars, LinkSame, TimerSame
<1>7. ASSUME NEW p \in Pcb, NEW r \in Role, RecvClosed(p, r) \/ ConnErr(p, r)
      PROVE  \/ LinkSame /\ TimerSame
             \/ SlotSame /\ LinkEnds
  <2>1. DropSession(r) /\ arg[p] = r
    BY <1>7 DEF RecvClosed, ConnClose, ConnErr
  <2>2. ctxPcb[r] # NULL
    BY <2>1 DEF IInv, CallbacksOwned
  <2> QED
    BY <2>1, <2>2, DropEffect
<1>8. CASE UNCHANGED vars
  BY <1>8 DEF vars, LinkSame, TimerSame
<1> QED
  BY <1>1, <1>2, <1>3, <1>4, <1>5, <1>6, <1>7, <1>8 DEF Next

\* No step changes the LAN session and the relay link together, although
\* tcp_conn_recv, tcp_conn_err and tcp_conn_close serve both.
THEOREM Independence == Spec => SessionsIndependent
<1>1. IInv /\ IInv' /\ [Next]_vars =>
        [\/ UNCHANGED <<ctxPcb["server"], active>>
         \/ UNCHANGED <<ctxPcb["remote"], connected, pending, timers>>]_vars
  <2> SUFFICES ASSUME IInv, IInv', [Next]_vars
               PROVE  \/ UNCHANGED <<ctxPcb["server"], active>>
                      \/ UNCHANGED <<ctxPcb["remote"], connected, pending, timers>>
    OBVIOUS
  <2>1. CASE SlotSame
    BY <2>1 DEF SlotSame
  <2>2. CASE LinkSame /\ TimerSame
    <3>1. connected' = connected
      BY <2>2 DEF LinkSame, IInv, TypeOK
    <3> QED
      BY <2>2, <3>1, Zenon DEF LinkSame, TimerSame
  <2> QED
    BY <2>1, <2>2, StepEffect
<1> QED
  BY <1>1, Invariance, PTL DEF Spec, SessionsIndependent

-------------------------------------------------------------------------------
\* The relay connection as the remote context sees it.
LinkPcbs == {p \in Pcb : p = ctxPcb["remote"]}

\* The connections of the abstract link are the remote context's pcb, if any.
LEMMA LiveIsContext == IInv => LivePcbs = LinkPcbs
<1> SUFFICES ASSUME IInv PROVE LivePcbs = LinkPcbs
  OBVIOUS
<1> USE DEF LinkPcbs
<1>1. ASSUME NEW p \in LivePcbs PROVE p \in Pcb /\ p = ctxPcb["remote"]
  BY DEF LivePcbs, IInv, TypeOK, NoPcbLeaked, CallbacksOwned
<1>2. ASSUME NEW p \in Pcb, p = ctxPcb["remote"] PROVE p \in LivePcbs
  BY <1>2 DEF LivePcbs, IInv, CallbacksOwned
<1> QED
  BY <1>1, <1>2

\* Every step of the WAN client is a step of the abstract link, or leaves it.
LEMMA LinkStep ==
  ASSUME IInv, IInv', [Next]_vars
  PROVE  [Link!Next]_(Link!lvars)
<1>1. LivePcbs = {p \in Pcb : p = ctxPcb["remote"]}
  BY LiveIsContext DEF LinkPcbs
<1>2. LivePcbs' = {p \in Pcb : p = ctxPcb'["remote"]}
  <2>1. (LivePcbs = LinkPcbs)'
    BY LiveIsContext, PTL
  <2> QED
    BY <2>1 DEF LinkPcbs
<1>3. ctxPcb["remote"] \in Pcb \cup {NULL} /\ connected \in BOOLEAN
  BY DEF IInv, TypeOK
<1>4. connected' \in BOOLEAN
  BY DEF IInv, TypeOK
<1>5. CASE LinkSame
  BY <1>1, <1>2, <1>3, <1>4, <1>5 DEF LinkSame, Link!lvars
<1>6. CASE LinkBegins
  <2>1. LivePcbs = {} /\ \E c \in Pcb : LivePcbs' = {c}
    BY <1>1, <1>2, <1>6 DEF LinkBegins
  <2> QED
    BY <2>1, <1>3, <1>4, <1>6 DEF LinkBegins, Link!Next, Link!Attempt
<1>7. CASE LinkComesUp
  <2>1. LivePcbs # {} /\ LivePcbs' = LivePcbs
    BY <1>1, <1>2, <1>3, <1>7 DEF LinkComesUp
  <2> QED
    BY <2>1, <1>4, <1>7 DEF LinkComesUp, Link!Next, Link!Establish
<1>8. CASE LinkEnds
  <2>1. LivePcbs # {} /\ LivePcbs' = {}
    BY <1>1, <1>2, <1>3, <1>8 DEF LinkEnds
  <2> QED
    BY <2>1, <1>4, <1>8 DEF LinkEnds, Link!Next, Link!Lose
<1> QED
  BY <1>5, <1>6, <1>7, <1>8, StepEffect

\* The safety half of the refinement LinkSpec: at most one relay connection, up
\* only while it exists, and nothing but that connection is established or lost.
THEOREM LinkSafety == Spec => Link!Init /\ [][Link!Next]_(Link!lvars)
<1>1. Init => Link!Init
  BY DEF Init, Link!Init, LivePcbs
<1>2. IInv /\ IInv' /\ [Next]_vars => [Link!Next]_(Link!lvars)
  BY LinkStep
<1> QED
  BY <1>1, <1>2, Invariance, PTL DEF Spec
=============================================================================
