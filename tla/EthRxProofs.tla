------------------------------ MODULE EthRxProofs ------------------------------
(***************************************************************************)
(* EthRx for rings and pools of any size.  The code does not choose when   *)
(* the link goes down, and what goes wrong then is in MCEthRxRestart.cfg.  *)
(* So every theorem says which link it is about: BuiltWhenDown leaves out  *)
(* a link that fails while a descriptor lacks its buffer, that is while    *)
(* the pool is or has just been empty, and QuietWhenDown also one that     *)
(* fails with frames unread.  The invariant places the driver's two        *)
(* positions: the cnt descriptors from build on are the only ones that may *)
(* lack a buffer, and read comes right behind them.  That the ring can     *)
(* always be refilled is counting: a ring that lacks a buffer does not     *)
(* hold all of them (SomeBufferElsewhere).                                 *)
(*                                                                         *)
(* Rows describes the ring as the queue it implements: filled descriptors, *)
(* free ones, those that lack a buffer, in this order from read on, with   *)
(* the DMA between the first two.  With it each step is one of FrameQueue. *)
(***************************************************************************)
EXTENDS EthRx, FiniteSetTheorems, SequenceTheorems, TLAPS

\* What the link is assumed to do.
BuiltWhenDown == [][LinkDown => Built]_vars
QuietWhenDown == [][LinkDown => Quiet]_vars

\* How far descriptor i is behind the one to be built next.
Offset(i) == IF i >= build THEN i - build ELSE i - build + N

\* The descriptors from build on lack a buffer, and reading goes on behind them.
Positions ==
  /\ read = IF build + cnt < N THEN build + cnt ELSE build + cnt - N
  /\ started \/ pc = "build" =>
       \A i \in Index : attached[i] = NULL => Offset(i) < cnt
  /\ ~started => (\A i \in Index : attached[i] # NULL) \/ held = {}
  /\ ~started /\ pc # "build" => cnt = 0

\* The DMA is given a buffer with every descriptor.
Ring ==
  /\ \A i \in Index : attached[i] # NULL => addr[i] = attached[i]
  /\ \A i \in Index : own[i] /\ started => attached[i] # NULL

\* While the ring is built the loop has nothing else in hand, and when it is read a
\* single descriptor may be waiting for a buffer, which is there unless status says so.
Pace ==
  /\ pc = "build" => status = "OK" /\ (started <=> after # "poll")
  /\ started /\ pc = "build" => cnt <= 2
  /\ started /\ pc = "build" /\ cnt = 2 => pool # {}
  /\ started /\ pc # "build" => cnt <= 1
  /\ started /\ pc # "build" /\ cnt = 1 /\ status = "OK" => pool # {}

IInv ==
  /\ TypeOK
  /\ Positions
  /\ Ring
  /\ Pace
  /\ BuffersAccounted
  /\ RecoveryPossible

-------------------------------------------------------------------------------
\* The constants.
LEMMA Constants ==
  /\ N \in Nat /\ N > 0 /\ Index = 0..N - 1 /\ NULL \notin Buffers
  /\ Unplug \in {"idle", "built", "any"} /\ MaxFrames \in Nat
BY EthAssumption DEF Index

\* A ring with a place that lacks a buffer does not hold all of them.
LEMMA SomeBufferElsewhere ==
  ASSUME NEW i \in Index, attached[i] = NULL
  PROVE  ~(Buffers \subseteq Attached)
<1> SUFFICES ASSUME Buffers \subseteq Attached PROVE FALSE
  OBVIOUS
<1> DEFINE Rest == Index \ {i}
           f == [j \in Rest |-> attached[j]]
<1>1. IsFiniteSet(Index) /\ Cardinality(Index) = N
  <2>1. IsFiniteSet(0..N - 1) /\ Cardinality(0..N - 1) = N
    BY Constants, FS_Interval
  <2> QED
    BY <2>1 DEF Index
<1>2. IsFiniteSet(Rest) /\ Cardinality(Rest) = N - 1
  BY <1>1, FS_RemoveElement
<1>3. Buffers \subseteq {f[j] : j \in Rest}
  BY Constants DEF Attached
<1>4. /\ IsFiniteSet({f[j] : j \in Rest})
      /\ Cardinality({f[j] : j \in Rest}) <= Cardinality(Rest)
  <2>1. f \in Surjection(Rest, {f[j] : j \in Rest})
    BY DEF Surjection
  <2> HIDE DEF f, Rest
  <2> QED
    BY <1>2, <2>1, FS_Surjection
<1>5. /\ IsFiniteSet(Buffers) /\ Cardinality(Buffers) >= N
      /\ Cardinality(Buffers) <= Cardinality({f[j] : j \in Rest})
  <2> HIDE DEF f, Rest
  <2> QED
    BY <1>3, <1>4, EthAssumption, FS_Subset
<1>6. Cardinality(Buffers) \in Nat /\ Cardinality({f[j] : j \in Rest}) \in Nat
  BY <1>4, <1>5, FS_CardinalityType
<1> HIDE DEF f, Rest
<1> QED
  BY <1>2, <1>4, <1>5, <1>6, Constants

\* Initially nothing is built.
LEMMA InitInv == Init => IInv
<1> SUFFICES ASSUME Init PROVE IInv
  OBVIOUS
<1>1. /\ attached = [i \in Index |-> NULL] /\ addr = [i \in Index |-> NULL]
      /\ content = [b \in Buffers |-> 0]
      /\ dma = 0 /\ read = 0 /\ build = 0 /\ cnt = 0 /\ arrived = 0 /\ last = 0
      /\ status = "OK" /\ pool = Buffers /\ held = {} /\ pc = "timers" /\ after = "timers"
      /\ ~started
  BY DEF Init
<1>2. own \in [Index -> BOOLEAN] /\ started \in BOOLEAN
  BY Zenon DEF Init
<1>3. TypeOK
  <2>1. dma \in Index /\ read \in Index /\ build \in Index
    BY <1>1, Constants
  <2>2. /\ arrived \in 0..MaxFrames /\ last \in 0..MaxFrames /\ cnt \in 0..N
        /\ content \in [Buffers -> 0..MaxFrames]
    BY <1>1, Constants
  <2>3. /\ addr \in [Index -> Buffers \cup {NULL}] /\ attached \in [Index -> Buffers \cup {NULL}]
        /\ pool \subseteq Buffers /\ held \subseteq Buffers
    BY <1>1
  <2> QED
    BY <1>1, <1>2, <2>1, <2>2, <2>3 DEF TypeOK
<1>4. Positions
  BY <1>1, Constants DEF Positions
<1>5. Ring /\ Pace /\ RecoveryPossible
  BY <1>1 DEF Ring, Pace, RecoveryPossible
<1>6. BuffersAccounted
  <2>1. Attached = {}
    BY <1>1 DEF Attached
  <2> QED
    BY <1>1, <2>1 DEF BuffersAccounted
<1> QED
  BY <1>3, <1>4, <1>5, <1>6 DEF IInv

-------------------------------------------------------------------------------
\* The DMA fills a descriptor, whose buffer is the driver's.
LEMMA ReceiveInv ==
  ASSUME IInv, Receive
  PROVE  IInv'
<1>1. /\ started /\ own[dma] /\ arrived < MaxFrames /\ arrived' = arrived + 1
      /\ content' = [content EXCEPT ![addr[dma]] = arrived']
      /\ own' = [own EXCEPT ![dma] = FALSE] /\ dma' = Succ(dma)
      /\ UNCHANGED <<addr, attached, started, read, build, cnt, status, pool, held, last,
                     pc, after>>
  BY DEF Receive, driver, loop
<1>2. own' \in [Index -> BOOLEAN] /\ \A i \in Index : own'[i] => own[i]
  BY <1>1, Zenon DEF IInv, TypeOK
<1>3. dma' \in Index /\ arrived' \in 0..MaxFrames /\ content' \in [Buffers -> 0..MaxFrames]
  <2>1. dma \in Index /\ arrived \in 0..MaxFrames /\ content \in [Buffers -> 0..MaxFrames]
    BY DEF IInv, TypeOK
  <2>2. dma' \in Index
    BY <1>1, <2>1, Constants DEF Succ
  <2>3. arrived' \in 0..MaxFrames
    BY <1>1, <2>1, Constants
  <2> QED
    BY <1>1, <2>1, <2>2, <2>3
<1>4. TypeOK'
  BY <1>1, <1>2, <1>3, Zenon DEF IInv, TypeOK
<1>5. Attached' = Attached
  BY <1>1 DEF Attached
<1>6. BuffersAccounted'
  BY <1>1, <1>2, <1>5, Zenon DEF IInv, BuffersAccounted
<1>7. Positions'
  BY <1>1 DEF IInv, Positions, Offset
<1>8. Ring'
  BY <1>1, <1>2, Zenon DEF IInv, Ring
<1>9. Pace' /\ RecoveryPossible'
  BY <1>1 DEF IInv, Pace, RecoveryPossible
<1> QED
  BY <1>4, <1>6, <1>7, <1>8, <1>9 DEF IInv

\* A step that leaves ring, driver and link alone, and comes to the build only with
\* something to build, leaves the invariant.
LEMMA LoopInv ==
  ASSUME IInv, UNCHANGED <<own, addr, attached, content, dma, started, read, build, cnt,
                           status, pool, held, last>>,
         arrived' \in 0..MaxFrames,
         pc' \in {"poll", "build", "input", "timers"}, after' \in {"poll", "input", "timers"},
         pc' = "build" /\ pc # "build" => started /\ status = "OK" /\ after' # "poll",
         pc' = "build" /\ pc = "build" => after' = after,
         pc = "build" => pc' = "build"
  PROVE  IInv'
<1>1. TypeOK'
  BY Zenon DEF IInv, TypeOK
<1>2. Attached' = Attached
  BY DEF Attached
<1>3. BuffersAccounted'
  BY <1>2, Zenon DEF IInv, BuffersAccounted
<1>4. Positions'
  BY DEF IInv, Positions, Offset
<1>5. Ring'
  BY Zenon DEF IInv, Ring
<1>6. Pace'
  <2>1. cnt \in Nat
    BY Constants DEF IInv, TypeOK
  <2> QED
    BY <2>1 DEF IInv, Pace
<1>7. RecoveryPossible'
  BY DEF IInv, RecoveryPossible
<1> QED
  BY <1>1, <1>3, <1>4, <1>5, <1>6, <1>7 DEF IInv

\* A filled descriptor has a buffer, which lwIP does not have.
LEMMA FilledHasBuffer ==
  ASSUME IInv, Reading, Filled
  PROVE  /\ cnt < N /\ cnt \in Nat /\ Offset(read) = cnt
         /\ read \in Index /\ attached[read] \in Buffers /\ addr[read] = attached[read]
         /\ attached[read] \notin held \cup pool
<1>1. /\ read \in Index /\ build \in Index /\ cnt \in 0..N /\ N \in Nat
      /\ read = IF build + cnt < N THEN build + cnt ELSE build + cnt - N
      /\ \A i \in Index : attached[i] = NULL => Offset(i) < cnt
      /\ N - cnt > 0 /\ Index = 0..N - 1
  BY Constants DEF IInv, TypeOK, Positions, Reading, Filled
<1>2. cnt < N /\ cnt \in Nat /\ Offset(read) = cnt
  BY <1>1 DEF Offset
<1>3. attached[read] # NULL
  BY <1>1, <1>2
<1>4. attached[read] \in Buffers
  BY <1>1, <1>3 DEF IInv, TypeOK
<1>5. addr[read] = attached[read]
  BY <1>1, <1>3 DEF IInv, Ring
<1>6. attached[read] \in Attached
  BY <1>1, <1>3 DEF Attached
<1>7. attached[read] \notin held \cup pool
  BY <1>6, Zenon DEF IInv, BuffersAccounted
<1> QED
  BY <1>1, <1>2, <1>4, <1>5, <1>7

\* A frame is taken with its buffer.
LEMMA ReadInv ==
  ASSUME IInv, ReadFrame
  PROVE  IInv'
<1>1. /\ pc = "poll" /\ status = "OK" /\ started /\ ~own[read]
      /\ held' = held \cup {addr[read]} /\ last' = content[addr[read]]
      /\ attached' = [attached EXCEPT ![read] = NULL]
      /\ read' = Succ(read) /\ cnt' = cnt + 1 /\ pc' = "build" /\ after' = "input"
      /\ UNCHANGED <<own, addr, content, dma, started, arrived, build, status, pool>>
  BY DEF ReadFrame, Reading, Filled, link
<1>2. /\ cnt < N /\ cnt \in Nat /\ Offset(read) = cnt /\ read \in Index
      /\ attached[read] \in Buffers /\ addr[read] = attached[read]
      /\ attached[read] \notin held \cup pool
  BY FilledHasBuffer DEF ReadFrame
<1>3. /\ build \in Index /\ N \in Nat /\ Index = 0..N - 1
      /\ attached \in [Index -> Buffers \cup {NULL}] /\ NULL \notin Buffers
      /\ content \in [Buffers -> 0..MaxFrames] /\ held \subseteq Buffers
  BY Constants DEF IInv, TypeOK
<1>4. /\ attached'[read] = NULL
      /\ \A i \in Index : i # read => attached'[i] = attached[i]
      /\ attached' \in [Index -> Buffers \cup {NULL}]
  BY <1>1, <1>2, <1>3
<1>5. TypeOK'
  <2>1. /\ read' \in Index /\ cnt' \in 0..N /\ last' \in 0..MaxFrames
        /\ held' \subseteq Buffers
    BY <1>1, <1>2, <1>3 DEF Succ
  <2> QED
    BY <1>1, <1>4, <2>1, Zenon DEF IInv, TypeOK
<1>6. Attached = Attached' \cup {attached[read]} /\ attached[read] \notin Attached'
  <2>1. \A i, j \in Index : attached[i] = attached[j] /\ attached[i] # NULL => i = j
    BY Zenon DEF IInv, BuffersAccounted
  <2>2. \A i \in Index : attached'[i] # attached[read]
    BY <1>2, <1>3, <1>4, <2>1
  <2> QED
    BY <1>2, <1>3, <1>4, <2>2 DEF Attached
<1>7. BuffersAccounted'
  <2>1. /\ pool \cup Attached \cup held = Buffers
        /\ pool \cap Attached = {} /\ pool \cap held = {} /\ Attached \cap held = {}
    BY Zenon DEF IInv, BuffersAccounted
  <2>2. /\ pool' \cup Attached' \cup held' = Buffers
        /\ pool' \cap Attached' = {} /\ pool' \cap held' = {} /\ Attached' \cap held' = {}
    BY <1>1, <1>2, <1>6, <2>1
  <2>3. \A i, j \in Index : attached'[i] = attached'[j] /\ attached'[i] # NULL => i = j
    BY <1>4, Zenon DEF IInv, BuffersAccounted
  <2>4. \A i \in Index : own'[i] /\ started' => addr'[i] = attached'[i] /\ addr'[i] # NULL
    BY <1>1, <1>4, Zenon DEF IInv, BuffersAccounted
  <2> QED
    BY <2>2, <2>3, <2>4, Zenon DEF BuffersAccounted
<1>8. Positions'
  <2>1. read = IF build + cnt < N THEN build + cnt ELSE build + cnt - N
    BY DEF IInv, Positions
  <2>2. read' = IF build' + cnt' < N THEN build' + cnt' ELSE build' + cnt' - N
    BY <1>1, <1>2, <1>3, <2>1 DEF Succ
  <2>3. \A i \in Index : attached'[i] = NULL => Offset(i)' < cnt'
    <3> SUFFICES ASSUME NEW i \in Index, attached'[i] = NULL PROVE Offset(i)' < cnt'
      OBVIOUS
    <3>1. Offset(i)' = Offset(i) /\ Offset(i) \in Int
      BY <1>1, <1>3 DEF Offset
    <3>2. CASE i = read
      BY <1>1, <1>2, <3>1, <3>2
    <3>3. CASE i # read
      <4>1. Offset(i) < cnt
        BY <1>1, <1>4, <3>3 DEF IInv, Positions
      <4> QED
        BY <1>1, <1>2, <3>1, <4>1
    <3> QED
      BY <3>2, <3>3
  <2> QED
    BY <1>1, <2>2, <2>3 DEF Positions
<1>9. Ring'
  BY <1>1, <1>4, Zenon DEF IInv, Ring
<1>10. Pace'
  <2>1. cnt <= 1 /\ (cnt = 1 => pool # {})
    BY <1>1 DEF IInv, Pace
  <2> QED
    BY <1>1, <1>2, <2>1 DEF Pace
<1>11. RecoveryPossible'
  BY <1>1 DEF RecoveryPossible
<1> QED
  BY <1>5, <1>7, <1>8, <1>9, <1>10, <1>11 DEF IInv

\* What building a descriptor does to it, wherever its buffer comes from.
Replenished ==
  /\ addr' \in [Index -> Buffers \cup {NULL}] /\ attached' \in [Index -> Buffers \cup {NULL}]
  /\ attached'[build] # NULL /\ attached'[build] \in Buffers
  /\ addr'[build] = attached'[build]
  /\ \A i \in Index : i # build => attached'[i] = attached[i] /\ addr'[i] = addr[i]
  /\ pool' \subseteq Buffers

\* A descriptor is built with the buffer it has or with one of the pool.
LEMMA BuildInv ==
  ASSUME IInv, BuildOne
  PROVE  IInv'
<1>1. /\ pc = "build" /\ cnt > 0
      /\ own' = [own EXCEPT ![build] = TRUE] /\ build' = Succ(build) /\ cnt' = cnt - 1
      /\ UNCHANGED <<content, dma, started, arrived, read, status, held, last, pc, after>>
  BY DEF BuildOne, link, loop
<1>2. /\ build \in Index /\ cnt \in Nat /\ cnt <= N /\ N \in Nat /\ Index = 0..N - 1
      /\ addr \in [Index -> Buffers \cup {NULL}] /\ attached \in [Index -> Buffers \cup {NULL}]
      /\ NULL \notin Buffers /\ pool \subseteq Buffers
  BY Constants DEF IInv, TypeOK
<1>3. Replenished
  <2>1. CASE attached[build] # NULL /\ UNCHANGED <<addr, attached, pool>>
    BY <1>2, <2>1 DEF IInv, Ring, Replenished
  <2>2. ASSUME NEW b \in pool, pool' = pool \ {b}, addr' = [addr EXCEPT ![build] = b],
               attached' = [attached EXCEPT ![build] = b]
        PROVE  Replenished
    BY <1>2, <2>2 DEF Replenished
  <2> QED
    BY <2>1, <2>2 DEF BuildOne
<1>4. own' \in [Index -> BOOLEAN] /\ \A i \in Index : i # build => own'[i] = own[i]
  BY <1>1, Zenon DEF IInv, TypeOK
<1>5. TypeOK'
  <2>1. build' \in Index /\ cnt' \in 0..N
    BY <1>1, <1>2 DEF Succ
  <2> QED
    BY <1>1, <1>3, <1>4, <2>1, Zenon DEF IInv, TypeOK, Replenished
<1>6. /\ pool \cup Attached \cup held = Buffers
      /\ pool \cap Attached = {} /\ pool \cap held = {} /\ Attached \cap held = {}
      /\ \A i, j \in Index : attached[i] = attached[j] /\ attached[i] # NULL => i = j
      /\ \A i \in Index : own[i] /\ started => addr[i] = attached[i] /\ addr[i] # NULL
  BY Zenon DEF IInv, BuffersAccounted
<1>7. BuffersAccounted'
  <2>1. \/ attached' = attached /\ pool' = pool
        \/ /\ attached[build] = NULL /\ attached'[build] \in pool
           /\ pool' = pool \ {attached'[build]}
    <3>1. CASE attached[build] # NULL /\ UNCHANGED <<addr, attached, pool>>
      BY <3>1
    <3>2. ASSUME NEW b \in pool, pool' = pool \ {b}, attached[build] = NULL,
                 attached' = [attached EXCEPT ![build] = b]
          PROVE  attached'[build] \in pool /\ pool' = pool \ {attached'[build]}
      BY <1>2, <3>2
    <3> QED
      BY <3>1, <3>2 DEF BuildOne
  <2>2. /\ pool' \cup Attached' \cup held' = Buffers
        /\ pool' \cap Attached' = {} /\ pool' \cap held' = {} /\ Attached' \cap held' = {}
    <3>1. CASE attached' = attached /\ pool' = pool
      BY <1>1, <1>6, <3>1 DEF Attached
    <3>2. CASE /\ attached[build] = NULL /\ attached'[build] \in pool
               /\ pool' = pool \ {attached'[build]}
      <4>1. Attached' = Attached \cup {attached'[build]}
        BY <1>2, <1>3, <3>2 DEF Attached, Replenished
      <4> QED
        BY <1>1, <1>6, <3>2, <4>1
    <3> QED
      BY <2>1, <3>1, <3>2
  <2>3. \A i, j \in Index : attached'[i] = attached'[j] /\ attached'[i] # NULL => i = j
    <3>1. CASE attached' = attached /\ pool' = pool
      BY <1>6, <3>1
    <3>2. CASE /\ attached[build] = NULL /\ attached'[build] \in pool
               /\ pool' = pool \ {attached'[build]}
      <4>1. \A i \in Index : attached[i] # attached'[build]
        BY <1>2, <1>6, <3>2 DEF Attached
      <4> QED
        BY <1>3, <1>6, <4>1 DEF Replenished
    <3> QED
      BY <2>1, <3>1, <3>2
  <2>4. \A i \in Index : own'[i] /\ started' => addr'[i] = attached'[i] /\ addr'[i] # NULL
    BY <1>1, <1>3, <1>4, <1>6, Zenon DEF Replenished
  <2> QED
    BY <2>2, <2>3, <2>4, Zenon DEF BuffersAccounted
<1>8. Positions'
  <2>1. read = IF build + cnt < N THEN build + cnt ELSE build + cnt - N
    BY DEF IInv, Positions
  <2>2. read' = IF build' + cnt' < N THEN build' + cnt' ELSE build' + cnt' - N
    BY <1>1, <1>2, <2>1 DEF Succ
  <2>3. \A i \in Index : attached'[i] = NULL => Offset(i)' < cnt'
    <3> SUFFICES ASSUME NEW i \in Index, attached'[i] = NULL PROVE Offset(i)' < cnt'
      OBVIOUS
    <3>1. i # build /\ attached[i] = NULL
      BY <1>3 DEF Replenished
    <3>2. Offset(i) < cnt
      BY <1>1, <3>1 DEF IInv, Positions
    <3>3. Offset(i)' = Offset(i) - 1 /\ Offset(i) \in Int
      BY <1>1, <1>2, <3>1 DEF Offset, Succ
    <3> QED
      BY <1>1, <1>2, <3>2, <3>3
  <2>4. ~started' => (\A i \in Index : attached'[i] # NULL) \/ held' = {}
    <3>1. ~started => (\A i \in Index : attached[i] # NULL) \/ held = {}
      BY DEF IInv, Positions
    <3> QED
      BY <1>1, <1>3, <3>1 DEF Replenished
  <2> QED
    BY <1>1, <2>2, <2>3, <2>4 DEF Positions
<1>9. Ring'
  BY <1>1, <1>3, <1>4, Zenon DEF IInv, Ring, Replenished
<1>10. Pace'
  BY <1>1, <1>2 DEF IInv, Pace
<1>11. RecoveryPossible'
  BY <1>1 DEF IInv, Pace, RecoveryPossible
<1> QED
  BY <1>5, <1>7, <1>8, <1>9, <1>10, <1>11 DEF IInv

\* The build ends with every descriptor built or, the pool being empty, with one
\* that is not; then lwIP holds a buffer.
LEMMA BuildReturnsInv ==
  ASSUME IInv, BuildDone \/ BuildStarved
  PROVE  IInv'
<1>1. /\ pc = "build" /\ pc' = after /\ after' = after
      /\ started' = (started \/ after = "poll")
      /\ UNCHANGED <<own, addr, attached, content, dma, arrived, read, build, cnt, pool,
                     held, last>>
  BY DEF BuildDone, BuildStarved, BuildReturns, ring
<1>2. /\ status = "OK" /\ (started <=> after # "poll")
      /\ after \in {"poll", "input", "timers"} /\ cnt \in Nat /\ cnt <= N /\ N \in Nat
      /\ build \in Index /\ Index = 0..N - 1
      /\ \A i \in Index : attached[i] = NULL => Offset(i) < cnt
  BY <1>1, Constants DEF IInv, Pace, TypeOK, Positions
<1>3. started' = TRUE
  BY <1>1, <1>2
<1>4. \/ cnt = 0 /\ status' = "OK"
      \/ cnt = 1 /\ status' = "ERROR" /\ held # {} /\ attached[build] = NULL /\ started
  <2>1. CASE BuildDone
    BY <1>2, <2>1 DEF BuildDone
  <2>2. CASE BuildStarved
    <3>1. cnt > 0 /\ attached[build] = NULL /\ pool = {} /\ status' = "ERROR"
      BY <2>2 DEF BuildStarved
    <3>2. ~(Buffers \subseteq Attached)
      BY <1>2, <3>1, SomeBufferElsewhere
    <3>3. held # {}
      <4>1. pool \cup Attached \cup held = Buffers
        BY Zenon DEF IInv, BuffersAccounted
      <4> QED
        BY <3>1, <3>2, <4>1
    <3>4. started
      BY <1>2, <3>1, <3>3 DEF IInv, Positions
    <3>5. cnt = 1
      BY <1>1, <1>2, <3>1, <3>4 DEF IInv, Pace
    <3> QED
      BY <3>1, <3>3, <3>4, <3>5
  <2> QED
    BY <2>1, <2>2
<1>5. \A i \in Index : own[i] => attached[i] # NULL
  <2>1. CASE cnt = 0
    <3>1. \A i \in Index : Offset(i) >= 0
      BY <1>2 DEF Offset
    <3> QED
      BY <1>2, <2>1, <3>1 DEF Offset
  <2>2. CASE started
    BY <2>2, Zenon DEF IInv, Ring
  <2> QED
    BY <1>4, <2>1, <2>2
<1>6. TypeOK'
  <2>1. status' \in {"OK", "ERROR"} /\ pc' \in {"poll", "build", "input", "timers"}
    BY <1>1, <1>2, <1>4
  <2> QED
    BY <1>1, <1>3, <2>1, Zenon DEF IInv, TypeOK
<1>7. BuffersAccounted'
  <2>1. Attached' = Attached
    BY <1>1 DEF Attached
  <2>2. \A i \in Index : own[i] => addr[i] = attached[i] /\ addr[i] # NULL
    BY <1>5, Zenon DEF IInv, Ring
  <2> QED
    BY <1>1, <2>1, <2>2, Zenon DEF IInv, BuffersAccounted
<1>8. Positions'
  <2>1. read = IF build + cnt < N THEN build + cnt ELSE build + cnt - N
    BY DEF IInv, Positions
  <2> QED
    BY <1>1, <1>2, <1>3, <2>1 DEF Positions, Offset
<1>9. Ring'
  BY <1>1, <1>5, Zenon DEF IInv, Ring
<1>10. Pace'
  BY <1>1, <1>2, <1>3, <1>4 DEF Pace
<1>11. RecoveryPossible'
  BY <1>1, <1>4 DEF RecoveryPossible
<1> QED
  BY <1>6, <1>7, <1>8, <1>9, <1>10, <1>11 DEF IInv

\* lwIP gives a buffer back.
LEMMA FreeInv ==
  ASSUME IInv, NEW b \in Buffers, Free(b)
  PROVE  IInv'
<1>1. /\ pc \in {"input", "timers"} /\ b \in held /\ status' = "OK"
      /\ held' = held \ {b} /\ pool' = pool \cup {b}
      /\ UNCHANGED <<own, addr, attached, content, dma, started, arrived, read, build, cnt,
                     last, pc, after>>
  BY DEF Free, ring, link, loop
<1>2. TypeOK'
  <2>1. pool' \subseteq Buffers /\ held' \subseteq Buffers
    BY <1>1 DEF IInv, TypeOK
  <2> QED
    BY <1>1, <2>1, Zenon DEF IInv, TypeOK
<1>3. BuffersAccounted'
  <2>1. Attached' = Attached
    BY <1>1 DEF Attached
  <2>2. /\ pool \cup Attached \cup held = Buffers
        /\ pool \cap Attached = {} /\ pool \cap held = {} /\ Attached \cap held = {}
    BY Zenon DEF IInv, BuffersAccounted
  <2>3. /\ pool' \cup Attached' \cup held' = Buffers
        /\ pool' \cap Attached' = {} /\ pool' \cap held' = {} /\ Attached' \cap held' = {}
    BY <1>1, <2>1, <2>2
  <2>4. /\ \A i, j \in Index : attached'[i] = attached'[j] /\ attached'[i] # NULL => i = j
        /\ \A i \in Index : own'[i] /\ started' => addr'[i] = attached'[i] /\ addr'[i] # NULL
    BY <1>1, Zenon DEF IInv, BuffersAccounted
  <2> QED
    BY <2>3, <2>4, Zenon DEF BuffersAccounted
<1>4. Positions'
  <2>1. read = IF build + cnt < N THEN build + cnt ELSE build + cnt - N
    BY DEF IInv, Positions
  <2>2. held = {} => held' = {}
    BY <1>1
  <2> QED
    BY <1>1, <2>1, <2>2 DEF IInv, Positions, Offset
<1>5. Ring'
  BY <1>1, Zenon DEF IInv, Ring
<1>6. Pace' /\ RecoveryPossible'
  BY <1>1 DEF IInv, Pace, RecoveryPossible
<1> QED
  BY <1>2, <1>3, <1>4, <1>5, <1>6 DEF IInv

\* The link goes down when the ring is built, and comes up with all of it to build.
LEMMA LinkInv ==
  ASSUME IInv, LinkDown => Built, LinkDown \/ LinkUp
  PROVE  IInv'
<1>1. /\ pc = "timers"
      /\ UNCHANGED <<own, addr, attached, content, dma, arrived, read, build, status, pool,
                     held, last>>
  BY DEF LinkDown, LinkUp, ring, driver, link
<1>2. /\ cnt \in Nat /\ N \in Nat /\ N > 0 /\ build \in Index /\ Index = 0..N - 1
      /\ read = IF build + cnt < N THEN build + cnt ELSE build + cnt - N
  BY Constants DEF IInv, TypeOK, Positions
<1>3. CASE LinkDown
  <2>1. /\ started /\ started' = FALSE /\ pc' = "poll" /\ after' = after /\ cnt' = cnt
        /\ cnt = 0
    BY <1>3 DEF LinkDown, driver, Built
  <2>2. cnt = 0 /\ \A i \in Index : attached[i] # NULL
    <3> SUFFICES ASSUME NEW i \in Index, attached[i] = NULL PROVE FALSE
      BY <2>1
    <3>1. Offset(i) < 0
      BY <2>1 DEF IInv, Positions
    <3> QED BY <1>2, <3>1 DEF Offset
  <2>3. TypeOK'
    BY <1>1, <2>1, Zenon DEF IInv, TypeOK
  <2>4. BuffersAccounted'
    <3>1. Attached' = Attached
      BY <1>1 DEF Attached
    <3> QED
      BY <1>1, <2>1, <3>1, Zenon DEF IInv, BuffersAccounted
  <2>5. Positions'
    BY <1>1, <1>2, <2>1, <2>2 DEF Positions
  <2>6. Ring'
    BY <1>1, <2>1, Zenon DEF IInv, Ring
  <2>7. Pace' /\ RecoveryPossible'
    BY <1>1, <2>1 DEF IInv, Pace, RecoveryPossible
  <2> QED
    BY <2>3, <2>4, <2>5, <2>6, <2>7 DEF IInv
<1>4. CASE LinkUp
  <2>1. /\ ~started /\ started' = started /\ cnt' = N /\ pc' = "build" /\ after' = "poll"
    BY <1>4 DEF LinkUp, link
  <2>2. cnt = 0 /\ status = "OK"
    <3>1. cnt = 0
      BY <1>1, <2>1 DEF IInv, Positions
    <3> QED
      BY <3>1 DEF IInv, RecoveryPossible, TypeOK
  <2>3. TypeOK'
    <3>1. cnt' \in 0..N
      BY <1>2, <2>1
    <3> QED
      BY <1>1, <2>1, <3>1, Zenon DEF IInv, TypeOK
  <2>4. BuffersAccounted'
    <3>1. Attached' = Attached
      BY <1>1 DEF Attached
    <3> QED
      BY <1>1, <2>1, <3>1, Zenon DEF IInv, BuffersAccounted
  <2>5. Positions'
    <3>1. \A i \in Index : Offset(i)' < cnt'
      BY <1>1, <1>2, <2>1 DEF Offset
    <3>2. ~started' => (\A i \in Index : attached'[i] # NULL) \/ held' = {}
      BY <1>1, <2>1 DEF IInv, Positions
    <3> QED
      BY <1>1, <1>2, <2>1, <2>2, <3>1, <3>2 DEF Positions
  <2>6. Ring'
    BY <1>1, <2>1, Zenon DEF IInv, Ring
  <2>7. Pace' /\ RecoveryPossible'
    BY <1>1, <2>1, <2>2 DEF Pace, RecoveryPossible
  <2> QED
    BY <2>3, <2>4, <2>5, <2>6, <2>7 DEF IInv
<1> QED
  BY <1>3, <1>4
-------------------------------------------------------------------------------
\* The steps of the loop that leave the ring and the driver alone.
LEMMA PassInv ==
  ASSUME IInv, Lose \/ ReadNothing \/ ReadRefused \/ InputReturns \/ TimersReturn
               \/ UNCHANGED vars
  PROVE  IInv'
<1>1. UNCHANGED <<own, addr, attached, content, dma, started, read, build, cnt, status,
                  pool, held, last>>
  BY DEF Lose, ReadNothing, ReadRefused, InputReturns, TimersReturn, vars, ring, link, driver
<1>2. /\ pc \in {"poll", "build", "input", "timers"} /\ after \in {"poll", "input", "timers"}
      /\ arrived \in 0..MaxFrames
  BY DEF IInv, TypeOK
<1>3. arrived' \in 0..MaxFrames
  <2>1. CASE Lose
    BY <1>2, <2>1, Constants DEF Lose
  <2>2. CASE ~Lose
    BY <1>2, <2>2 DEF ReadNothing, ReadRefused, InputReturns, TimersReturn, vars, link
  <2> QED
    BY <2>1, <2>2
<1>4. /\ pc' \in {"poll", "build", "input", "timers"} /\ after' \in {"poll", "input", "timers"}
      /\ pc' = "build" /\ pc # "build" => started /\ status = "OK" /\ after' # "poll"
      /\ pc' = "build" /\ pc = "build" => after' = after
      /\ pc = "build" => pc' = "build"
  BY <1>2 DEF Lose, ReadNothing, Reading, ReadRefused, InputReturns, TimersReturn, vars, loop
<1> QED
  BY <1>1, <1>3, <1>4, LoopInv

\* Every step preserves the invariant.
LEMMA StepInv ==
  ASSUME IInv, [LinkDown => Built]_vars, [Next]_vars
  PROVE  IInv'
<1>1. CASE Receive
  BY <1>1, ReceiveInv
<1>2. CASE Lose \/ ReadNothing \/ ReadRefused \/ InputReturns \/ TimersReturn \/ UNCHANGED vars
  BY <1>2, PassInv
<1>3. CASE ReadFrame
  BY <1>3, ReadInv
<1>4. CASE BuildOne
  BY <1>4, BuildInv
<1>5. CASE BuildDone \/ BuildStarved
  BY <1>5, BuildReturnsInv
<1>6. CASE StackFrees
  BY <1>6, FreeInv DEF StackFrees
<1>7. CASE LinkDown \/ LinkUp
  <2>1. LinkDown => vars' # vars
    BY DEF LinkDown, vars, link
  <2> QED BY <1>7, <2>1, LinkInv
<1> QED
  BY <1>1, <1>2, <1>3, <1>4, <1>5, <1>6, <1>7 DEF Next, Loop, Driver

\* The inductive invariant holds as long as the link goes down with every descriptor
\* built.
THEOREM Invariance == Spec /\ BuiltWhenDown => []IInv
<1>1. IInv /\ [Next]_vars /\ [LinkDown => Built]_vars => IInv'
  BY StepInv
<1> QED
  BY <1>1, InitInv, PTL DEF Spec, BuiltWhenDown

\* The ring, the pool and the loop keep their types, as long as HAL_ETH_Stop never finds a
\* descriptor that lacks its buffer.
THEOREM TypeCorrect == Spec /\ BuiltWhenDown => []TypeOK
<1>1. IInv => TypeOK
  BY DEF IInv
<1> QED
  BY <1>1, Invariance, PTL

\* However many descriptors and buffers there are, every buffer has one place: none leaks
\* from RX_POOL, and the DMA is given none that lwIP reads.  The code does not guarantee
\* the premise: a link that fails while the pool is empty breaks it.
THEOREM Accounted == Spec /\ BuiltWhenDown => []BuffersAccounted
<1>1. IInv => BuffersAccounted
  BY DEF IInv
<1> QED
  BY <1>1, Invariance, PTL

\* An empty pool stops the reading (RxAllocStatus) only while lwIP has a buffer to give
\* back, and it never costs the DMA more than one descriptor, under the same premise.
THEOREM Recovery == Spec /\ BuiltWhenDown => []RecoveryPossible
<1>1. IInv => RecoveryPossible
  BY DEF IInv
<1> QED
  BY <1>1, Invariance, PTL

\* low_level_input hands lwIP a buffer only while neither it nor the pool has that buffer,
\* under the same premise, also when frames are left unread while the link is down.
THEOREM HandedOverOnce == Spec /\ BuiltWhenDown => BufferHandedOverOnce
<1>1. IInv /\ [Next]_vars => [read' # read => addr[read] \notin held \cup pool]_vars
  <2> SUFFICES ASSUME IInv, [Next]_vars, read' # read
               PROVE  addr[read] \notin held \cup pool
    OBVIOUS
  <2>1. ReadFrame
    BY DEF Next, Loop, Driver, Receive, Lose, ReadNothing, ReadRefused, BuildOne, BuildDone,
           BuildStarved, BuildReturns, StackFrees, Free, InputReturns, TimersReturn, LinkDown,
           LinkUp, vars, driver
  <2>2. Reading /\ Filled
    BY <2>1 DEF ReadFrame
  <2> QED
    BY <2>2, FilledHasBuffer
<1> QED
  BY <1>1, Invariance, PTL DEF Spec, BufferHandedOverOnce
-------------------------------------------------------------------------------
\* The queue.  From read on come w filled descriptors, then those the DMA may fill,
\* the first of them where the DMA is, then cnt that lack a buffer.
At(r, k) == IF r + k < N THEN r + k ELSE r + k - N

Row(w) ==
  /\ w + cnt <= N
  /\ dma = At(read, w)
  /\ \A k \in 0..w - 1 : ~own[At(read, k)] /\ attached[At(read, k)] # NULL
  /\ \A k \in w..N - cnt - 1 : own[At(read, k)]
  /\ \A k \in N - cnt..N - 1 : ~own[At(read, k)] /\ attached[At(read, k)] = NULL

\* While the link is down the ring is the DMA's, and both positions are the same.
Rows ==
  IF started THEN \E w \in 0..N : Row(w)
  ELSE dma = read /\ \A i \in Index : own[i]

\* What Waiting says, as a function of the ring.
FilledPlaces(o, a, r) == {k \in 0..N - 1 : \A j \in 0..k : ~o[At(r, j)] /\ a[At(r, j)] # NULL}
FramesIn(d, c, r, w) == [k \in 1..w |-> c[d[At(r, k - 1)]]]
QueueOf(o, a, d, c, r) == FramesIn(d, c, r, Cardinality(FilledPlaces(o, a, r)))

\* Waiting, before and after a step.
LEMMA WaitingIs ==
  /\ Waiting = QueueOf(own, attached, addr, content, read)
  /\ Waiting' = QueueOf(own', attached', addr', content', read')
BY DEF Waiting, QueueOf, FramesIn, FilledPlaces, Behind, At

\* Going around the ring.
LEMMA Around ==
  ASSUME NEW r \in Index
  PROVE  /\ \A k \in 0..N - 1 : At(r, k) \in Index
         /\ At(r, 0) = r /\ At(r, N) = r
         /\ \A j, k \in 0..N - 1 : At(r, j) = At(r, k) => j = k
         /\ \A k \in 0..N - 1 : Succ(At(r, k)) = At(r, k + 1) /\ At(Succ(r), k) = At(r, k + 1)
         /\ Succ(r) \in Index
BY Constants DEF At, Succ

\* w filled descriptors and none behind them make a queue of w frames.
LEMMA QueueIs ==
  ASSUME NEW o, NEW a, NEW d, NEW c, NEW r, NEW w \in 0..N,
         \A k \in 0..w - 1 : ~o[At(r, k)] /\ a[At(r, k)] # NULL,
         w < N => o[At(r, w)] \/ a[At(r, w)] = NULL
  PROVE  QueueOf(o, a, d, c, r) = FramesIn(d, c, r, w)
<1>1. FilledPlaces(o, a, r) = 0..w - 1
  <2> HIDE DEF At
  <2>1. \A k \in 0..w - 1 : k \in FilledPlaces(o, a, r)
    BY Constants DEF FilledPlaces
  <2>2. \A k \in FilledPlaces(o, a, r) : k \in 0..w - 1
    <3> SUFFICES ASSUME NEW k \in FilledPlaces(o, a, r), ~(k \in 0..w - 1) PROVE FALSE
      OBVIOUS
    <3>1. k \in 0..N - 1 /\ \A j \in 0..k : ~o[At(r, j)] /\ a[At(r, j)] # NULL
      BY DEF FilledPlaces
    <3>2. w < N /\ w \in 0..k
      BY <3>1, Constants
    <3> QED BY <3>1, <3>2
  <2> QED BY <2>1, <2>2
<1>2. Cardinality(0..w - 1) = w
  BY FS_Interval, Constants
<1> QED BY <1>1, <1>2 DEF QueueOf

\* What the invariant says of the positions, for the proofs below.
LEMMA Places ==
  ASSUME IInv
  PROVE  /\ N \in Nat /\ N > 0 /\ cnt \in Nat /\ cnt <= N
         /\ read \in Index /\ build \in Index /\ dma \in Index
         /\ build = At(read, N - cnt)
         /\ own \in [Index -> BOOLEAN]
         /\ arrived \in Nat
<1>1. /\ N \in Nat /\ N > 0 /\ Index = 0..N - 1 /\ MaxFrames \in Nat
      /\ cnt \in 0..N /\ read \in Index /\ build \in Index /\ dma \in Index
      /\ read = IF build + cnt < N THEN build + cnt ELSE build + cnt - N
      /\ arrived \in 0..MaxFrames
  BY Constants DEF IInv, TypeOK, Positions
<1>2. build = At(read, N - cnt)
  BY <1>1 DEF At
<1>3. own \in [Index -> BOOLEAN]
  BY Zenon DEF IInv, TypeOK
<1> QED BY <1>1, <1>2, <1>3

\* So do w filled descriptors of which those behind them are the DMA's, or lack a buffer.
LEMMA RowQueue ==
  ASSUME NEW o, NEW a, NEW d, NEW c, NEW r, NEW w \in 0..N, NEW n \in 0..N,
         w + n <= N,
         \A k \in 0..w - 1 : ~o[At(r, k)] /\ a[At(r, k)] # NULL,
         \A k \in w..N - n - 1 : o[At(r, k)],
         \A k \in N - n..N - 1 : ~o[At(r, k)] /\ a[At(r, k)] = NULL
  PROVE  QueueOf(o, a, d, c, r) = FramesIn(d, c, r, w)
<1>1. N \in Nat /\ w \in Nat /\ n \in Nat
  BY Constants
<1>2. CASE w < N - n
  BY <1>1, <1>2, QueueIs
<1>3. CASE w >= N - n /\ w < N
  BY <1>1, <1>3, QueueIs
<1>4. CASE w = N
  BY <1>4, QueueIs
<1> QED BY <1>1, <1>2, <1>3, <1>4

\* The queue of a row.
LEMMA WaitingRow ==
  ASSUME IInv, NEW w \in 0..N, Row(w)
  PROVE  Waiting = FramesIn(addr, content, read, w)
<1>1. cnt \in 0..N
  BY DEF IInv, TypeOK
<1>2. QueueOf(own, attached, addr, content, read) = FramesIn(addr, content, read, w)
  BY <1>1, RowQueue DEF Row
<1> QED BY <1>2, WaitingIs

\* A ring that is the DMA's has nothing waiting.
LEMMA WaitingNothing ==
  ASSUME IInv, \A i \in Index : own[i]
  PROVE  Waiting = <<>>
<1>1. own[At(read, 0)] /\ N > 0 /\ 0 \in 0..N
  BY Places, Around
<1>2. Waiting = FramesIn(addr, content, read, 0)
  BY <1>1, WaitingIs, QueueIs
<1> QED BY <1>2 DEF FramesIn

\* The queue of a row after a step.
LEMMA WaitingRowAfter ==
  ASSUME IInv', NEW w \in 0..N, Row(w)'
  PROVE  Waiting' = FramesIn(addr', content', read', w)
<1>1. cnt' \in 0..N
  BY DEF IInv, TypeOK
<1>2. /\ w + cnt' <= N
      /\ \A k \in 0..w - 1 : ~own'[At(read', k)] /\ attached'[At(read', k)] # NULL
      /\ \A k \in w..N - cnt' - 1 : own'[At(read', k)]
      /\ \A k \in N - cnt'..N - 1 : ~own'[At(read', k)] /\ attached'[At(read', k)] = NULL
  BY DEF Row, At
<1>3. QueueOf(own', attached', addr', content', read') = FramesIn(addr', content', read', w)
  BY <1>1, <1>2, RowQueue
<1> QED BY <1>3, WaitingIs

\* The same of a ring that is the DMA's, after a step.
LEMMA WaitingNothingAfter ==
  ASSUME IInv', \A i \in Index : own'[i]
  PROVE  Waiting' = <<>>
<1>1. read' \in Index /\ N \in Nat /\ N > 0 /\ 0 \in 0..N
  BY Constants DEF IInv, TypeOK
<1>2. own'[At(read', 0)]
  BY <1>1, Around
<1>3. Waiting' = FramesIn(addr', content', read', 0)
  BY <1>1, <1>2, WaitingIs, QueueIs
<1> QED BY <1>3 DEF FramesIn

\* A queue has as many frames as the row is long.
LEMMA FramesAre ==
  ASSUME NEW d, NEW c, NEW r, NEW w \in Nat, NEW X,
         \A k \in 0..w - 1 : c[d[At(r, k)]] \in X
  PROVE  /\ FramesIn(d, c, r, w) \in Seq(X)
         /\ Len(FramesIn(d, c, r, w)) = w
         /\ \A k \in 1..w : FramesIn(d, c, r, w)[k] = c[d[At(r, k - 1)]]
<1>1. \A k \in 1..w : k - 1 \in 0..w - 1
  OBVIOUS
<1>2. FramesIn(d, c, r, w) \in [1..w -> X]
  BY <1>1 DEF FramesIn
<1> QED BY <1>2 DEF FramesIn

\* A frame more is one at the end.
LEMMA OneMoreFrame ==
  ASSUME NEW d, NEW c, NEW r, NEW w \in Nat, NEW C, NEW e,
         \A k \in 0..w - 1 : C[d[At(r, k)]] = c[d[At(r, k)]],
         C[d[At(r, w)]] = e
  PROVE  /\ FramesIn(d, C, r, w + 1) = Append(FramesIn(d, c, r, w), e)
         /\ Len(FramesIn(d, c, r, w)) = w
<1> DEFINE X == {c[d[At(r, k)]] : k \in 0..w - 1} \cup {e}
           q == FramesIn(d, c, r, w)
           p == FramesIn(d, C, r, w + 1)
<1>1. /\ q \in Seq(X) /\ Len(q) = w
      /\ \A k \in 1..w : q[k] = c[d[At(r, k - 1)]]
  <2>1. \A k \in 0..w - 1 : c[d[At(r, k)]] \in X
    OBVIOUS
  <2> HIDE DEF X
  <2> QED BY <2>1, FramesAre
<1>2. /\ p \in Seq(X) /\ Len(p) = w + 1
      /\ \A k \in 1..w + 1 : p[k] = C[d[At(r, k - 1)]]
  <2>1. \A k \in 0..w + 1 - 1 : C[d[At(r, k)]] \in X
    <3> SUFFICES ASSUME NEW k \in 0..w + 1 - 1 PROVE C[d[At(r, k)]] \in X
      OBVIOUS
    <3>1. k = w \/ k \in 0..w - 1
      OBVIOUS
    <3> QED BY <3>1
  <2> HIDE DEF X
  <2> QED BY <2>1, FramesAre
<1>3. e \in X
  OBVIOUS
<1> HIDE DEF X, q, p
<1>4. /\ Append(q, e) \in Seq(X) /\ Len(Append(q, e)) = w + 1
      /\ \A k \in 1..w : Append(q, e)[k] = q[k]
      /\ Append(q, e)[w + 1] = e
  BY <1>1, <1>3, AppendProperties
<1>5. \A k \in 1..w + 1 : p[k] = Append(q, e)[k]
  <2> SUFFICES ASSUME NEW k \in 1..w + 1 PROVE p[k] = Append(q, e)[k]
    OBVIOUS
  <2>1. CASE k = w + 1
    <3>1. k - 1 = w
      BY <2>1
    <3> QED BY <1>2, <1>4, <2>1, <3>1
  <2>2. CASE k \in 1..w
    <3>1. k - 1 \in 0..w - 1
      BY <2>2
    <3> QED BY <1>1, <1>2, <1>4, <2>2, <3>1
  <2>3. k = w + 1 \/ k \in 1..w
    OBVIOUS
  <2> QED BY <2>1, <2>2, <2>3
<1>6. p = Append(q, e)
  BY <1>2, <1>4, <1>5, SeqEqual
<1> QED BY <1>1, <1>6 DEF p, q

\* The first frame is that of the first place.
LEMMA FirstFrame ==
  ASSUME NEW d, NEW c, NEW r, NEW w \in Nat, w > 0
  PROVE  FramesIn(d, c, r, w) # <<>> /\ Head(FramesIn(d, c, r, w)) = c[d[At(r, 0)]]
<1> DEFINE X == {c[d[At(r, k)]] : k \in 0..w - 1}
           q == FramesIn(d, c, r, w)
<1>1. q \in Seq(X) /\ Len(q) = w /\ \A k \in 1..w : q[k] = c[d[At(r, k - 1)]]
  <2>1. ASSUME NEW k \in 1..w PROVE c[d[At(r, k - 1)]] \in X
    <3>1. k - 1 \in 0..w - 1
      OBVIOUS
    <3> QED BY <3>1
  <2> HIDE DEF X
  <2>2. q \in [1..w -> X]
    BY <2>1 DEF FramesIn
  <2> QED BY <2>2 DEF FramesIn
<1> HIDE DEF X, q
<1>2. q[1] = c[d[At(r, 0)]]
  BY <1>1
<1>3. q # <<>> /\ Head(q) = q[1]
  BY <1>1
<1> QED BY <1>2, <1>3 DEF q

\* A frame less is all but the first.
LEMMA OneFrameLess ==
  ASSUME NEW d, NEW c, NEW r, NEW s, NEW v \in Nat,
         \A k \in 0..v - 1 : At(s, k) = At(r, k + 1)
  PROVE  Tail(FramesIn(d, c, r, v + 1)) = FramesIn(d, c, s, v)
<1> DEFINE w == v + 1
           X == {c[d[At(r, k)]] : k \in 0..w - 1}
           q == FramesIn(d, c, r, w)
           p == FramesIn(d, c, s, v)
<1>1. /\ q \in Seq(X) /\ Len(q) = w
      /\ \A k \in 1..w : q[k] = c[d[At(r, k - 1)]]
  <2>1. ASSUME NEW k \in 1..w PROVE c[d[At(r, k - 1)]] \in X
    <3>1. k - 1 \in 0..w - 1
      OBVIOUS
    <3> QED BY <3>1
  <2>2. w \in Nat
    OBVIOUS
  <2> HIDE DEF X, w
  <2>3. q \in [1..w -> X]
    BY <2>1 DEF FramesIn
  <2> QED BY <2>2, <2>3 DEF FramesIn
<1>2. /\ p \in Seq(X) /\ Len(p) = v
      /\ \A k \in 1..v : p[k] = c[d[At(s, k - 1)]]
  <2>1. ASSUME NEW k \in 1..v PROVE c[d[At(s, k - 1)]] \in X
    <3>1. k \in 0..w - 1 /\ k - 1 \in 0..v - 1 /\ (k - 1) + 1 = k
      OBVIOUS
    <3>2. At(s, k - 1) = At(r, k)
      BY <3>1
    <3> QED BY <3>1, <3>2
  <2> HIDE DEF X
  <2>2. p \in [1..v -> X]
    BY <2>1 DEF FramesIn
  <2> QED BY <2>2 DEF FramesIn
<1>w. w \in Nat /\ w = v + 1
  OBVIOUS
<1> HIDE DEF X, q, p, w
<1>3. q # <<>>
  BY <1>1, <1>w
<1>4. /\ Tail(q) \in Seq(X) /\ Len(Tail(q)) = v
      /\ \A k \in 1..v : Tail(q)[k] = q[k + 1]
  BY <1>1, <1>3, <1>w
<1>5. \A k \in 1..v : p[k] = Tail(q)[k]
  <2> SUFFICES ASSUME NEW k \in 1..v PROVE p[k] = Tail(q)[k]
    OBVIOUS
  <2>1. k - 1 \in 0..v - 1 /\ (k - 1) + 1 = k /\ k + 1 \in 1..w /\ (k + 1) - 1 = k
    BY <1>w
  <2>2. At(s, k - 1) = At(r, k)
    BY <2>1
  <2>3. q[k + 1] = c[d[At(r, k)]]
    BY <1>1, <2>1
  <2> QED BY <1>2, <1>4, <2>2, <2>3
<1>6. p = Tail(q)
  BY <1>2, <1>4, <1>5, SeqEqual
<1> QED BY <1>6 DEF p, q, w

\* The DMA fills the descriptor behind the filled ones.
LEMMA ReceiveQueue ==
  ASSUME IInv, Rows, Receive
  PROVE  Rows' /\ [Queue!Next]_(Queue!qvars)
<1>1. /\ started /\ own[dma] /\ arrived' = arrived + 1
      /\ content' = [content EXCEPT ![addr[dma]] = arrived']
      /\ own' = [own EXCEPT ![dma] = FALSE] /\ dma' = Succ(dma)
      /\ addr' = addr /\ attached' = attached /\ started' = started /\ read' = read
      /\ cnt' = cnt /\ last' = last
  BY DEF Receive, driver
<1>2. PICK w \in 0..N : Row(w)
  BY <1>1 DEF Rows
<1>3. /\ N \in Nat /\ N > 0 /\ cnt \in Nat /\ cnt <= N /\ w \in Nat /\ w <= N
      /\ read \in Index /\ dma \in Index /\ own \in [Index -> BOOLEAN]
  BY Places
<1>4. w + cnt < N
  <2>1. w # N
    <3> SUFFICES ASSUME w = N PROVE FALSE
      OBVIOUS
    <3>1. dma = At(read, 0)
      BY <1>2, <1>3, Around DEF Row
    <3> QED BY <1>1, <1>2, <1>3, <3>1 DEF Row
  <2>2. ~(w \in N - cnt..N - 1)
    BY <1>1, <1>2 DEF Row
  <2> QED BY <1>2, <1>3, <2>1, <2>2 DEF Row
<1>5. /\ \A k \in 0..N - 1 : At(read, k) \in Index
      /\ \A k \in 0..N - 1 : At(read, k) = dma => k = w
      /\ w \in 0..N - 1 /\ At(read, w) = dma
      /\ At(read, w + 1) = Succ(dma)
  <2>1. w \in 0..N - 1 /\ At(read, w) = dma
    BY <1>2, <1>3, <1>4 DEF Row
  <2>2. At(read, w + 1) = Succ(dma)
    BY <1>3, <2>1, Around
  <2>3. \A k \in 0..N - 1 : At(read, k) \in Index
    BY <1>3, Around
  <2>4. \A k \in 0..N - 1 : At(read, k) = At(read, w) => k = w
    BY <1>3, <2>1, Around
  <2> QED BY <2>1, <2>2, <2>3, <2>4
<1>6. /\ own'[dma] = FALSE
      /\ \A k \in 0..N - 1 : k # w => own'[At(read, k)] = own[At(read, k)]
  BY <1>1, <1>3, <1>5
<1>7. attached[dma] # NULL /\ addr[dma] = attached[dma] /\ addr[dma] \in Buffers
  BY <1>1, <1>3 DEF IInv, Ring, TypeOK
<1>8. Row(w + 1)'
  <2>1. /\ w + 1 + cnt <= N
        /\ \A k \in 0..w - 1 : ~own[At(read, k)] /\ attached[At(read, k)] # NULL
        /\ \A k \in w..N - cnt - 1 : own[At(read, k)]
        /\ \A k \in N - cnt..N - 1 : ~own[At(read, k)] /\ attached[At(read, k)] = NULL
    BY <1>2, <1>3, <1>4 DEF Row
  <2>2. \A k \in 0..w + 1 - 1 : ~own'[At(read, k)] /\ attached[At(read, k)] # NULL
    <3> SUFFICES ASSUME NEW k \in 0..w + 1 - 1
                 PROVE  ~own'[At(read, k)] /\ attached[At(read, k)] # NULL
      OBVIOUS
    <3>1. k = w \/ (k \in 0..w - 1 /\ k \in 0..N - 1 /\ k # w)
      BY <1>3, <1>4
    <3> QED BY <1>5, <1>6, <1>7, <2>1, <3>1
  <2>3. \A k \in w + 1..N - cnt - 1 : own'[At(read, k)]
    <3> SUFFICES ASSUME NEW k \in w + 1..N - cnt - 1 PROVE own'[At(read, k)]
      OBVIOUS
    <3>1. k \in w..N - cnt - 1 /\ k \in 0..N - 1 /\ k # w
      BY <1>3
    <3> QED BY <1>6, <2>1, <3>1
  <2>4. \A k \in N - cnt..N - 1 : ~own'[At(read, k)] /\ attached[At(read, k)] = NULL
    <3> SUFFICES ASSUME NEW k \in N - cnt..N - 1
                 PROVE  ~own'[At(read, k)] /\ attached[At(read, k)] = NULL
      OBVIOUS
    <3>1. k \in 0..N - 1 /\ k # w
      BY <1>3, <1>4
    <3> QED BY <1>6, <2>1, <3>1
  <2> QED BY <1>1, <1>5, <2>1, <2>2, <2>3, <2>4 DEF Row, At
<1>9. Rows'
  <2>1. w + 1 \in 0..N
    BY <1>3, <1>4
  <2> QED BY <1>1, <1>8, <2>1 DEF Rows
<1>10. Waiting' = Append(Waiting, arrived') /\ Len(Waiting) = w
  <2>1. \A k \in 0..w - 1 : content'[addr[At(read, k)]] = content[addr[At(read, k)]]
    <3> SUFFICES ASSUME NEW k \in 0..w - 1
                 PROVE  content'[addr[At(read, k)]] = content[addr[At(read, k)]]
      OBVIOUS
    <3> DEFINE i == At(read, k)
    <3>1. k \in 0..N - 1 /\ k # w
      BY <1>3
    <3>2. i \in Index /\ i # dma /\ attached[i] # NULL
      BY <1>2, <1>5, <3>1 DEF Row
    <3> HIDE DEF i
    <3>3. addr[i] = attached[i] /\ attached[i] \in Buffers
      BY <3>2 DEF IInv, Ring, TypeOK
    <3>4. attached[i] # attached[dma]
      BY <1>3, <3>2 DEF IInv, BuffersAccounted
    <3>5. addr[i] # addr[dma]
      BY <1>7, <3>3, <3>4
    <3>6. content'[addr[i]] = content[addr[i]]
      BY <1>1, <1>7, <3>3, <3>5 DEF IInv, TypeOK
    <3> QED BY <3>6 DEF i
  <2>2. content'[addr[At(read, w)]] = arrived'
    BY <1>1, <1>5, <1>7 DEF IInv, TypeOK
  <2>3. /\ FramesIn(addr, content', read, w + 1)
             = Append(FramesIn(addr, content, read, w), arrived')
        /\ Len(FramesIn(addr, content, read, w)) = w
    <3>1. /\ \A k \in 0..w - 1 : content'[addr[At(read, k)]] = content[addr[At(read, k)]]
          /\ content'[addr[At(read, w)]] = arrived'
          /\ w \in Nat
      BY <1>3, <2>1, <2>2
    <3>2. FramesIn(addr, content', read, w + 1)
            = Append(FramesIn(addr, content, read, w), arrived')
      BY <3>1, OneMoreFrame
    <3>3. Len(FramesIn(addr, content, read, w)) = w
      BY <3>1, OneMoreFrame
    <3> QED BY <3>2, <3>3
  <2>4. Waiting = FramesIn(addr, content, read, w)
    BY <1>2, WaitingRow
  <2>5. Waiting' = FramesIn(addr, content', read, w + 1)
    <3>1. w + 1 \in 0..N
      BY <1>3, <1>4
    <3>2. Waiting' = FramesIn(addr', content', read', w + 1)
      BY <1>8, <3>1, ReceiveInv, WaitingRowAfter
    <3> QED BY <1>1, <3>2
  <2> QED BY <2>3, <2>4, <2>5
<1>11. Queue!Receive
  BY <1>1, <1>3, <1>4, <1>10 DEF Queue!Receive
<1> QED BY <1>9, <1>11 DEF Queue!Next

\* The driver takes the first of the filled descriptors.
LEMMA ReadQueue ==
  ASSUME IInv, Rows, ReadFrame
  PROVE  Rows' /\ [Queue!Next]_(Queue!qvars)
<1>1. /\ started /\ ~own[read] /\ N - cnt > 0
      /\ last' = content[addr[read]]
      /\ attached' = [attached EXCEPT ![read] = NULL]
      /\ read' = Succ(read) /\ cnt' = cnt + 1
      /\ own' = own /\ addr' = addr /\ content' = content /\ dma' = dma
      /\ started' = started /\ arrived' = arrived
  BY DEF ReadFrame, Reading, Filled, link
<1>2. PICK w \in 0..N : Row(w)
  BY <1>1 DEF Rows
<1>3. /\ N \in Nat /\ N > 0 /\ cnt \in Nat /\ cnt < N /\ w \in Nat /\ w <= N
      /\ read \in Index
      /\ attached \in [Index -> Buffers \cup {NULL}]
  BY <1>1, Places DEF IInv, TypeOK
<1>4. w > 0
  <2> SUFFICES ASSUME w = 0 PROVE FALSE
    BY <1>3
  <2>1. 0 \in w..N - cnt - 1
    BY <1>3
  <2> QED BY <1>1, <1>2, <1>3, <2>1, Around DEF Row
<1>5. PICK v \in Nat : w = v + 1
  <2>1. w - 1 \in Nat /\ w = (w - 1) + 1
    BY <1>3, <1>4
  <2> QED BY <2>1
<1>6. /\ \A k \in 0..N - 1 : At(read', k) = At(read, k + 1)
      /\ \A k \in 1..N - 1 : At(read, k) # read /\ At(read, k) \in Index
      /\ At(read, 0) = read /\ At(read, N) = read
  <2>1. \A k \in 0..N - 1 : At(read', k) = At(read, k + 1)
    BY <1>1, <1>3, Around
  <2>2. At(read, 0) = read /\ At(read, N) = read
    BY <1>3, Around
  <2>3. ASSUME NEW k \in 1..N - 1 PROVE At(read, k) # read /\ At(read, k) \in Index
    <3>1. k \in 0..N - 1 /\ 0 \in 0..N - 1 /\ k # 0
      BY <1>3
    <3>2. At(read, k) # At(read, 0) /\ At(read, k) \in Index
      BY <1>3, <3>1, Around
    <3> QED BY <2>2, <3>2
  <2> QED BY <2>1, <2>2, <2>3
<1>7. /\ attached'[read] = NULL
      /\ \A k \in 1..N - 1 : attached'[At(read, k)] = attached[At(read, k)]
  BY <1>1, <1>3, <1>6
<1>8. Row(v)'
  <2>1. /\ w + cnt <= N
        /\ dma = At(read, w)
        /\ \A k \in 0..w - 1 : ~own[At(read, k)] /\ attached[At(read, k)] # NULL
        /\ \A k \in w..N - cnt - 1 : own[At(read, k)]
        /\ \A k \in N - cnt..N - 1 : ~own[At(read, k)] /\ attached[At(read, k)] = NULL
    BY <1>2 DEF Row
  <2>2. v + cnt' <= N /\ dma' = At(read', v)
    <3>1. v \in 0..N - 1
      BY <1>3, <1>5
    <3> QED BY <1>1, <1>3, <1>5, <1>6, <2>1, <3>1
  <2>3. \A k \in 0..v - 1 : ~own'[At(read', k)] /\ attached'[At(read', k)] # NULL
    <3> SUFFICES ASSUME NEW k \in 0..v - 1
                 PROVE  ~own'[At(read', k)] /\ attached'[At(read', k)] # NULL
      OBVIOUS
    <3>1. k \in 0..N - 1 /\ k + 1 \in 1..N - 1 /\ k + 1 \in 0..w - 1
      BY <1>3, <1>5
    <3> QED BY <1>1, <1>6, <1>7, <2>1, <3>1
  <2>4. \A k \in v..N - (cnt + 1) - 1 : own'[At(read', k)]
    <3> SUFFICES ASSUME NEW k \in v..N - (cnt + 1) - 1 PROVE own'[At(read', k)]
      OBVIOUS
    <3>1. k \in 0..N - 1 /\ k + 1 \in w..N - cnt - 1
      BY <1>3, <1>5
    <3> QED BY <1>1, <1>6, <2>1, <3>1
  <2>5. \A k \in N - (cnt + 1)..N - 1 : ~own'[At(read', k)] /\ attached'[At(read', k)] = NULL
    <3> SUFFICES ASSUME NEW k \in N - (cnt + 1)..N - 1
                 PROVE  ~own'[At(read', k)] /\ attached'[At(read', k)] = NULL
      OBVIOUS
    <3>1. k \in 0..N - 1 /\ (k + 1 = N \/ (k + 1 \in N - cnt..N - 1 /\ k + 1 \in 1..N - 1))
      BY <1>3
    <3>2. At(read', k) = At(read, k + 1)
      BY <1>6, <3>1
    <3>3. CASE k + 1 = N
      BY <1>1, <1>6, <1>7, <3>2, <3>3
    <3>4. CASE k + 1 \in N - cnt..N - 1 /\ k + 1 \in 1..N - 1
      BY <1>1, <1>7, <2>1, <3>2, <3>4
    <3> QED BY <3>1, <3>3, <3>4
  <2> QED BY <1>1, <2>2, <2>3, <2>4, <2>5 DEF Row, At
<1>9. Rows'
  <2>1. v \in 0..N
    BY <1>3, <1>5
  <2> QED BY <1>1, <1>8, <2>1 DEF Rows
<1>10. Waiting # <<>> /\ last' = Head(Waiting) /\ Waiting' = Tail(Waiting)
  <2>1. \A k \in 0..v - 1 : At(read', k) = At(read, k + 1)
    <3>1. \A k \in 0..v - 1 : k \in 0..N - 1
      BY <1>3, <1>5
    <3> QED BY <1>6, <3>1
  <2>2. /\ FramesIn(addr, content, read, w) # <<>>
        /\ Head(FramesIn(addr, content, read, w)) = content[addr[At(read, 0)]]
        /\ Tail(FramesIn(addr, content, read, w)) = FramesIn(addr, content, read', v)
    <3>1. /\ FramesIn(addr, content, read, w) # <<>>
          /\ Head(FramesIn(addr, content, read, w)) = content[addr[At(read, 0)]]
      BY <1>3, <1>4, FirstFrame
    <3>2. Tail(FramesIn(addr, content, read, v + 1)) = FramesIn(addr, content, read', v)
      BY <2>1, OneFrameLess
    <3> QED BY <1>5, <3>1, <3>2
  <2>3. Waiting = FramesIn(addr, content, read, w)
    BY <1>2, WaitingRow
  <2>4. Waiting' = FramesIn(addr, content, read', v)
    <3>1. v \in 0..N
      BY <1>3, <1>5
    <3>2. Waiting' = FramesIn(addr', content', read', v)
      BY <1>8, <3>1, ReadInv, WaitingRowAfter
    <3> QED BY <1>1, <3>2
  <2> QED BY <1>1, <1>6, <2>2, <2>3, <2>4
<1>11. Queue!HandOver
  BY <1>1, <1>10 DEF Queue!HandOver
<1> QED BY <1>9, <1>11 DEF Queue!Next

\* A descriptor is built: in a running ring the first one that lacks a buffer, which is
\* the DMA's again.
LEMMA BuildQueue ==
  ASSUME IInv, Rows, BuildOne
  PROVE  Rows' /\ [Queue!Next]_(Queue!qvars)
<1>1. /\ cnt > 0 /\ own' = [own EXCEPT ![build] = TRUE] /\ cnt' = cnt - 1
      /\ read' = read /\ dma' = dma /\ started' = started /\ arrived' = arrived
      /\ last' = last /\ content' = content
  BY DEF BuildOne, link, loop
<1>2. /\ N \in Nat /\ N > 0 /\ cnt \in Nat /\ cnt <= N /\ read \in Index /\ build \in Index
      /\ build = At(read, N - cnt) /\ own \in [Index -> BOOLEAN]
      /\ addr \in [Index -> Buffers \cup {NULL}] /\ attached \in [Index -> Buffers \cup {NULL}]
  BY Places DEF IInv, TypeOK
<1>3. /\ own'[build] = TRUE
      /\ \A i \in Index : i # build =>
           own'[i] = own[i] /\ attached'[i] = attached[i] /\ addr'[i] = addr[i]
  <2>1. \A i \in Index : i # build => attached'[i] = attached[i] /\ addr'[i] = addr[i]
    BY <1>2 DEF BuildOne
  <2> QED BY <1>1, <1>2, <2>1
<1>4. CASE ~started
  <2>1. dma = read /\ \A i \in Index : own[i]
    BY <1>4 DEF Rows
  <2>2. \A i \in Index : own'[i]
    BY <1>2, <1>3, <2>1
  <2>3. Rows'
    BY <1>1, <1>4, <2>1, <2>2 DEF Rows
  <2>4. Waiting = <<>> /\ Waiting' = <<>>
    BY <2>1, <2>2, WaitingNothing, WaitingNothingAfter, BuildInv
  <2> QED BY <1>1, <1>4, <2>3, <2>4 DEF Queue!qvars
<1>5. CASE started
  <2>1. PICK w \in 0..N : Row(w)
    BY <1>5 DEF Rows
  <2>2. /\ w \in Nat /\ w + cnt <= N /\ dma = At(read, w)
        /\ \A k \in 0..w - 1 : ~own[At(read, k)] /\ attached[At(read, k)] # NULL
        /\ \A k \in w..N - cnt - 1 : own[At(read, k)]
        /\ \A k \in N - cnt..N - 1 : ~own[At(read, k)] /\ attached[At(read, k)] = NULL
    BY <1>2, <2>1 DEF Row
  <2>3. \A k \in 0..N - 1 : k # N - cnt => At(read, k) \in Index /\ At(read, k) # build
    <3>1. N - cnt \in 0..N - 1
      BY <1>1, <1>2
    <3>2. \A k \in 0..N - 1 : At(read, k) \in Index
      BY <1>2, Around
    <3>3. \A k \in 0..N - 1 : At(read, k) = At(read, N - cnt) => k = N - cnt
      BY <1>2, <3>1, Around
    <3> QED BY <1>2, <3>2, <3>3
  <2>4. \A k \in 0..w - 1 : /\ ~own'[At(read, k)] /\ attached'[At(read, k)] # NULL
                            /\ addr'[At(read, k)] = addr[At(read, k)]
    <3> SUFFICES ASSUME NEW k \in 0..w - 1
                 PROVE  /\ ~own'[At(read, k)] /\ attached'[At(read, k)] # NULL
                        /\ addr'[At(read, k)] = addr[At(read, k)]
      OBVIOUS
    <3>1. k \in 0..N - 1 /\ k # N - cnt
      BY <1>2, <2>2
    <3> QED BY <1>3, <2>2, <2>3, <3>1
  <2>5. \A k \in w..N - (cnt - 1) - 1 : own'[At(read, k)]
    <3> SUFFICES ASSUME NEW k \in w..N - (cnt - 1) - 1 PROVE own'[At(read, k)]
      OBVIOUS
    <3>1. k = N - cnt \/ (k \in 0..N - 1 /\ k # N - cnt /\ k \in w..N - cnt - 1)
      BY <1>1, <1>2, <2>2
    <3> QED BY <1>2, <1>3, <2>2, <2>3, <3>1
  <2>6. \A k \in N - (cnt - 1)..N - 1 : ~own'[At(read, k)] /\ attached'[At(read, k)] = NULL
    <3> SUFFICES ASSUME NEW k \in N - (cnt - 1)..N - 1
                 PROVE  ~own'[At(read, k)] /\ attached'[At(read, k)] = NULL
      OBVIOUS
    <3>1. k \in 0..N - 1 /\ k # N - cnt /\ k \in N - cnt..N - 1
      BY <1>1, <1>2
    <3> QED BY <1>3, <2>2, <2>3, <3>1
  <2>7. Row(w)'
    <3>1. w + (cnt - 1) <= N
      BY <1>1, <1>2, <2>2
    <3> QED BY <1>1, <2>2, <2>4, <2>5, <2>6, <3>1 DEF Row, At
  <2>8. Rows'
    BY <1>1, <1>5, <2>7 DEF Rows
  <2>9. Waiting' = Waiting
    <3>1. Waiting = FramesIn(addr, content, read, w)
      BY <2>1, WaitingRow
    <3>2. Waiting' = FramesIn(addr', content', read', w)
      BY <2>7, BuildInv, WaitingRowAfter
    <3>3. \A k \in 1..w : addr'[At(read, k - 1)] = addr[At(read, k - 1)]
      <4>1. \A k \in 1..w : k - 1 \in 0..w - 1
        BY <2>2
      <4> QED BY <2>4, <4>1
    <3>4. FramesIn(addr', content, read, w) = FramesIn(addr, content, read, w)
      BY <3>3 DEF FramesIn
    <3> QED BY <1>1, <3>1, <3>2, <3>4
  <2>10. Queue!Refill
    <3>1. cnt - 1 \in 0..cnt - 1
      BY <1>1, <1>2
    <3> QED BY <1>1, <1>5, <2>9, <3>1 DEF Queue!Refill
  <2> QED BY <2>8, <2>10 DEF Queue!Next
<1> QED BY <1>4, <1>5

\* What leaves the ring and both positions alone leaves the rows.
LEMMA SameQueue ==
  ASSUME Rows, UNCHANGED <<own, addr, attached, content, dma, started, read, cnt>>
  PROVE  Rows' /\ Waiting' = Waiting
<1>1. Rows'
  BY DEF Rows, Row, At
<1>2. Waiting' = Waiting
  BY WaitingIs
<1> QED BY <1>1, <1>2

\* When the ring is built for the first time it is full of room; afterwards the end of
\* building does not show.
LEMMA BuildReturnsQueue ==
  ASSUME IInv, Rows, BuildDone \/ BuildStarved
  PROVE  Rows' /\ [Queue!Next]_(Queue!qvars)
<1>1. /\ pc = "build" /\ started' = (started \/ after = "poll")
      /\ own' = own /\ addr' = addr /\ attached' = attached /\ content' = content
      /\ dma' = dma /\ arrived' = arrived /\ read' = read /\ cnt' = cnt /\ last' = last
  BY DEF BuildDone, BuildStarved, BuildReturns, ring
<1>2. /\ N \in Nat /\ N > 0 /\ cnt \in Nat /\ read \in Index /\ build \in Index
      /\ started \in BOOLEAN
  BY Places DEF IInv, TypeOK
<1>3. CASE started
  <2>1. started' = started
    BY <1>1, <1>2, <1>3
  <2>2. Rows' /\ Waiting' = Waiting
    BY <1>1, <2>1, SameQueue
  <2> QED BY <1>1, <1>3, <2>1, <2>2 DEF Queue!qvars
<1>4. CASE ~started
  <2>1. started' /\ cnt = 0
    <3>1. started'
      BY <1>1, <1>4 DEF IInv, Pace
    <3>2. ~BuildStarved
      <4> SUFFICES ASSUME BuildStarved PROVE FALSE
        OBVIOUS
      <4>1. cnt > 0 /\ attached[build] = NULL /\ pool = {}
        BY DEF BuildStarved
      <4>2. held = {}
        BY <1>2, <1>4, <4>1 DEF IInv, Positions
      <4>3. Buffers \subseteq Attached
        BY <4>1, <4>2, Zenon DEF IInv, BuffersAccounted
      <4> QED BY <1>2, <4>1, <4>3, SomeBufferElsewhere
    <3> QED BY <3>1, <3>2 DEF BuildDone
  <2>2. dma = read /\ \A i \in Index : own[i]
    BY <1>4 DEF Rows
  <2>3. Row(0)'
    <3>1. /\ 0 + 0 <= N /\ dma = At(read, 0)
          /\ \A k \in 0..0 - 1 : ~own[At(read, k)] /\ attached[At(read, k)] # NULL
          /\ \A k \in 0..N - 0 - 1 : own[At(read, k)]
          /\ \A k \in N - 0..N - 1 : ~own[At(read, k)] /\ attached[At(read, k)] = NULL
      <4>1. dma = At(read, 0)
        BY <1>2, <2>2, Around
      <4>2. \A k \in 0..N - 1 : own[At(read, k)]
        BY <1>2, <2>2, Around
      <4> QED BY <1>2, <4>1, <4>2
    <3> QED BY <1>1, <2>1, <3>1 DEF Row, At
  <2>4. Rows'
    <3>1. 0 \in 0..N
      BY <1>2
    <3> QED BY <2>1, <2>3, <3>1 DEF Rows
  <2>5. Waiting = <<>> /\ Waiting' = <<>>
    BY <1>1, <2>2, WaitingNothing, WaitingNothingAfter, BuildReturnsInv
  <2>6. Queue!Refill
    <3>1. 0 \in 0..N - 1
      BY <1>2
    <3> QED BY <1>1, <1>4, <2>1, <2>5, <3>1 DEF Queue!Refill
  <2> QED BY <2>4, <2>6 DEF Queue!Next
<1> QED BY <1>3, <1>4

\* The link goes down with nothing waiting, and comes up with nothing built.
LEMMA LinkQueue ==
  ASSUME IInv, LinkDown => Quiet, Rows, LinkDown \/ LinkUp
  PROVE  Rows' /\ [Queue!Next]_(Queue!qvars)
<1>1. /\ own' = own /\ addr' = addr /\ attached' = attached /\ content' = content
      /\ dma' = dma /\ arrived' = arrived /\ read' = read /\ last' = last
  BY DEF LinkDown, LinkUp, ring, driver, link
<1>2. N \in Nat /\ N > 0 /\ read \in Index
  BY Places
<1>3. CASE LinkDown
  <2>1. started /\ started' = FALSE /\ cnt = 0 /\ \A i \in Index : own[i]
    BY <1>3 DEF LinkDown, Quiet, Built
  <2>2. PICK w \in 0..N : Row(w)
    BY <2>1 DEF Rows
  <2>3. w = 0
    <3> SUFFICES ASSUME w # 0 PROVE FALSE
      OBVIOUS
    <3>1. 0 \in 0..w - 1
      BY <1>2
    <3> QED BY <1>2, <2>1, <2>2, <3>1, Around DEF Row
  <2>4. dma = read
    BY <1>2, <2>2, <2>3, Around DEF Row
  <2>5. Rows'
    BY <1>1, <2>1, <2>4 DEF Rows
  <2>6. Waiting = <<>> /\ Waiting' = <<>>
    BY <1>1, <2>1, <1>3, WaitingNothing, WaitingNothingAfter, LinkInv DEF Quiet
  <2>7. Queue!LinkDown
    BY <1>1, <2>1, <2>6 DEF Queue!LinkDown
  <2> QED BY <2>5, <2>7 DEF Queue!Next
<1>4. CASE LinkUp
  <2>1. ~started /\ started' = started
    BY <1>4 DEF LinkUp, link
  <2>2. dma = read /\ \A i \in Index : own[i]
    BY <2>1 DEF Rows
  <2>3. Rows'
    BY <1>1, <2>1, <2>2 DEF Rows
  <2>4. Waiting = <<>> /\ Waiting' = <<>>
    BY <1>1, <2>2, <1>4, WaitingNothing, WaitingNothingAfter, LinkInv DEF Quiet
  <2> QED BY <1>1, <2>1, <2>3, <2>4 DEF Queue!qvars
<1> QED BY <1>3, <1>4

\* A frame that finds every descriptor filled or waiting for a buffer is lost.
LEMMA LoseQueue ==
  ASSUME IInv, Rows, Lose
  PROVE  Rows' /\ [Queue!Next]_(Queue!qvars)
<1>1. /\ started /\ ~own[dma] /\ arrived' = arrived + 1
      /\ own' = own /\ addr' = addr /\ attached' = attached /\ content' = content
      /\ dma' = dma /\ started' = started /\ read' = read /\ cnt' = cnt /\ last' = last
  BY DEF Lose, ring, driver
<1>2. Rows' /\ Waiting' = Waiting
  BY <1>1, SameQueue
<1>3. PICK w \in 0..N : Row(w)
  BY <1>1 DEF Rows
<1>4. N \in Nat /\ cnt \in Nat /\ w \in Nat
  BY Places
<1>5. w + cnt = N
  <2>1. ~(w \in w..N - cnt - 1)
    BY <1>1, <1>3 DEF Row
  <2> QED BY <1>3, <1>4, <2>1 DEF Row
<1>6. Len(Waiting) = w
  <2>1. Waiting = FramesIn(addr, content, read, w)
    BY <1>3, WaitingRow
  <2> QED BY <1>4, <2>1 DEF FramesIn
<1>7. Queue!Lose
  BY <1>1, <1>2, <1>5, <1>6 DEF Queue!Lose
<1> QED BY <1>2, <1>7 DEF Queue!Next

\* Every step of the driver, the DMA and lwIP is a step of the queue, or does not show.
LEMMA StepQueue ==
  ASSUME IInv, [LinkDown => Quiet]_vars, Rows, [Next]_vars
  PROVE  Rows' /\ [Queue!Next]_(Queue!qvars)
<1>1. CASE ReadNothing \/ ReadRefused \/ StackFrees \/ InputReturns \/ TimersReturn
           \/ UNCHANGED vars
  <2>1. /\ UNCHANGED <<own, addr, attached, content, dma, started, read, cnt>>
        /\ arrived' = arrived /\ last' = last
    BY <1>1 DEF ReadNothing, ReadRefused, StackFrees, Free, InputReturns, TimersReturn,
                vars, ring, link, driver
  <2>2. Rows' /\ Waiting' = Waiting
    BY <2>1, SameQueue
  <2> QED BY <2>1, <2>2 DEF Queue!qvars
<1>2. CASE Receive
  BY <1>2, ReceiveQueue
<1>3. CASE Lose
  BY <1>3, LoseQueue
<1>4. CASE ReadFrame
  BY <1>4, ReadQueue
<1>5. CASE BuildOne
  BY <1>5, BuildQueue
<1>6. CASE BuildDone \/ BuildStarved
  BY <1>6, BuildReturnsQueue
<1>7. CASE LinkDown \/ LinkUp
  <2>1. LinkDown => vars' # vars
    BY DEF LinkDown, vars, link
  <2> QED BY <1>7, <2>1, LinkQueue
<1> QED
  BY <1>1, <1>2, <1>3, <1>4, <1>5, <1>6, <1>7 DEF Next, Loop, Driver

\* The refinement, up to fairness: a ring of any number of descriptors with a pool of any
\* size, of which lwIP keeps buffers as long as it likes, is a queue. Frames come out of
\* HAL_ETH_ReadData once each, in the order of arrival, and one is lost only when every
\* descriptor is filled or lacks a buffer.  The premise is that the link goes down with
\* nothing unread and nothing unbuilt, which the code does not guarantee.
THEOREM QueueService ==
  Spec /\ QuietWhenDown => Queue!Init /\ [][Queue!Next]_(Queue!qvars)
<1>1. Init => Rows /\ Queue!Init
  <2> SUFFICES ASSUME Init PROVE Rows /\ Queue!Init
    OBVIOUS
  <2>1. /\ dma = read /\ ~started /\ arrived = 0 /\ last = 0
        /\ \A i \in Index : own[i]
    BY DEF Init
  <2>2. Waiting = <<>>
    BY <2>1, InitInv, WaitingNothing
  <2> QED BY <2>1, <2>2 DEF Rows, Queue!Init
<1>2. IInv /\ Rows /\ [Next]_vars /\ [LinkDown => Quiet]_vars
        => Rows' /\ [Queue!Next]_(Queue!qvars)
  BY StepQueue
<1>3. [LinkDown => Quiet]_vars => [LinkDown => Built]_vars
  BY DEF Quiet
<1>4. QuietWhenDown => BuiltWhenDown
  BY <1>3, PTL DEF QuietWhenDown, BuiltWhenDown
<1> QED
  BY <1>1, <1>2, <1>4, Invariance, PTL DEF Spec, QuietWhenDown
================================================================================
