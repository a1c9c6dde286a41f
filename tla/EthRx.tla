--------------------------------- MODULE EthRx ---------------------------------
(***************************************************************************)
(* The Ethernet receive path: the ring of DMA descriptors of the HAL       *)
(* (HAL_ETH_ReadData and ETH_UpdateDescriptor in stm32f7xx_hal_eth.c), the *)
(* pool of receive buffers and the link supervision of                     *)
(* LWIP/Target/ethernetif.c, called from the main loop.                    *)
(*                                                                         *)
(* The DMA fills the descriptors it owns while the loop runs.  The loop    *)
(* takes filled ones, hands their buffers to lwIP without copying, and     *)
(* attaches new buffers from a pool; lwIP gives buffers back whenever it   *)
(* likes.  An empty pool stops reading until one comes back.               *)
(*                                                                         *)
(* A frame is its number on the wire and fits one buffer (1536 bytes).     *)
(***************************************************************************)
EXTENDS Naturals, Sequences, FiniteSets

CONSTANTS
  N,                     \* ETH_RX_DESC_CNT: 4
  Buffers,               \* RX_POOL: 12 buffers
  NULL,
  Unplug,                \* when the link may go down: "idle" only with every descriptor
                         \* empty and built, or "any" time, as in the code
  MaxFrames              \* bound: frames on the wire

ASSUME EthAssumption ==
  /\ N \in Nat \ {0}
  /\ IsFiniteSet(Buffers) /\ Cardinality(Buffers) >= N
  /\ NULL \notin Buffers
  /\ Unplug \in {"idle", "any"}
  /\ MaxFrames \in Nat

Index == 0..N - 1
Succ(i) == IF i + 1 = N THEN 0 ELSE i + 1      \* INCR_RX_DESC_INDEX

VARIABLES
  \* the descriptors and the buffers, which the DMA works on as well
  own,                   \* the bit OWN of DESC0: the descriptor is the DMA's
  addr,                  \* DESC2: where the DMA writes
  attached,              \* BackupAddr0: the buffer the driver has attached
  content,               \* the frame in a buffer; 0: none
  dma,                   \* the DMA's position in the ring
  started,               \* does it run?  (gState, and the netif's link flag)
  arrived,               \* frames seen on the wire
  \* the driver
  read,                  \* RxDescList.RxDescIdx
  build,                 \* RxDescList.RxBuildDescIdx
  cnt,                   \* RxDescList.RxBuildDescCnt
  status,                \* RxAllocStatus
  pool,                  \* free buffers of RX_POOL
  held,                  \* buffers on their way to lwIP and in lwIP
  last,                  \* the last frame handed over
  \* the main loop
  pc,                    \* "poll", "build", "input", "timers"
  after                  \* where pc goes from "build"

ring   == <<own, addr, attached, content>>
link   == <<dma, started, arrived>>
driver == <<read, build, cnt, status, pool, held, last>>
loop   == <<pc, after>>
vars   == <<ring, link, driver, loop>>

TypeOK ==
  /\ own \in [Index -> BOOLEAN]
  /\ addr \in [Index -> Buffers \cup {NULL}]
  /\ attached \in [Index -> Buffers \cup {NULL}]
  /\ content \in [Buffers -> 0..MaxFrames]
  /\ dma \in Index /\ read \in Index /\ build \in Index
  /\ started \in BOOLEAN
  /\ arrived \in 0..MaxFrames /\ last \in 0..MaxFrames
  /\ cnt \in 0..N
  /\ status \in {"OK", "ERROR"}
  /\ pool \subseteq Buffers /\ held \subseteq Buffers
  /\ pc \in {"poll", "build", "input", "timers"}
  /\ after \in {"poll", "input", "timers"}

\* After HAL_ETH_Init, in front of the first look at the link.
Init ==
  /\ own = [i \in Index |-> TRUE]
  /\ addr = [i \in Index |-> NULL]
  /\ attached = [i \in Index |-> NULL]
  /\ content = [b \in Buffers |-> 0]
  /\ dma = 0 /\ read = 0 /\ build = 0
  /\ started = FALSE
  /\ arrived = 0 /\ last = 0
  /\ cnt = 0
  /\ status = "OK"
  /\ pool = Buffers /\ held = {}
  /\ pc = "timers" /\ after = "timers"

-------------------------------------------------------------------------------
\* The DMA puts a frame into the descriptor it has reached, when that is its own.
Receive ==
  /\ started /\ arrived < MaxFrames
  /\ own[dma]
  /\ arrived' = arrived + 1
  /\ content' = [content EXCEPT ![addr[dma]] = arrived']
  /\ own' = [own EXCEPT ![dma] = FALSE]
  /\ dma' = Succ(dma)
  /\ UNCHANGED <<addr, attached, started, driver, loop>>

\* Otherwise the frame is lost.
Lose ==
  /\ started /\ arrived < MaxFrames
  /\ ~own[dma]
  /\ arrived' = arrived + 1
  /\ UNCHANGED <<ring, dma, started, driver, loop>>

-------------------------------------------------------------------------------
\* low_level_input goes into HAL_ETH_ReadData.
Reading == pc = "poll" /\ status = "OK" /\ started

\* A filled descriptor is taken, as long as not all of them wait to be built.
Filled == ~own[read] /\ N - cnt > 0

\* Mutant: the descriptor keeps its buffer.
ReadWithoutDetaching ==
  /\ Reading /\ Filled
  /\ held' = held \cup {addr[read]}
  /\ last' = content[addr[read]]
  /\ read' = Succ(read)
  /\ cnt' = cnt + 1
  /\ pc' = "build" /\ after' = "input"
  /\ UNCHANGED <<ring, link, build, status, pool>>

ReadFrame ==
  /\ Reading /\ Filled
  /\ held' = held \cup {addr[read]}
  /\ last' = content[addr[read]]
  /\ attached' = [attached EXCEPT ![read] = NULL]
  /\ read' = Succ(read)
  /\ cnt' = cnt + 1
  /\ pc' = "build" /\ after' = "input"
  /\ UNCHANGED <<own, addr, content, link, build, status, pool>>

ReadNothing ==
  /\ Reading /\ ~Filled
  /\ pc' = (IF cnt = 0 THEN "timers" ELSE "build") /\ after' = "timers"
  /\ UNCHANGED <<ring, link, driver>>

\* The link is down, or the pool was empty and no buffer has come back.
ReadRefused ==
  /\ pc = "poll" /\ ~(status = "OK" /\ started)
  /\ pc' = "timers"
  /\ UNCHANGED <<ring, link, driver, after>>

\* One round of ETH_UpdateDescriptor: a descriptor that lacks a buffer gets one,
\* and is given to the DMA.
BuildOne ==
  /\ pc = "build" /\ cnt > 0
  /\ \/ attached[build] # NULL /\ UNCHANGED <<addr, attached, pool>>
     \/ /\ attached[build] = NULL
        /\ \E b \in pool :
             /\ pool' = pool \ {b}
             /\ addr' = [addr EXCEPT ![build] = b]
             /\ attached' = [attached EXCEPT ![build] = b]
  /\ own' = [own EXCEPT ![build] = TRUE]
  /\ build' = Succ(build)
  /\ cnt' = cnt - 1
  /\ UNCHANGED <<content, link, read, status, held, last, loop>>

BuildReturns ==
  /\ pc' = after
  /\ started' = (started \/ after = "poll")          \* HAL_ETH_Start sets SR then
  /\ UNCHANGED <<ring, dma, arrived, read, build, cnt, pool, held, last, after>>

BuildDone ==
  /\ pc = "build" /\ cnt = 0
  /\ BuildReturns
  /\ UNCHANGED status

\* HAL_ETH_RxAllocateCallback finds the pool empty.
BuildStarved ==
  /\ pc = "build" /\ cnt > 0 /\ attached[build] = NULL /\ pool = {}
  /\ status' = "ERROR"
  /\ BuildReturns

\* Mutant: the flag is left to the next poll.
FreeSilently(b) ==
  /\ pc \in {"input", "timers"} /\ b \in held
  /\ held' = held \ {b}
  /\ pool' = pool \cup {b}
  /\ UNCHANGED <<ring, link, read, build, cnt, status, last, loop>>

\* pbuf_free_custom, from lwIP's input processing and its timers.
Free(b) ==
  /\ pc \in {"input", "timers"} /\ b \in held
  /\ held' = held \ {b}
  /\ pool' = pool \cup {b}
  /\ status' = "OK"
  /\ UNCHANGED <<ring, link, read, build, cnt, last, loop>>

StackFrees == \E b \in Buffers : Free(b)

\* netif->input returns, and the loop of ethernetif_input goes on.
InputReturns ==
  /\ pc = "input"
  /\ pc' = "poll"
  /\ UNCHANGED <<ring, link, driver, after>>

\* sys_check_timeouts returns and the link is as it was, or is not looked at.
TimersReturn ==
  /\ pc = "timers"
  /\ pc' = "poll"
  /\ UNCHANGED <<ring, link, driver, after>>

\* Every descriptor has its buffer; and nothing waits to be read.
Built == cnt = 0
Quiet == Built /\ \A i \in Index : own[i]

\* ethernet_link_check_state: HAL_ETH_Stop.
LinkDown ==
  /\ pc = "timers" /\ started
  /\ Unplug = "idle" => Quiet
  /\ started' = FALSE
  /\ pc' = "poll"
  /\ UNCHANGED <<ring, dma, arrived, driver, after>>

\* Mutant: the driver begins at the top of the ring again, and the DMA does not.
LinkUpFromTheTop ==
  /\ pc = "timers" /\ ~started
  /\ cnt' = N
  /\ read' = 0 /\ build' = 0
  /\ pc' = "build" /\ after' = "poll"
  /\ UNCHANGED <<ring, link, status, pool, held, last>>

\* ethernet_link_check_state: HAL_ETH_Start, which builds every descriptor.
LinkUp ==
  /\ pc = "timers" /\ ~started
  /\ cnt' = N
  /\ pc' = "build" /\ after' = "poll"
  /\ UNCHANGED <<ring, link, read, build, status, pool, held, last>>

Driver == ReadFrame \/ ReadNothing \/ ReadRefused \/ BuildOne \/ BuildDone \/ BuildStarved
Loop   == Driver \/ InputReturns \/ TimersReturn

Next == Receive \/ Lose \/ Loop \/ StackFrees \/ LinkDown \/ LinkUp

Spec == Init /\ [][Next]_vars

\* The main loop never stops; the link comes back; and lwIP, whose reassembly and
\* out-of-order queues time out, does not keep every buffer for ever.
FairSpec ==
  /\ Spec
  /\ WF_vars(Loop)
  /\ SF_vars(LinkUp)
  /\ SF_vars(StackFrees)

-------------------------------------------------------------------------------
Attached == {attached[i] : i \in Index} \ {NULL}

\* Every buffer is in one place: free, attached to one descriptor, or with lwIP.
\* None leaks, and the DMA is given none that lwIP reads.
BuffersAccounted ==
  /\ pool \cup Attached \cup held = Buffers
  /\ pool \cap Attached = {} /\ pool \cap held = {} /\ Attached \cap held = {}
  /\ \A i, j \in Index : attached[i] = attached[j] /\ attached[i] # NULL => i = j
  /\ \A i \in Index : own[i] /\ started => addr[i] = attached[i] /\ addr[i] # NULL

\* Reading is never stopped with nobody left to resume it: a buffer that lwIP holds
\* will come back and clear the flag.  Till then just one descriptor lacks a buffer,
\* and the DMA goes on with the others.
RecoveryPossible == status = "ERROR" => held # {} /\ cnt = 1

\* low_level_input allocates the pbuf it returns (ethernetif.c:311): it is none that
\* lwIP has already, or has given back.
BufferHandedOverOnce == [][read' # read => addr[read] \notin held \cup pool]_vars

-------------------------------------------------------------------------------
\* The k-th descriptor from where the driver reads.
Behind(k) == IF read + k < N THEN read + k ELSE read + k - N

\* Descriptors filled and not yet taken, from there on.
Waiting ==
  LET full == {k \in 0..N - 1 : \A j \in 0..k : ~own[Behind(j)] /\ attached[Behind(j)] # NULL}
  IN  [k \in 1..Cardinality(full) |-> content[addr[Behind(k - 1)]]]

Queue == INSTANCE FrameQueue WITH
  Slots   <- N,
  waiting <- Waiting,
  short   <- IF started THEN cnt ELSE N

\* The ring, the zero-copy buffers and the pauses for an empty pool do not show: the
\* driver is a queue that loses frames only when it is full or short of buffers, and
\* what it has received it hands over.
QueueSpec == Queue!Spec
================================================================================
