------------------------------- MODULE XtmRx -------------------------------
(***************************************************************************)
(* The receive side of the ADSL transport driver (bcmxtmrt.c).  Buffer     *)
(* descriptors (BDs) of packets and cells go round between a free queue,   *)
(* the DMA engine, a receive queue and the network stack; a packet's       *)
(* socket buffer header comes from a list of its own.  BDs are told apart  *)
(* only by the queue they are in, so queues are counts.  The interrupt     *)
(* handler may run between two steps of a softirq (poll, timer) or of a    *)
(* process, a softirq between two steps of a process.                      *)
(***************************************************************************)
EXTENDS Integers, FiniteSets

CONSTANTS
  D,       \* network devices 1 .. D, in the order of pDevCtxs
  N,       \* ulQLen of the packet queues: the number of packet BDs
  M,       \* ulQLen of the cell queues
  Weight,  \* the largest work_to_do of a poll
  U32      \* 2^32, the range of the unsigned budget

ASSUME XtmRxAssumption ==
  /\ D \in Nat \ {0} /\ N \in Nat \ {0} /\ M \in Nat \ {0} /\ Weight \in Nat \ {0}
  /\ U32 \in Nat /\ U32 > Weight

Devs == 1 .. D

VARIABLES
  freePkt, freeCell,  \* BDs in the free queues
  rx,                 \* entries of the packet receive queue with one BD and with two chained
  rxCell,             \* entries of the cell receive queue
  rxTail,             \* ulQTail of the packet receive queue
  freeSkbs,           \* headers on pFreeRxSkbList
  held,               \* packets in the stack, header and data
  clones,             \* data in the stack whose header went back before it
  bare,               \* headers in the stack whose data went back before them
  fs,                 \* bcmxtmrt_freeskbordata in progress, and what it leaves to do
  irqOn,              \* the ATM interrupt is enabled
  sched,              \* devices on the poll list
  dev,                \* each device: down, up, or closing and still XTMRT_DEV_OPENED
  poll,               \* the poll in progress
  oops,               \* pFreeRxSkbList was empty when a header was taken from it
  leaked,             \* history: packet BDs that were put back nowhere
  clash,              \* history: the handler filled the free queue inside a QueueAdd
  missed,             \* history: the schedule of the last interrupt was refused
  spare               \* history: headers beyond one for each packet BD, 1 or 0

bds == <<freePkt, freeCell, rx, rxCell, rxTail>>
stack == <<freeSkbs, held, clones, bare, fs>>
net == <<sched, dev>>
hist == <<leaked, clash, missed, spare>>
vars == <<bds, stack, irqOn, net, poll, oops, hist>>

NoPoll == [pc |-> "none", dev |-> 1, work |-> 0, budget |-> 0, good |-> 0, proc |-> 0]

\* After DoGlobInitReq, with one header more than there are packet BDs, or with none
\* more: that the allocation of the additional header failed is not noticed.
Init ==
  /\ spare \in 0 .. 1
  /\ freePkt = N /\ freeCell = M
  /\ rx = [c \in 1 .. 2 |-> 0] /\ rxCell = 0 /\ rxTail = 0
  /\ freeSkbs = N + spare /\ held = 0 /\ clones = 0 /\ bare = 0 /\ fs = "none"
  /\ irqOn = TRUE
  /\ sched = {} /\ dev = [d \in Devs |-> "down"]
  /\ poll = NoPoll /\ oops = FALSE
  /\ leaked = 0 /\ clash = FALSE /\ missed = FALSE

\* What follows a failure of the driver is not followed.
Alive == ~oops /\ ~clash

\* QueueAdd drops what finds the queue full.
UpTo(n, max) == IF n <= max THEN n ELSE max
QueueAdd(f, len) == UpTo(f + 1, len)

\* A data buffer is inside QueueAdd, between the read of ulQHead and the locked part.
InAdd == fs \in {"whole", "expand", "clone"}

\* Where a softirq, and where a process, can make a step.
Soft == Alive /\ ~InAdd
Process == Alive /\ poll.pc = "none"

-----------------------------------------------------------------------------
\* The DMA engine takes the BDs of a packet or of a cell from the free queue.
arrive_pkt(c) ==
  /\ Alive /\ freePkt >= c
  /\ freePkt' = freePkt - c
  /\ rx' = [rx EXCEPT ![c] = @ + 1]
  /\ UNCHANGED <<freeCell, rxCell, rxTail, stack, irqOn, net, poll, oops, hist>>

arrive_cell ==
  /\ Alive /\ freeCell > 0
  /\ freeCell' = freeCell - 1
  /\ rxCell' = rxCell + 1
  /\ UNCHANGED <<freePkt, rx, rxTail, stack, irqOn, net, poll, oops, hist>>

Arrive == arrive_cell \/ \E c \in 1 .. 2 : arrive_pkt(c)

-----------------------------------------------------------------------------
\* The interrupt handler, masked before it was called.  Watchdogs of the queues, errors
\* and the transmit queues raise the interrupt too, so it may come at any time.  The
\* handler asks for a poll of the first open device, which netif_rx_schedule refuses
\* while dev_close is under way.
Opened == {d \in Devs : dev[d] # "down"}
First(d) == d \in Opened /\ \A e \in Opened : d <= e

bcmxtmrt_isr(d) ==
  /\ Alive /\ irqOn
  /\ First(d)
  /\ irqOn' = FALSE
  /\ sched' = IF dev[d] = "up" THEN sched \cup {d} ELSE sched
  /\ missed' = (d \notin sched')
  /\ UNCHANGED <<bds, stack, dev, poll, oops, leaked, clash, spare>>

\* No device is open: the handler empties the receive queues itself and enables the
\* interrupt again.  Of a chain only the first BD goes back.
isr_drain ==
  /\ Alive /\ irqOn
  /\ Opened = {}
  /\ LET entries == rx[1] + rx[2]
     IN  /\ freePkt' = UpTo(freePkt + entries, N)
         /\ rxTail' = (rxTail + entries) % (N + 1)
         /\ clash' = (InAdd /\ entries > 0)
  /\ freeCell' = UpTo(freeCell + rxCell, M)
  /\ rx' = [c \in 1 .. 2 |-> 0] /\ rxCell' = 0
  /\ leaked' = leaked + rx[2]
  /\ UNCHANGED <<stack, irqOn, net, poll, oops, missed, spare>>

-----------------------------------------------------------------------------
\* bcmxtmrt_poll, called by net_rx_action for a device on the poll list: the cell
\* queue first, unless it is empty, and the packet queue only when cells were left.
RxTask(d, w, q) == [pc |-> q, dev |-> d, work |-> w, budget |-> w, good |-> 0, proc |-> 0]
RxPktMax == poll.work + poll.work \div 2

poll_start(d, w) ==
  /\ Soft /\ poll.pc = "none"
  /\ d \in sched
  /\ poll' = RxTask(d, w, IF rxCell > 0 THEN "cells" ELSE "pkts")
  /\ UNCHANGED <<bds, stack, irqOn, net, oops, hist>>

\* bcmxtmrt_rxtask on a cell: it goes to the OAM handler or nowhere (n = 0), or is
\* discarded because no device has its VCID (n = 1), which alone is counted.  At the
\* limit pBd is what followed the cell in its chain: when that is NULL (null) rxtask
\* reports the queue as empty and the poll completes without a look at the packets.
rx_cell(n, null) ==
  /\ Soft /\ poll.pc = "cells" /\ rxCell > 0
  /\ rxCell' = rxCell - 1
  /\ freeCell' = QueueAdd(freeCell, M)
  /\ poll' = IF n = 0 \/ poll.proc + n < RxPktMax THEN [poll EXCEPT !.proc = @ + n]
             ELSE IF null THEN [poll EXCEPT !.pc = "complete"]
             ELSE RxTask(poll.dev, poll.work, "pkts")
  /\ UNCHANGED <<freePkt, rx, rxTail, stack, irqOn, net, oops, hist>>

\* The cell queue is empty: XTM_POLL_DONE, and the packet queue is not looked at.
cells_done ==
  /\ Soft /\ poll.pc = "cells" /\ rxCell = 0
  /\ poll' = [poll EXCEPT !.pc = "complete"]
  /\ UNCHANGED <<bds, stack, irqOn, net, oops, hist>>

pkts_done ==
  /\ Soft /\ poll.pc = "pkts" /\ rx[1] + rx[2] = 0
  /\ poll' = [poll EXCEPT !.pc = "complete"]
  /\ UNCHANGED <<bds, stack, irqOn, net, oops, hist>>

\* rxtask goes on with the next packet, or leaves its loop: then the poll is over if
\* the work is done or pBd is NULL, and is called again otherwise.
Continue(p, leaves, null) ==
  poll' = IF ~leaves THEN p
          ELSE IF null \/ p.good >= p.work THEN [p EXCEPT !.pc = "complete"] ELSE NoPoll

\* The counters of packets stop where a larger value makes no difference.
Processed(n) == [poll EXCEPT !.proc = UpTo(@ + n, RxPktMax)]

QueueRemove(c) ==
  /\ Soft /\ poll.pc = "pkts" /\ rx[c] > 0
  /\ rx' = [rx EXCEPT ![c] = @ - 1]
  /\ rxTail' = (rxTail + 1) % (N + 1)

\* Faulty variant of rx_discard: only the first BD of a chain goes back.
DiscardFirst(c, null) ==
  /\ QueueRemove(c)
  /\ freePkt' = QueueAdd(freePkt, N)
  /\ Continue(Processed(c), poll.proc + c >= RxPktMax, null)
  /\ UNCHANGED <<freeCell, rxCell, stack, irqOn, net, oops, hist>>

\* No device has the VCID, or the BD is the first of a chain: all BDs go back.  pBd
\* is then the BD that followed the last one, NULL when the engine left a 0 there.
rx_discard(c, null) ==
  /\ QueueRemove(c)
  /\ freePkt' = IF c = 1 THEN QueueAdd(freePkt, N) ELSE QueueAdd(QueueAdd(freePkt, N), N)
  /\ Continue(Processed(c), poll.proc + c >= RxPktMax, null)
  /\ UNCHANGED <<freeCell, rxCell, stack, irqOn, net, oops, hist>>

\* An AAL5 error: at the limit the loop is left before the BD is put back.
rx_error ==
  /\ QueueRemove(1)
  /\ LET full == poll.proc + 1 >= RxPktMax
     IN  /\ Continue(Processed(1), full, FALSE)
         /\ freePkt' = IF full THEN freePkt ELSE QueueAdd(freePkt, N)
         /\ leaked' = IF full THEN leaked + 1 ELSE leaked
  /\ UNCHANGED <<freeCell, rxCell, stack, irqOn, net, oops, clash, missed, spare>>

\* A cell error without an AAL5 error: ProcessReceiveCellQueue drops the packet.
rx_dropped ==
  /\ QueueRemove(1)
  /\ freePkt' = QueueAdd(freePkt, N)
  /\ UNCHANGED <<freeCell, rxCell, stack, irqOn, net, poll, oops, hist>>

\* A packet takes the first header of the list and goes to blog_init, which consumes
\* it or not, or to the stack.  It stays in the stack or is freed there at once.
rx_good(consumed, stays) ==
  /\ QueueRemove(1) /\ freeSkbs > 0
  /\ LET p == [Processed(1) EXCEPT !.good = UpTo(@ + 1, poll.work),
                                   !.budget = (@ - 1) % U32]
     IN  Continue(p, ~consumed /\ p.budget = 0, FALSE)
  /\ IF stays THEN /\ held' = held + 1 /\ freeSkbs' = freeSkbs - 1
                   /\ UNCHANGED freePkt
              ELSE /\ freePkt' = QueueAdd(freePkt, N)
                   /\ UNCHANGED <<held, freeSkbs>>
  /\ UNCHANGED <<freeCell, rxCell, clones, bare, fs, irqOn, net, oops, hist>>

\* The list of headers is empty and its first element is read all the same.
rx_oops ==
  /\ QueueRemove(1) /\ freeSkbs = 0
  /\ oops' = TRUE
  /\ UNCHANGED <<freePkt, freeCell, rxCell, stack, irqOn, net, poll, hist>>

\* Faulty variant of poll_complete: the device stays on the poll list.
CompleteForgets ==
  /\ Soft /\ poll.pc = "complete"
  /\ poll' = [poll EXCEPT !.pc = "ack"]
  /\ UNCHANGED <<bds, stack, irqOn, net, oops, hist>>

poll_complete ==
  /\ Soft /\ poll.pc = "complete"
  /\ sched' = sched \ {poll.dev}
  /\ poll' = [poll EXCEPT !.pc = "ack"]
  /\ UNCHANGED <<bds, stack, irqOn, dev, oops, hist>>

\* Faulty variant of poll_ack: the interrupt is not enabled again.
AckMasked ==
  /\ Soft /\ poll.pc = "ack"
  /\ poll' = NoPoll
  /\ UNCHANGED <<bds, stack, irqOn, net, oops, hist>>

\* The interrupt is enabled again.  The status bits that are cleared with it are not
\* modelled: which of the arrivals since the start of the poll still raise an
\* interrupt is left open, as the interrupt may come whenever it is enabled.
poll_ack ==
  /\ Soft /\ poll.pc = "ack"
  /\ irqOn' = TRUE
  /\ missed' = FALSE
  /\ poll' = NoPoll
  /\ UNCHANGED <<bds, stack, net, oops, leaked, clash, spare>>

PollStep ==
  \/ poll_complete \/ poll_ack
  \/ cells_done \/ \E n \in 0 .. 1, null \in BOOLEAN : rx_cell(n, null)
  \/ pkts_done \/ rx_error \/ rx_dropped \/ rx_oops
  \/ \E c \in 1 .. 2, null \in BOOLEAN : rx_discard(c, null)
  \/ \E consumed, stays \in BOOLEAN : rx_good(consumed, stays)

\* The part of bcmxtmrt_timer that concerns receive: the open devices are scheduled,
\* as far as netif_rx_schedule lets them, when the last entry of the queue is next.
bcmxtmrt_timer ==
  /\ Soft /\ poll.pc = "none"
  /\ rxTail = N
  /\ sched' = sched \cup {d \in Devs : dev[d] = "up"}
  /\ UNCHANGED <<bds, stack, irqOn, dev, poll, oops, hist>>

-----------------------------------------------------------------------------
\* The network stack frees a packet: its data and then its header.  Each of the two
\* calls of bcmxtmrt_freeskbordata disables softirqs, and neither disables interrupts
\* before QueueAdd has read the head.  A softirq frees a packet in one step (free_soft):
\* an interrupt inside its QueueAdd does what one inside that of a process does.
free_data(why) ==
  /\ Process /\ fs = "none"
  /\ IF why = "clone" THEN clones > 0 /\ clones' = clones - 1 /\ UNCHANGED held
                      ELSE held > 0 /\ held' = held - 1 /\ UNCHANGED clones
  /\ fs' = why
  /\ UNCHANGED <<bds, freeSkbs, bare, irqOn, net, poll, oops, hist>>

free_add ==
  /\ Process /\ InAdd
  /\ freePkt' = QueueAdd(freePkt, N)
  /\ fs' = IF fs = "whole" THEN "header" ELSE "none"
  /\ bare' = IF fs = "expand" THEN bare + 1 ELSE bare
  /\ UNCHANGED <<freeCell, rx, rxCell, rxTail, freeSkbs, held, clones>>
  /\ UNCHANGED <<irqOn, net, poll, oops, hist>>

\* Faulty variant of free_header: the header is not put back on the list.
HeaderLost ==
  /\ Process /\ fs = "header"
  /\ fs' = "none"
  /\ UNCHANGED <<bds, freeSkbs, held, clones, bare, irqOn, net, poll, oops, hist>>

free_header ==
  /\ Process /\ fs = "header"
  /\ fs' = "none"
  /\ freeSkbs' = freeSkbs + 1
  /\ UNCHANGED <<bds, held, clones, bare, irqOn, net, poll, oops, hist>>

\* The header of a packet whose data a clone still uses.
free_cloned ==
  /\ Process /\ held > 0
  /\ held' = held - 1 /\ clones' = clones + 1
  /\ freeSkbs' = freeSkbs + 1
  /\ UNCHANGED <<bds, bare, fs, irqOn, net, poll, oops, hist>>

\* The header of a packet whose data pskb_expand_head has replaced.
free_bare ==
  /\ Process /\ bare > 0
  /\ bare' = bare - 1
  /\ freeSkbs' = freeSkbs + 1
  /\ UNCHANGED <<bds, held, clones, fs, irqOn, net, poll, oops, hist>>

free_soft ==
  /\ Soft /\ poll.pc = "none" /\ held > 0
  /\ held' = held - 1
  /\ freePkt' = QueueAdd(freePkt, N)
  /\ freeSkbs' = freeSkbs + 1
  /\ UNCHANGED <<freeCell, rx, rxCell, rxTail, clones, bare, fs, irqOn, net, poll, oops, hist>>

-----------------------------------------------------------------------------
\* dev_open and dev_close of the network core around bcmxtmrt_open and _close: a
\* device that is being closed is closed in the driver when no poll is due.
bcmxtmrt_open(d) ==
  /\ Process /\ dev[d] = "down"
  /\ dev' = [dev EXCEPT ![d] = "up"]
  /\ UNCHANGED <<bds, stack, irqOn, sched, poll, oops, hist>>

dev_close(d) ==
  /\ Process /\ dev[d] = "up"
  /\ dev' = [dev EXCEPT ![d] = "closing"]
  /\ UNCHANGED <<bds, stack, irqOn, sched, poll, oops, hist>>

bcmxtmrt_close(d) ==
  /\ Process /\ dev[d] = "closing" /\ d \notin sched
  /\ dev' = [dev EXCEPT ![d] = "down"]
  /\ UNCHANGED <<bds, stack, irqOn, sched, poll, oops, hist>>

StackStep ==
  \/ \E why \in {"whole", "expand", "clone"} : free_data(why)
  \/ free_add \/ free_header \/ free_cloned \/ free_bare \/ free_soft

Next ==
  \/ Arrive \/ isr_drain \/ PollStep \/ StackStep \/ bcmxtmrt_timer
  \/ \E d \in Devs : \/ bcmxtmrt_isr(d) \/ bcmxtmrt_open(d)
                     \/ dev_close(d) \/ bcmxtmrt_close(d)
                     \/ \E w \in 1 .. Weight : poll_start(d, w)

Spec == Init /\ [][Next]_vars

\* A softirq runs to its end, a process leaves QueueAdd, every device
\* on the poll list gets its turn, and dev_close looks again and again.
Fairness ==
  /\ WF_vars(PollStep) /\ SF_vars(free_add)
  /\ \A d \in Devs : /\ SF_vars(\E w \in 1 .. Weight : poll_start(d, w))
                     /\ SF_vars(bcmxtmrt_close(d))

FairSpec == Spec /\ Fairness

-----------------------------------------------------------------------------
\* Every queue and counter keeps within its limits; in particular a free queue never
\* holds more than its ulQLen BDs.
TypeOK ==
  /\ freePkt \in 0 .. N /\ freeCell \in 0 .. M /\ rxCell \in 0 .. M
  /\ rx \in [1 .. 2 -> 0 .. N] /\ rxTail \in 0 .. N
  /\ freeSkbs \in 0 .. N + 1 /\ held \in 0 .. N /\ clones \in 0 .. N
  /\ bare \in 0 .. N + 1 /\ leaked \in 0 .. N /\ spare \in 0 .. 1
  /\ fs \in {"none", "whole", "expand", "clone", "header"}
  /\ sched \subseteq Devs
  /\ dev \in [Devs -> {"down", "up", "closing"}]
  /\ poll \in [pc : {"none", "cells", "pkts", "complete", "ack"}, dev : Devs,
               work : 0 .. Weight, budget : 0 .. U32 - 1,
               good : 0 .. Weight, proc : 0 .. 2 * Weight]
  /\ irqOn \in BOOLEAN /\ oops \in BOOLEAN /\ clash \in BOOLEAN /\ missed \in BOOLEAN

\* No packet BD is ever in two places, and while no interrupt has filled the free queue
\* inside the QueueAdd of a process or softirq that frees a packet, none is lost except
\* one with an AAL5 error that reaches the limit of rxtask and those the interrupt
\* handler leaves in a chain: up to then QueueAdd never finds the free queue full.
BdsKept ==
  Alive => /\ freePkt + rx[1] + 2 * rx[2] + held + clones + leaked + (IF InAdd THEN 1 ELSE 0) = N
            /\ freeCell + rxCell = M

\* The headers that are away while the buffer they came with is back: those in the stack
\* whose data was replaced, and one between the two calls of bcmxtmrt_freeskbordata.
Away == bare + (IF fs = "header" THEN 1 ELSE 0)

\* The untested read of pFreeRxSkbList finds a header for every packet received, as long
\* as no more headers are away than were allocated beyond one for each BD: with the
\* additional header one may be away, without it (a failed kmalloc) none.
HeaderAvailable == Away <= spare => ~oops /\ (rx[1] > 0 => freeSkbs > 0)

\* Receive never goes dead: the ATM interrupt is enabled, or a poll that will
\* enable it is running or due.  The exception is an interrupt that met,
\* as the first open device, one that is being closed.
Armed == irqOn \/ poll.pc # "none" \/ sched # {} \/ missed

\* Closing a device ends, unless packets or cells arrive for ever: a poll that is due
\* when dev_close begins is over some time, and none is scheduled after it.
CloseEnds ==
  []<><<Arrive>>_vars
    \/ \A d \in Devs : (dev[d] = "closing") ~> (dev[d] # "closing" \/ ~Alive)
=============================================================================
