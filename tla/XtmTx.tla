------------------------------- MODULE XtmTx -------------------------------
(***************************************************************************)
(* The transmit side of the ADSL transport driver (bcmxtmrt.c): the rings  *)
(* of transmit queues that network devices share, the frames their DMA     *)
(* engine owns, and the requests of the configuration driver that create   *)
(* and remove rings.  The kernel is uniprocessor and preempts no kernel    *)
(* code: the timer and the senders run in softirq and are single steps; a  *)
(* request runs in process context and is split where softirqs are on.     *)
(***************************************************************************)
EXTENDS Integers, Sequences, FiniteSetsExt, Functions

CONSTANTS
  Devs,      \* network devices
  Queues,    \* indices of TxQInfos
  QueuesOf,  \* the transmit queues the configuration gives each device
  ExtBufs,   \* ulNumExtBufs
  U32,       \* 2^32, the range of the unsigned counters
  MaxUse,    \* bound on ulUseCount
  Follow     \* whether to go on after two contexts have reclaimed a ring at once

ASSUME XtmTxAssumption ==
  /\ Devs # {} /\ IsFiniteSet(Devs) /\ IsFiniteSet(Queues)
  /\ QueuesOf \in [Devs -> Seq(Queues)]
  /\ \A d \in Devs : IsInjective(QueuesOf[d])
  /\ ExtBufs \in Nat /\ ExtBufs > 1
  /\ U32 \in Nat /\ U32 > ExtBufs /\ U32 > Cardinality(Queues) * (ExtBufs - 1)
  /\ MaxUse \in Nat \ {0} /\ Follow \in BOOLEAN

Rsrvd == ExtBufs \div 5
Pct90 == (ExtBufs * 9) \div 10
Pct50 == ExtBufs \div 2
QSize == IF ExtBufs < 250 THEN ExtBufs ELSE 250
Idx == 0 .. QSize - 1

VARIABLES
  ring,      \* TxQInfos with the tail index that the DMA engine advances
  qdAll,     \* ulNumTxBufsQdAll
  numTxQs,   \* ulNumTxQs
  link,      \* each device's ulLinkState: is it LINK_UP
  txq,       \* each device's pTxQueues, ulTxQueuesSize of them
  prio,      \* the queues each device's pTxPriorities point to
  running,   \* ulDrvState is XTMRT_RUNNING: the timer is pending
  job,       \* the request in progress
  oops,      \* the kernel followed a pointer of a freed ring or divided by zero
  overlap,   \* history: rings two contexts reclaimed at once, since allocated
  misfreed,  \* history: rings with a packet freed twice or before its turn
  skewed,    \* history: frames were queued when qdAll was reset or their ring freed
  failed     \* history: memory for a ring was once refused

hist == <<overlap, misfreed, skewed, failed>>
vars == <<ring, qdAll, numTxQs, link, txq, prio, running, job, oops, hist>>

NoSkbs == [i \in Idx |-> "null"]

\* A TXQINFO after memset; its slots matter only while it has memory.
Zeroed == [mem |-> FALSE, use |-> 0, head |-> 0, curr |-> 0, tail |-> 0, qd |-> 0,
           slot |-> NoSkbs]

NoJob == [pc |-> "idle", dev |-> CHOOSE d \in Devs : TRUE, i |-> 0, kind |-> "none"]

\* After bcmxtmrt_init, the global initialization and the creation of the devices.
Init ==
  /\ ring = [q \in Queues |-> Zeroed]
  /\ qdAll = 0 /\ numTxQs = 0
  /\ link = [d \in Devs |-> FALSE]
  /\ txq = [d \in Devs |-> <<>>] /\ prio = [d \in Devs |-> {}]
  /\ running = FALSE /\ job = NoJob /\ oops = FALSE
  /\ overlap = {} /\ misfreed = {} /\ skewed = FALSE /\ failed = FALSE

Alive == ~oops /\ (Follow \/ overlap = {})

-----------------------------------------------------------------------------
\* Faulty variant of Succ: the index runs one beyond the ring.
SuccLate(i) == IF i + 1 > QSize THEN 0 ELSE i + 1

\* ++index, back to 0 at the ring's size; and n such steps.
Succ(i) == IF i + 1 >= QSize THEN 0 ELSE i + 1
Adv(i, n) == IF i + n >= QSize THEN i + n - QSize ELSE i + n

\* The steps from index a forward to index b.
Dist(a, b) == IF b >= a THEN b - a ELSE b - a + QSize

\* Faulty variant of Stops: the tail of the DMA engine is not looked at.
StopsLate(r, i) == r.slot[i] = "null"

\* The reclaim loop stops at a slot without a packet and at the tail.
Stops(r, i) == r.slot[i] = "null" \/ i = r.tail

\* How many packets it frees, and the ring it leaves, when no other context comes
\* between.
Pending(r) == Min({Dist(r.curr, i) : i \in {j \in Idx : Stops(r, j)}})
Reclaimed(r, n) ==
  [r EXCEPT !.curr = Adv(@, n), !.qd = (@ - n) % U32,
            !.slot = [i \in Idx |-> IF Dist(r.curr, i) < n THEN "null" ELSE @[i]]]

Listed(d) == Range(txq[d])
ListedBy(D) == UNION {Listed(d) : d \in D}
Backed(S) == \A q \in S : ring[q].mem

\* The queue in whose reclaim loop a request has softirqs on.
Window == IF job.pc \in {"free", "null"} THEN {txq[job.dev][job.i]} ELSE {}

\* The rings, and the total, when the queues S are reclaimed with softirqs off.
AfterReclaim(S) ==
  [q \in Queues |-> IF q \in S THEN Reclaimed(ring[q], Pending(ring[q])) ELSE ring[q]]

\* Faulty variant of QdAllAfter: the total keeps what was freed.
TotalKept(S) == qdAll

QdAllAfter(S) == (qdAll - MapThenSumSet(LAMBDA q : Pending(ring[q]), S)) % U32

\* A softirq reclaims the queues S.
SoftReclaim(S) ==
  /\ overlap' = overlap \cup (S \cap Window)
  /\ misfreed' = misfreed \cup
       {q \in S : \E i \in Idx : /\ ring[q].slot[i] = "freed"
                                 /\ Dist(ring[q].curr, i) < Pending(ring[q])}

\* May a packet join ring r while all buffers are queued on all of the rings.
QueuePacket(r, all) ==
  IF numTxQs = 1 THEN r.qd < Pct90
  ELSE IF (ExtBufs - all) % U32 > Rsrvd THEN r.qd < Pct50
  ELSE r.qd < Rsrvd \div numTxQs

\* A packet goes on the ring unless that is full or QueuePacket drops it.
Full(r) == Succ(r.head) = r.curr
Enqueued(r) ==
  [r EXCEPT !.slot[r.head] = "live", !.head = Succ(r.head), !.qd = (r.qd + 1) % U32]

\* The kernel dies on a ring of size 0, or when it shares the reserve among no queues.
SendDies(r, all) ==
  \/ ~r.mem
  \/ ~Full(r) /\ numTxQs = 0 /\ (ExtBufs - all) % U32 <= Rsrvd

\* The part of bcmxtmrt_xmit that sends, with rg and all what the reclaim left: the
\* queue is the one of the packet's priority or the first one.
Send(q, rg, all) ==
  /\ oops' = SendDies(rg[q], all)
  /\ IF ~SendDies(rg[q], all) /\ ~Full(rg[q]) /\ QueuePacket(rg[q], all)
     THEN ring' = [rg EXCEPT ![q] = Enqueued(@)] /\ qdAll' = (all + 1) % U32
     ELSE ring' = rg /\ qdAll' = all

\* The link is down or there is no queue: the packet, if there is one, is dropped.
NoSend(rg, all) == ring' = rg /\ qdAll' = all /\ UNCHANGED oops

Candidates(d) == IF link[d] /\ txq[d] # <<>> THEN prio[d] \cup {txq[d][1]} ELSE {}

-----------------------------------------------------------------------------
\* A network or PPP sender, with softirqs off: one step.
bcmxtmrt_xmit(d) ==
  /\ Alive
  /\ IF Backed(Listed(d))
     THEN /\ SoftReclaim(Listed(d))
          /\ LET rg == AfterReclaim(Listed(d))
                 all == QdAllAfter(Listed(d))
             IN \/ Candidates(d) = {} /\ NoSend(rg, all)
                \/ \E q \in Candidates(d) : Send(q, rg, all)
     ELSE oops' = TRUE /\ UNCHANGED <<ring, qdAll, overlap, misfreed>>
  /\ UNCHANGED <<numTxQs, link, txq, prio, running, job, skewed, failed>>

\* The periodic timer reclaims the rings of every device.
bcmxtmrt_timer ==
  /\ Alive /\ running
  /\ UNCHANGED <<numTxQs, link, txq, prio, running, job, skewed, failed>>
  /\ LET S == ListedBy(Devs) IN
       IF Backed(S)
       THEN SoftReclaim(S) /\ UNCHANGED oops /\ qdAll' = QdAllAfter(S) /\ ring' = AfterReclaim(S)
       ELSE oops' = TRUE /\ UNCHANGED <<ring, qdAll, overlap, misfreed>>

\* The DMA engine sends the frame at the tail.
transmit(q) ==
  /\ Alive /\ ring[q].mem /\ ring[q].tail # ring[q].head
  /\ ring' = [ring EXCEPT ![q].tail = Succ(@)]
  /\ UNCHANGED <<qdAll, numTxQs, link, txq, prio, running, job, oops, hist>>

-----------------------------------------------------------------------------
\* Requests.  The reclaim loop in process context goes on from the i-th queue of d
\* with softirqs off, up to the next packet it frees or to the end of the loop.
Frees(d, rg, i) ==
  {j \in i .. Len(txq[d]) : rg[txq[d][j]].mem /\ ~Stops(rg[txq[d][j]], rg[txq[d][j]].curr)}
Crashes(d, rg, i) ==
  \E j \in i .. Len(txq[d]) : ~rg[txq[d][j]].mem /\ \A k \in Frees(d, rg, i) : j < k

\* What follows the loop: link down releases the queues, a cell is sent.
LoopEnds(d, kind, rg, all) ==
  IF kind = "down"
  THEN /\ job' = [pc |-> "release", dev |-> d, i |-> 1, kind |-> "down"]
       /\ NoSend(rg, all)
  ELSE /\ job' = NoJob
       /\ \/ Candidates(d) = {} /\ NoSend(rg, all)
          \/ \E q \in Candidates(d) : Send(q, rg, all)

Loop(d, kind, rg, all, i) ==
  IF Crashes(d, rg, i) THEN oops' = TRUE /\ job' = NoJob /\ ring' = rg /\ qdAll' = all
  ELSE IF Frees(d, rg, i) = {} THEN LoopEnds(d, kind, rg, all)
  ELSE /\ \E j \in Frees(d, rg, i) :
            /\ \A k \in Frees(d, rg, i) : j <= k
            /\ job' = [pc |-> "free", dev |-> d, i |-> j, kind |-> kind]
       /\ NoSend(rg, all)

\* DoLinkDown, and DoSendCellReq on a link that is up, call bcmxtmrt_xmit.
loop_start(d, kind) ==
  /\ Alive /\ job.pc = "idle" /\ (kind = "down" \/ link[d])
  /\ Loop(d, kind, ring, qdAll, 1)
  /\ UNCHANGED <<numTxQs, link, txq, prio, running, hist>>

\* With softirqs on the packet at the current index is freed ...
loop_free ==
  /\ Alive /\ job.pc = "free"
  /\ LET q == txq[job.dev][job.i]
         r == ring[q] IN
       /\ ring' = IF r.slot[r.curr] = "null" THEN ring ELSE [ring EXCEPT ![q].slot[r.curr] = "freed"]
       /\ misfreed' = IF r.slot[r.curr] = "freed" \/ (r.slot[r.curr] = "live" /\ r.curr = r.tail)
                      THEN misfreed \cup {q} ELSE misfreed
  /\ job' = [job EXCEPT !.pc = "null"]
  /\ UNCHANGED <<qdAll, numTxQs, link, txq, prio, running, oops, overlap, skewed, failed>>

\* ... and with softirqs off the current slot is cleared and the loop goes on.
loop_null ==
  /\ Alive /\ job.pc = "null"
  /\ LET q == txq[job.dev][job.i]
         r == ring[q]
         cleared == [r EXCEPT !.slot[r.curr] = "null", !.curr = Succ(@), !.qd = (@ - 1) % U32]
     IN Loop(job.dev, job.kind, [ring EXCEPT ![q] = cleared], (qdAll - 1) % U32, job.i)
  /\ UNCHANGED <<numTxQs, link, txq, prio, running, hist>>

\* Faulty variant of release: a ring is freed although another device lists it.
ReleaseShared ==
  /\ Alive /\ job.pc = "release" /\ job.i <= Len(txq[job.dev])
  /\ LET q == txq[job.dev][job.i] IN
       /\ ring' = [ring EXCEPT ![q] = Zeroed]
       /\ overlap' = overlap \ {q} /\ misfreed' = misfreed \ {q}
       /\ skewed' = (skewed \/ ring[q].qd # 0)
  /\ job' = [job EXCEPT !.i = @ + 1]
  /\ UNCHANGED <<qdAll, numTxQs, link, txq, prio, running, oops, failed>>

\* --ulUseCount.
OneLess(r) == [r EXCEPT !.use = @ - 1]

\* One turn of the loop that gives the queues of a device up.
release ==
  /\ Alive /\ job.pc = "release" /\ job.i <= Len(txq[job.dev])
  /\ LET q == txq[job.dev][job.i]
         last == ring[q].mem /\ ring[q].use = 1 IN
       /\ ring' = [ring EXCEPT ![q] = IF last THEN Zeroed
                                      ELSE IF @.mem THEN OneLess(@) ELSE @]
       /\ overlap' = IF last THEN overlap \ {q} ELSE overlap
       /\ misfreed' = IF last THEN misfreed \ {q} ELSE misfreed
       /\ skewed' = (skewed \/ (last /\ ring[q].qd # 0))
  /\ job' = [job EXCEPT !.i = @ + 1]
  /\ UNCHANGED <<qdAll, numTxQs, link, txq, prio, running, oops, failed>>

\* Faulty variant of down_end: the timer stops although another link is up.
DownStopsTimer ==
  /\ Alive /\ job.pc = "release" /\ job.kind = "down" /\ job.i > Len(txq[job.dev])
  /\ txq' = [txq EXCEPT ![job.dev] = <<>>]
  /\ prio' = [prio EXCEPT ![job.dev] = {}]
  /\ link' = [link EXCEPT ![job.dev] = FALSE]
  /\ qdAll' = 0
  /\ skewed' = (\E q \in Queues : ring[q].qd # 0)
  /\ running' = FALSE
  /\ job' = NoJob
  /\ UNCHANGED <<ring, numTxQs, oops, overlap, misfreed, failed>>

\* The end of DoLinkDown: qdAll is reset, whatever other devices have queued, and
\* the timer stops with the last link.
down_end ==
  /\ Alive /\ job.pc = "release" /\ job.kind = "down" /\ job.i > Len(txq[job.dev])
  /\ txq' = [txq EXCEPT ![job.dev] = <<>>]
  /\ prio' = [prio EXCEPT ![job.dev] = {}]
  /\ link' = [link EXCEPT ![job.dev] = FALSE]
  /\ qdAll' = 0
  /\ skewed' = (\E q \in Queues : ring[q].qd # 0)
  /\ running' = (running /\ \E d \in Devs \ {job.dev} : link[d])
  /\ job' = NoJob
  /\ UNCHANGED <<ring, numTxQs, oops, overlap, misfreed, failed>>

\* The end of a DoLinkUp that failed: the link stays up without queues.
up_failed ==
  /\ Alive /\ job.pc = "release" /\ job.kind = "up" /\ job.i > Len(txq[job.dev])
  /\ txq' = [txq EXCEPT ![job.dev] = <<>>]
  /\ job' = NoJob
  /\ UNCHANGED <<ring, qdAll, numTxQs, link, prio, running, oops, hist>>

\* DoSetTxQueue, its ring: the first user allocates it.
Fresh == [mem |-> TRUE, use |-> 1, head |-> 0, curr |-> 0, tail |-> 0, qd |-> 0,
          slot |-> NoSkbs]

\* Faulty variant of SetRing: a further user is not counted.
SetUncounted(r) == IF r.use = 0 THEN Fresh ELSE r

SetRing(r) == IF r.use = 0 THEN Fresh ELSE [r EXCEPT !.use = @ + 1]
WithSet(S) == [q \in Queues |-> IF q \in S THEN SetRing(ring[q]) ELSE ring[q]]
CountRings(rg) == Cardinality({q \in Queues : rg[q].mem})
CanUse(q) == ring[q].use < MaxUse

\* DoLinkUp, with softirqs off, all queues set.
DoLinkUp(d) ==
  /\ Alive /\ job.pc = "idle" /\ txq[d] = <<>>
  /\ LET S == Range(QueuesOf[d]) IN
       /\ \A q \in S : CanUse(q)
       /\ ring' = WithSet(S)
       /\ numTxQs' = IF S = {} THEN numTxQs ELSE CountRings(WithSet(S))
       /\ prio' = [prio EXCEPT ![d] = @ \cup S]
  /\ link' = [link EXCEPT ![d] = TRUE]
  /\ txq' = [txq EXCEPT ![d] = QueuesOf[d]]
  /\ running' = TRUE
  /\ UNCHANGED <<qdAll, job, oops, hist>>

\* DoLinkUp, no memory for the n-th queue: its use stays counted.
DoLinkUp_nomem(d, n) ==
  /\ Alive /\ job.pc = "idle" /\ txq[d] = <<>>
  /\ LET set == SubSeq(QueuesOf[d], 1, n - 1)
         bad == QueuesOf[d][n]
         rg == [WithSet(Range(set)) EXCEPT ![bad] = [Zeroed EXCEPT !.use = 1]] IN
       /\ ring[bad].use = 0 /\ \A q \in Range(set) : CanUse(q)
       /\ ring' = rg
       /\ numTxQs' = IF n = 1 THEN numTxQs ELSE CountRings(rg)
       /\ txq' = [txq EXCEPT ![d] = set]
       /\ prio' = [prio EXCEPT ![d] = @ \cup Range(set)]
       /\ failed' = TRUE
  /\ link' = [link EXCEPT ![d] = TRUE]
  /\ job' = [pc |-> "release", dev |-> d, i |-> 1, kind |-> "up"]
  /\ UNCHANGED <<qdAll, running, oops, overlap, misfreed, skewed>>

\* DoSetTxQueue as a request of its own: the queue is listed ...
set_list(d, q) ==
  /\ Alive /\ job.pc = "idle" /\ link[d] /\ q \in Range(QueuesOf[d]) \ Listed(d) /\ CanUse(q)
  /\ ring' = WithSet({q})
  /\ txq' = [txq EXCEPT ![d] = Append(@, q)]
  /\ prio' = [prio EXCEPT ![d] = @ \cup {q}]
  /\ job' = [pc |-> "count", dev |-> d, i |-> 0, kind |-> "set"]
  /\ UNCHANGED <<qdAll, numTxQs, link, running, oops, hist>>

\* Faulty variant of set_count: the rings are not counted again.
SetNoCount ==
  /\ Alive /\ job.pc = "count"
  /\ job' = NoJob
  /\ UNCHANGED <<ring, qdAll, numTxQs, link, txq, prio, running, oops, hist>>

\* ... before the rings are counted.
set_count ==
  /\ Alive /\ job.pc = "count"
  /\ numTxQs' = CountRings(ring)
  /\ job' = NoJob
  /\ UNCHANGED <<ring, qdAll, link, txq, prio, running, oops, hist>>

set_nomem(d, q) ==
  /\ Alive /\ job.pc = "idle" /\ link[d] /\ q \in Range(QueuesOf[d]) \ Listed(d) /\ ring[q].use = 0
  /\ ring' = [ring EXCEPT ![q] = [Zeroed EXCEPT !.use = 1]]
  /\ failed' = TRUE
  /\ UNCHANGED <<qdAll, numTxQs, link, txq, prio, running, job, oops, overlap, misfreed, skewed>>

\* DoUnsetTxQueue takes the queue off the device's list ...
unset_unlist(d, i) ==
  /\ Alive /\ job.pc = "idle" /\ i \in 1 .. Len(txq[d])
  /\ LET q == txq[d][i] IN
       /\ txq' = [txq EXCEPT ![d] = SubSeq(@, 1, i - 1) \o SubSeq(@, i + 1, Len(@))]
       /\ prio' = [prio EXCEPT ![d] = @ \ {q}]
       /\ job' = [pc |-> "unset", dev |-> d, i |-> q, kind |-> "unset"]
  /\ UNCHANGED <<ring, qdAll, numTxQs, link, running, oops, hist>>

\* ... and frees the ring after its last user; the packets on it stay in qdAll.
unset_free ==
  /\ Alive /\ job.pc = "unset"
  /\ LET q == job.i
         last == ring[q].use = 1
         rg == [ring EXCEPT ![q] = IF last THEN Zeroed ELSE OneLess(@)] IN
       /\ ring' = rg
       /\ numTxQs' = CountRings(rg)
       /\ overlap' = IF last THEN overlap \ {q} ELSE overlap
       /\ misfreed' = IF last THEN misfreed \ {q} ELSE misfreed
       /\ skewed' = (skewed \/ (last /\ ring[q].qd # 0))
  /\ job' = NoJob
  /\ UNCHANGED <<qdAll, link, txq, prio, running, oops, failed>>

-----------------------------------------------------------------------------
Request ==
  \/ \E d \in Devs : \/ DoLinkUp(d) \/ loop_start(d, "down") \/ loop_start(d, "cell")
                     \/ \E n \in 1 .. Len(QueuesOf[d]) : DoLinkUp_nomem(d, n)
                     \/ \E q \in Queues : set_list(d, q) \/ set_nomem(d, q)
                     \/ \E i \in 1 .. Len(txq[d]) : unset_unlist(d, i)

JobStep ==
  \/ loop_free \/ loop_null \/ release \/ down_end \/ up_failed
  \/ set_count \/ unset_free

Next ==
  \/ Request \/ JobStep
  \/ \E d \in Devs : bcmxtmrt_xmit(d)
  \/ bcmxtmrt_timer
  \/ \E q \in Queues : transmit(q)

Spec == Init /\ [][Next]_vars

\* The timer is armed again whenever it runs, and a request that has started runs to
\* its end.
FairSpec == Spec /\ WF_vars(bcmxtmrt_timer) /\ WF_vars(JobStep)

-----------------------------------------------------------------------------
RingType == [mem : BOOLEAN, use : 0 .. MaxUse, head : Idx, curr : Idx, tail : Idx,
             qd : 0 .. U32 - 1, slot : [Idx -> {"null", "live", "freed"}]]

\* Type invariant.
TypeOK ==
  /\ ring \in [Queues -> RingType]
  /\ qdAll \in 0 .. U32 - 1 /\ numTxQs \in Nat
  /\ link \in [Devs -> BOOLEAN] /\ running \in BOOLEAN
  /\ txq \in [Devs -> Seq(Queues)] /\ prio \in [Devs -> SUBSET Queues]
  /\ job.pc \in {"idle", "free", "null", "release", "count", "unset"} /\ job.dev \in Devs
  /\ oops \in BOOLEAN /\ failed \in BOOLEAN /\ skewed \in BOOLEAN
  /\ overlap \subseteq Queues /\ misfreed \subseteq Queues

\* The packets of ring r are exactly those between its current index and its head,
\* the DMA engine is among them, and the count of queued buffers is their number;
\* f is the packet that a request has freed and not yet cleared.
Sound(r, f) ==
  /\ \A i \in Idx : r.slot[i] = IF Dist(r.curr, i) >= Dist(r.curr, r.head) THEN "null"
                                ELSE IF i \in f THEN "freed" ELSE "live"
  /\ Dist(r.curr, r.tail) <= Dist(r.curr, r.head)
  /\ r.qd = Dist(r.curr, r.head)

FreedSlot(q) == IF job.pc = "null" /\ q \in Window THEN {ring[q].curr} ELSE {}

\* A ring that no two contexts reclaimed at once holds each packet from its enqueue
\* to the free that follows its transmission, and its count is exact.
RingSound == \A q \in Queues \ overlap : ring[q].mem => Sound(ring[q], FreedSlot(q))

\* A packet is freed twice, or before it is transmitted, only if a softirq reclaimed
\* the ring in the window of a request's reclaim loop.
FreedOnce == misfreed \subseteq overlap

\* A ring that was allocated lives exactly as long as the devices that list it.
Users(q) == {d \in Devs : \E i \in 1 .. Len(txq[d]) :
               txq[d][i] = q /\ ~(job.pc = "release" /\ job.dev = d /\ i < job.i)}
UseExact ==
  \A q \in Queues : ring[q].mem =>
    ring[q].use = Cardinality(Users(q)) + IF job.pc = "unset" /\ job.i = q THEN 1 ELSE 0

\* The kernel follows a pointer of a ring without memory, or divides by the number of
\* rings when that is 0, only if an allocation once failed, or if a softirq runs while a
\* link going down or a failed link up releases rings, or before a new ring is counted.
OopsExplained == [][(oops' /\ ~oops) => failed \/ job.pc \in {"release", "count"}]_vars

\* A packet takes a ring beyond half of the external buffers only while there is no
\* other ring, however queues were set and unset and links went down before; except
\* when a request has listed a new queue and not yet counted the rings.
FairShare ==
  [][\A q \in Queues : (ring'[q].mem /\ ring'[q].head # ring[q].head /\ ring'[q].qd > Pct50) =>
       job.pc = "count" \/ \A p \in Queues \ {q} : ~ring[p].mem]_vars

\* The total is the sum of the rings' counts unless it was reset, or a ring freed, with
\* packets queued.
Queued == MapThenSumSet(LAMBDA q : ring[q].qd, Queues)
TotalExact == ~skewed /\ overlap = {} => qdAll = Queued

\* A transmitted packet is freed in the end by the timer, as long as its ring lives,
\* every allocation succeeded and no two contexts reclaimed at once: again and again
\* the ring has none.
TransmittedIsFreed ==
  \A q \in Queues :
    []<>(ring[q].curr = ring[q].tail \/ ~ring[q].mem \/ oops \/ failed \/ overlap # {})
=============================================================================
