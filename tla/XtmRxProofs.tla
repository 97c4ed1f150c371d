---------------------------- MODULE XtmRxProofs ----------------------------
(***************************************************************************)
(* The receive side for every number of devices, queue sizes and weight.   *)
(* That a packet finds a header does not follow from the number of headers *)
(* alone: the inductive invariant counts the buffer descriptors and the    *)
(* headers in every place they can be, and relates the two.  That receive  *)
(* never goes dead needs that the device being polled stays on the list.   *)
(***************************************************************************)
EXTENDS XtmRx, TLAPS

\* Descriptors and headers: where they are and how many there are in all.
Buffers ==
  /\ freePkt \in 0 .. N /\ freeCell \in 0 .. M /\ rxCell \in 0 .. M
  /\ rx \in [1 .. 2 -> 0 .. N]
  /\ freeSkbs \in 0 .. N + 1 /\ held \in 0 .. N /\ clones \in 0 .. N
  /\ bare \in 0 .. N + 1 /\ leaked \in 0 .. N /\ spare \in 0 .. 1
  /\ fs \in {"none", "whole", "expand", "clone", "header"}
  /\ BdsKept
  /\ freeSkbs + held + bare + (IF fs \in {"whole", "expand", "header"} THEN 1 ELSE 0) = N + spare
  /\ (oops => Away > spare) /\ (clash => rx[1] = 0)

\* The poll in progress and the poll list.
Polls == [pc : {"none", "cells", "pkts", "complete", "ack"}, dev : Devs, work : 0 .. Weight,
          budget : 0 .. U32 - 1, good : 0 .. Weight, proc : 0 .. 2 * Weight]
Control ==
  /\ poll \in Polls /\ rxTail \in 0 .. N
  /\ sched \subseteq Devs /\ dev \in [Devs -> {"down", "up", "closing"}]
  /\ poll.pc \in {"cells", "pkts", "complete"} => poll.dev \in sched
  /\ Armed

Flags == irqOn \in BOOLEAN /\ oops \in BOOLEAN /\ clash \in BOOLEAN /\ missed \in BOOLEAN

Inv == Buffers /\ Control /\ Flags

\* Every step is taken by a driver that has not failed, and is one of these.
LEMMA Steps ==
  ASSUME Next
  PROVE  \/ arrive_cell \/ \E c \in 1 .. 2 : arrive_pkt(c)
         \/ isr_drain \/ \E d \in Devs : bcmxtmrt_isr(d)
         \/ \E d \in Devs, w \in 1 .. Weight : poll_start(d, w)
         \/ \E n \in 0 .. 1, null \in BOOLEAN : rx_cell(n, null)
         \/ cells_done \/ pkts_done \/ poll_complete \/ poll_ack
         \/ \E c \in 1 .. 2, null \in BOOLEAN : rx_discard(c, null)
         \/ rx_error \/ rx_dropped \/ rx_oops
         \/ \E consumed, stays \in BOOLEAN : rx_good(consumed, stays)
         \/ bcmxtmrt_timer
         \/ \E why \in {"whole", "expand", "clone"} : free_data(why)
         \/ free_add \/ free_header \/ free_cloned \/ free_bare \/ free_soft
         \/ \E d \in Devs : bcmxtmrt_open(d) \/ dev_close(d) \/ bcmxtmrt_close(d)
  BY Zenon DEF Next, Arrive, PollStep, StackStep

\* A remainder is below the divisor.
LEMMA ModRange == ASSUME NEW a \in Int, NEW b \in Nat \ {0} PROVE a % b \in 0 .. b - 1
  OBVIOUS

\* The tail of the receive queue stays inside the ring.
LEMMA TailRange == ASSUME NEW t \in 0 .. N, NEW n \in Nat PROVE (t + n) % (N + 1) \in 0 .. N
<1>1. t + n \in Int /\ N + 1 \in Nat \ {0} /\ (N + 1) - 1 = N
  BY XtmRxAssumption
<1>2. (t + n) % (N + 1) \in 0 .. (N + 1) - 1
  BY <1>1, ModRange
<1>. QED BY <1>1, <1>2

\* A packet keeps the counters of the poll within their limits.
LEMMA ProcessedTyped ==
  ASSUME poll \in Polls, NEW n \in 1 .. 2
  PROVE  /\ Processed(n) \in Polls
         /\ Processed(n).pc = poll.pc /\ Processed(n).dev = poll.dev
  BY XtmRxAssumption DEF Polls, Processed, UpTo, RxPktMax

\* Whether rxtask goes on or leaves its loop, a poll is running or due after it.
LEMMA ContinueControl ==
  ASSUME Control, poll.pc = "pkts", NEW leaves, NEW null,
         NEW p \in Polls, p.pc = "pkts", p.dev = poll.dev,
         Continue(p, leaves, null), UNCHANGED <<net, irqOn, missed>>, rxTail' \in 0 .. N
  PROVE  Control'
<1>. USE XtmRxAssumption DEF Control, Armed, net
<1>1. poll' = p \/ poll' = [p EXCEPT !.pc = "complete"] \/ poll' = NoPoll
  BY Zenon DEF Continue
<1>2. NoPoll \in Polls /\ NoPoll.pc = "none"
  BY DEF NoPoll, Polls, Devs
<1>3. [p EXCEPT !.pc = "complete"] \in Polls /\ [p EXCEPT !.pc = "complete"].dev = p.dev
  BY DEF Polls
<1>. QED BY <1>1, <1>2, <1>3, Zenon

\* No step makes, loses or duplicates a descriptor or a header.
LEMMA KeepsBuffers ==
  ASSUME Inv, Next
  PROVE  Buffers'
<1>. USE XtmRxAssumption DEF Inv, Buffers, BdsKept, Away, Alive, InAdd, Soft, Process, UpTo,
      QueueAdd, QueueRemove, bds, stack, hist
<1>1. CASE arrive_cell  BY <1>1 DEF arrive_cell
<1>2. CASE isr_drain  BY <1>2 DEF isr_drain
<1>3. CASE poll_complete  BY <1>3 DEF poll_complete
<1>4. CASE poll_ack  BY <1>4 DEF poll_ack
<1>5. CASE cells_done  BY <1>5 DEF cells_done
<1>6. CASE pkts_done  BY <1>6 DEF pkts_done
<1>7. CASE rx_error  BY <1>7 DEF rx_error
<1>8. CASE rx_dropped  BY <1>8 DEF rx_dropped
<1>9. CASE rx_oops  BY <1>9 DEF rx_oops
<1>10. CASE bcmxtmrt_timer  BY <1>10 DEF bcmxtmrt_timer
<1>11. CASE free_add  BY <1>11 DEF free_add
<1>12. CASE free_header  BY <1>12 DEF free_header
<1>13. CASE free_cloned  BY <1>13 DEF free_cloned
<1>14. CASE free_bare  BY <1>14 DEF free_bare
<1>15. CASE free_soft  BY <1>15 DEF free_soft
<1>16. ASSUME NEW c \in 1 .. 2, arrive_pkt(c) PROVE Buffers'  BY <1>16 DEF arrive_pkt
<1>17. ASSUME NEW d \in Devs, bcmxtmrt_isr(d) PROVE Buffers'  BY <1>17 DEF bcmxtmrt_isr
<1>18. ASSUME NEW d \in Devs, NEW w \in 1 .. Weight, poll_start(d, w) PROVE Buffers'
  BY <1>18 DEF poll_start
<1>19. ASSUME NEW n \in 0 .. 1, NEW null \in BOOLEAN, rx_cell(n, null) PROVE Buffers'
  BY <1>19 DEF rx_cell
<1>20. ASSUME NEW c \in 1 .. 2, NEW null \in BOOLEAN, rx_discard(c, null) PROVE Buffers'
  BY <1>20 DEF rx_discard
<1>21. ASSUME NEW consumed \in BOOLEAN, NEW stays \in BOOLEAN, rx_good(consumed, stays)
      PROVE  Buffers'
  BY <1>21 DEF rx_good
<1>22. ASSUME NEW why \in {"whole", "expand", "clone"}, free_data(why) PROVE Buffers'
  BY <1>22 DEF free_data
<1>23. ASSUME NEW d \in Devs, bcmxtmrt_open(d) PROVE Buffers'  BY <1>23 DEF bcmxtmrt_open
<1>24. ASSUME NEW d \in Devs, dev_close(d) PROVE Buffers'  BY <1>24 DEF dev_close
<1>25. ASSUME NEW d \in Devs, bcmxtmrt_close(d) PROVE Buffers'  BY <1>25 DEF bcmxtmrt_close
<1>. QED BY Steps, <1>1, <1>2, <1>3, <1>4, <1>5, <1>6, <1>7, <1>8, <1>9, <1>10, <1>11, <1>12,
      <1>13, <1>14, <1>15, <1>16, <1>17, <1>18, <1>19, <1>20, <1>21, <1>22, <1>23, <1>24,
      <1>25, Zenon

\* Every step leaves an enabled interrupt or a poll that will enable it.
LEMMA KeepsControl ==
  ASSUME Inv, Next
  PROVE  Control'
<1>. USE XtmRxAssumption DEF Inv, Control, Polls, Armed, Soft, Process, Devs, NoPoll,
      QueueRemove, RxTask, bds, stack, net, hist
<1>1. CASE arrive_cell  BY <1>1 DEF arrive_cell
<1>2. CASE isr_drain
  <2>1. rxTail' \in 0 .. N
    <3>1. rxTail' = (rxTail + (rx[1] + rx[2])) % (N + 1)
      BY <1>2, Zenon DEF isr_drain
    <3>2. rx[1] + rx[2] \in Nat
      BY DEF Buffers
    <3>. QED BY <3>1, <3>2, TailRange, Zenon
  <2>2. UNCHANGED <<poll, net, irqOn, missed>>
    BY <1>2 DEF isr_drain
  <2>. QED BY <2>1, <2>2
<1>3. CASE poll_complete  BY <1>3, Zenon DEF poll_complete
<1>4. CASE poll_ack  BY <1>4 DEF poll_ack
<1>5. CASE cells_done  BY <1>5, Zenon DEF cells_done
<1>6. CASE pkts_done  BY <1>6, Zenon DEF pkts_done
<1>7. CASE rx_error
  <2>1. rxTail' \in 0 .. N
    <3>1. rxTail' = (rxTail + 1) % (N + 1)
      BY <1>7 DEF rx_error
    <3>. QED BY <3>1, TailRange
  <2>2. /\ poll.pc = "pkts"
        /\ Continue(Processed(1), poll.proc + 1 >= RxPktMax, FALSE)
        /\ UNCHANGED <<net, irqOn, missed>>
    BY <1>7 DEF rx_error
  <2>3. Processed(1) \in Polls /\ Processed(1).pc = poll.pc /\ Processed(1).dev = poll.dev
    BY ProcessedTyped
  <2>. QED BY <2>1, <2>2, <2>3, ContinueControl, Zenon
<1>8. CASE rx_dropped
  <2>1. rxTail' \in 0 .. N
    <3>1. rxTail' = (rxTail + 1) % (N + 1)
      BY <1>8 DEF rx_dropped
    <3>. QED BY <3>1, TailRange
  <2>. QED BY <1>8, <2>1 DEF rx_dropped
<1>9. CASE rx_oops  BY <1>9 DEF rx_oops
<1>10. CASE bcmxtmrt_timer  BY <1>10, Zenon DEF bcmxtmrt_timer
<1>11. CASE free_add  BY <1>11 DEF free_add
<1>12. CASE free_header  BY <1>12 DEF free_header
<1>13. CASE free_cloned  BY <1>13 DEF free_cloned
<1>14. CASE free_bare  BY <1>14 DEF free_bare
<1>15. CASE free_soft  BY <1>15 DEF free_soft
<1>16. ASSUME NEW c \in 1 .. 2, arrive_pkt(c) PROVE Control'  BY <1>16 DEF arrive_pkt
<1>17. ASSUME NEW d \in Devs, bcmxtmrt_isr(d) PROVE Control'  BY <1>17, Zenon DEF bcmxtmrt_isr
<1>18. ASSUME NEW d \in Devs, NEW w \in 1 .. Weight, poll_start(d, w) PROVE Control'
  BY <1>18 DEF poll_start
<1>19. ASSUME NEW n \in 0 .. 1, NEW null \in BOOLEAN, rx_cell(n, null) PROVE Control'
  <2>1. poll.pc = "cells" /\ UNCHANGED <<rxTail, net, irqOn, missed>>
    BY <1>19 DEF rx_cell
  <2>2. poll' \in Polls /\ poll'.pc \in {"cells", "pkts", "complete"} /\ poll'.dev = poll.dev
    <3>1. RxTask(poll.dev, poll.work, "pkts") \in Polls
      BY DEF RxTask, Polls
    <3>2. [poll EXCEPT !.pc = "complete"] \in Polls
      BY DEF Polls
    <3>3. ASSUME n = 0 \/ poll.proc + n < RxPktMax
          PROVE  [poll EXCEPT !.proc = @ + n] \in Polls
      <4>1. poll.proc \in 0 .. 2 * Weight /\ poll.work \in 0 .. Weight
        BY DEF Polls
      <4>2. poll.proc + n \in 0 .. 2 * Weight
        BY <3>3, <4>1 DEF RxPktMax
      <4>. QED BY <4>2, Zenon DEF Polls
    <3>. QED BY <1>19, <2>1, <3>1, <3>2, <3>3 DEF rx_cell, RxTask
  <2>. QED BY <2>1, <2>2
<1>20. ASSUME NEW c \in 1 .. 2, NEW null \in BOOLEAN, rx_discard(c, null) PROVE Control'
  <2>1. rxTail' \in 0 .. N
    <3>1. rxTail' = (rxTail + 1) % (N + 1)
      BY <1>20 DEF rx_discard
    <3>. QED BY <3>1, TailRange
  <2>2. /\ poll.pc = "pkts"
        /\ Continue(Processed(c), poll.proc + c >= RxPktMax, null)
        /\ UNCHANGED <<net, irqOn, missed>>
    BY <1>20 DEF rx_discard
  <2>3. Processed(c) \in Polls /\ Processed(c).pc = poll.pc /\ Processed(c).dev = poll.dev
    BY ProcessedTyped, Zenon
  <2>. QED BY <2>1, <2>2, <2>3, ContinueControl, Zenon
<1>21. ASSUME NEW consumed \in BOOLEAN, NEW stays \in BOOLEAN, rx_good(consumed, stays)
      PROVE  Control'
  <2>1. rxTail' \in 0 .. N
    <3>1. rxTail' = (rxTail + 1) % (N + 1)
      BY <1>21 DEF rx_good
    <3>. QED BY <3>1, TailRange
  <2>. DEFINE p == [Processed(1) EXCEPT !.good = UpTo(@ + 1, poll.work),
                                       !.budget = (@ - 1) % U32]
  <2>2. poll.pc = "pkts" /\ UNCHANGED <<net, irqOn, missed>>
    BY <1>21 DEF rx_good
  <2>3. Continue(p, ~consumed /\ p.budget = 0, FALSE)
    BY <1>21 DEF rx_good
  <2>4. p \in Polls /\ p.pc = poll.pc /\ p.dev = poll.dev
    <3>1. (poll.budget - 1) % U32 \in 0 .. U32 - 1 /\ Processed(1).budget = poll.budget
      BY ModRange DEF Polls, Processed
    <3>2. UpTo(poll.good + 1, poll.work) \in 0 .. Weight /\ Processed(1).good = poll.good
      BY DEF UpTo, Polls, Processed
    <3>3. /\ Processed(1) \in Polls
          /\ Processed(1).pc = poll.pc /\ Processed(1).dev = poll.dev
      BY ProcessedTyped
    <3>. HIDE DEF Processed
    <3>. QED BY <3>1, <3>2, <3>3, Zenon DEF Polls
  <2>. QED BY <2>1, <2>2, <2>3, <2>4, ContinueControl, Zenon
<1>22. ASSUME NEW why \in {"whole", "expand", "clone"}, free_data(why) PROVE Control'
  BY <1>22 DEF free_data
<1>23. ASSUME NEW d \in Devs, bcmxtmrt_open(d) PROVE Control'  BY <1>23 DEF bcmxtmrt_open
<1>24. ASSUME NEW d \in Devs, dev_close(d) PROVE Control'  BY <1>24 DEF dev_close
<1>25. ASSUME NEW d \in Devs, bcmxtmrt_close(d) PROVE Control'  BY <1>25 DEF bcmxtmrt_close
<1>. QED BY Steps, <1>1, <1>2, <1>3, <1>4, <1>5, <1>6, <1>7, <1>8, <1>9, <1>10, <1>11, <1>12,
      <1>13, <1>14, <1>15, <1>16, <1>17, <1>18, <1>19, <1>20, <1>21, <1>22, <1>23, <1>24,
      <1>25, Zenon

\* The flags are Booleans after every step.
LEMMA KeepsFlags == ASSUME Inv, Next PROVE Flags'
<1>. USE DEF Inv, Flags, bds, stack, net, hist, QueueRemove
<1>1. CASE arrive_cell  BY <1>1, Zenon DEF arrive_cell
<1>2. CASE isr_drain  BY <1>2, Zenon DEF isr_drain
<1>3. CASE poll_complete  BY <1>3, Zenon DEF poll_complete
<1>4. CASE poll_ack  BY <1>4, Zenon DEF poll_ack
<1>5. CASE cells_done  BY <1>5, Zenon DEF cells_done
<1>6. CASE pkts_done  BY <1>6, Zenon DEF pkts_done
<1>7. CASE rx_error  BY <1>7, Zenon DEF rx_error
<1>8. CASE rx_dropped  BY <1>8, Zenon DEF rx_dropped
<1>9. CASE rx_oops  BY <1>9, Zenon DEF rx_oops
<1>10. CASE bcmxtmrt_timer  BY <1>10, Zenon DEF bcmxtmrt_timer
<1>11. CASE free_add  BY <1>11, Zenon DEF free_add
<1>12. CASE free_header  BY <1>12, Zenon DEF free_header
<1>13. CASE free_cloned  BY <1>13, Zenon DEF free_cloned
<1>14. CASE free_bare  BY <1>14, Zenon DEF free_bare
<1>15. CASE free_soft  BY <1>15, Zenon DEF free_soft
<1>16. ASSUME NEW c \in 1 .. 2, arrive_pkt(c) PROVE Flags'
  BY <1>16, Zenon DEF arrive_pkt
<1>17. ASSUME NEW d \in Devs, bcmxtmrt_isr(d) PROVE Flags'
  BY <1>17, Zenon DEF bcmxtmrt_isr
<1>18. ASSUME NEW d \in Devs, NEW w \in 1 .. Weight, poll_start(d, w) PROVE Flags'
  BY <1>18, Zenon DEF poll_start
<1>19. ASSUME NEW n \in 0 .. 1, NEW null \in BOOLEAN, rx_cell(n, null) PROVE Flags'
  BY <1>19, Zenon DEF rx_cell
<1>20. ASSUME NEW c \in 1 .. 2, NEW null \in BOOLEAN, rx_discard(c, null) PROVE Flags'
  BY <1>20, Zenon DEF rx_discard
<1>21. ASSUME NEW consumed \in BOOLEAN, NEW stays \in BOOLEAN, rx_good(consumed, stays)
      PROVE  Flags'
  BY <1>21, Zenon DEF rx_good
<1>22. ASSUME NEW why \in {"whole", "expand", "clone"}, free_data(why) PROVE Flags'
  BY <1>22, Zenon DEF free_data
<1>23. ASSUME NEW d \in Devs, bcmxtmrt_open(d) PROVE Flags'
  BY <1>23, Zenon DEF bcmxtmrt_open
<1>24. ASSUME NEW d \in Devs, dev_close(d) PROVE Flags'
  BY <1>24, Zenon DEF dev_close
<1>25. ASSUME NEW d \in Devs, bcmxtmrt_close(d) PROVE Flags'
  BY <1>25, Zenon DEF bcmxtmrt_close
<1>. QED BY Steps, <1>1, <1>2, <1>3, <1>4, <1>5, <1>6, <1>7, <1>8, <1>9, <1>10, <1>11, <1>12,
      <1>13, <1>14, <1>15, <1>16, <1>17, <1>18, <1>19, <1>20, <1>21, <1>22, <1>23, <1>24,
      <1>25, Zenon

\* The invariant holds after DoGlobInitReq.
LEMMA InitInv == Init => Inv
<1>. SUFFICES ASSUME Init PROVE Inv
  OBVIOUS
<1>. USE XtmRxAssumption DEF Init
<1>1. Buffers BY DEF Buffers, BdsKept, Away, Alive, InAdd
<1>2. Control BY DEF Control, Polls, Armed, NoPoll, Devs
<1>3. Flags BY Zenon DEF Flags
<1>. QED BY <1>1, <1>2, <1>3 DEF Inv

\* The inductive invariant holds of the receive side in every reachable state.
THEOREM InvHolds == Spec => []Inv
<1>1. Inv /\ [Next]_vars => Inv'
  <2>1. ASSUME Inv, Next PROVE Inv'
    BY <2>1, KeepsBuffers, KeepsControl, KeepsFlags DEF Inv
  <2>2. ASSUME Inv, UNCHANGED vars PROVE Inv'
    <3>1. Buffers' BY <2>2 DEF Inv, Buffers, BdsKept, Away, Alive, InAdd, vars, bds, stack, hist
    <3>2. Control' BY <2>2 DEF Inv, Control, Armed, vars, bds, net, hist
    <3>3. Flags' BY <2>2, Zenon DEF Inv, Flags, vars, hist
    <3>. QED BY <3>1, <3>2, <3>3 DEF Inv
  <2>. QED BY <2>1, <2>2
<1>. QED BY InitInv, <1>1, PTL DEF Spec

\* The queues, lists and counters of the receive side keep within their limits,
\* whatever the sizes of the queues and the weight of the devices.
THEOREM RxTyped == Spec => []TypeOK
<1>1. Inv => TypeOK
  <2>. SUFFICES ASSUME Inv PROVE TypeOK
    OBVIOUS
  <2>. QED BY DEF Inv, Buffers, Control, Flags, Polls, TypeOK
<1>. QED BY <1>1, InvHolds, PTL

\* Until an interrupt fills the free queue inside a QueueAdd that it interrupted (clash),
\* every buffer descriptor is in exactly one place, or was lost at one of the two places
\* in rxtask and the interrupt handler that put it back nowhere; so QueueAdd drops none.
\* Nothing is said of what follows such an interrupt.
THEOREM DescriptorsKept == Spec => []BdsKept
<1>1. Inv => BdsKept BY DEF Inv, Buffers
<1>. QED BY <1>1, InvHolds, PTL

\* rxtask finds a header for a packet, however many descriptors there are, as long as
\* no more headers are away without their data than were allocated in addition.  Without
\* the additional header that excludes every moment between the return of a packet's
\* data and of its header.
THEOREM HeaderNeverMissing == Spec => []HeaderAvailable
<1>1. Inv => HeaderAvailable
  <2>. SUFFICES ASSUME Inv, Away <= spare PROVE ~oops /\ (rx[1] > 0 => freeSkbs > 0)
    BY DEF HeaderAvailable
  <2>1. ~oops
    BY DEF Inv, Buffers, Away
  <2>2. ASSUME rx[1] > 0 PROVE freeSkbs > 0
    <3>1. Alive
      BY <2>1, <2>2 DEF Inv, Buffers, Alive
    <3>. QED BY <2>2, <3>1, XtmRxAssumption DEF Inv, Buffers, BdsKept, Away, InAdd
  <2>. QED BY <2>1, <2>2
<1>. QED BY <1>1, InvHolds, PTL

\* The ATM interrupt is never left masked with no poll to enable it, for any number
\* of devices opened and closed, except after an interrupt during a dev_close.
THEOREM NeverDeaf == Spec => []Armed
<1>1. Inv => Armed BY DEF Inv, Control
<1>. QED BY <1>1, InvHolds, PTL
=============================================================================
