---------------------------- MODULE XtmTxProofs ----------------------------
(***************************************************************************)
(* The transmit rings for every number of devices, queues and buffers.     *)
(*                                                                         *)
(* The inductive invariant Inv says of each ring that no softirq reclaimed *)
(* inside the reclaim loop of a request that it is sound, but for the slot *)
(* whose packet the request has freed and not yet cleared; that such a     *)
(* packet was transmitted (InWindow, without which the step that clears    *)
(* the slot could not move the current index); and that packets were freed *)
(* at a wrong time in the other rings only (FreedOnce).                    *)
(*                                                                         *)
(* The second half shows that every step keeps a second invariant, Counts, *)
(* about who uses a ring, how many rings there are and how many buffers    *)
(* are queued on all of them.  It says of rings without memory, too, how   *)
(* often they are counted (Uses), that the number of rings is never too    *)
(* small outside of DoSetTxQueue (RingsCounted), and that the total is the *)
(* sum of the rings' counts up to the range of the counter (Fine), which   *)
(* holds even of rings that two contexts reclaimed at once.  XtmTxCounts   *)
(* adds what these proofs use of finite sets and sums, and the theorems.   *)
(***************************************************************************)
EXTENDS XtmTx, TLAPS

\* A ring record; its use count does not matter here.
Slots == [Idx -> {"null", "live", "freed"}]
Rings == [mem : BOOLEAN, use : Int, head : Idx, curr : Idx, tail : Idx,
          qd : 0 .. U32 - 1, slot : Slots]

\* What the assumption on the constants says of the size of a ring.
LEMMA Size == QSize \in Nat /\ QSize > 1 /\ QSize < U32 /\ U32 \in Nat
  BY XtmTxAssumption DEF QSize

\* The remainder of a number below the divisor.
LEMMA ModSmall == ASSUME NEW a \in Nat, NEW b \in Nat, a < b PROVE a % b = a
  OBVIOUS

\* Distances on a ring.
LEMMA DistIdx ==
  ASSUME NEW a \in Idx, NEW b \in Idx
  PROVE  /\ Dist(a, b) \in Idx /\ Dist(a, b) \in Nat /\ Dist(a, b) < QSize
         /\ (Dist(a, b) = 0 <=> a = b)
  BY Size DEF Dist, Idx

\* The index after one of the ring is one of the ring.
LEMMA SuccIdx ==
  ASSUME NEW a \in Idx, NEW b \in Idx
  PROVE  /\ Succ(b) \in Idx /\ Succ(b) # b
         /\ Dist(a, Succ(b)) = IF Dist(a, b) = QSize - 1 THEN 0 ELSE Dist(a, b) + 1
  BY Size DEF Succ, Dist, Idx

\* The slot a request may be clearing: the current one, already transmitted.
Clearing(r, f) == f = {} \/ (f = {r.curr} /\ r.curr # r.tail)

-----------------------------------------------------------------------------
\* The rings that no two contexts reclaimed at once, with the slots F that a request
\* is clearing.
AllSound(rg, ov, F) ==
  /\ rg = [q \in Queues |-> rg[q]]
  /\ \A q \in Queues \ ov :
       /\ rg[q] \in Rings
       /\ rg[q].mem => Sound(rg[q], F[q]) /\ Clearing(rg[q], F[q])

Freeds == [q \in Queues |-> FreedSlot(q)]
None == [q \in Queues |-> {}]

\* A request between freeing a packet and clearing its slot stands at a packet that was
\* transmitted; without this RingSound is not inductive.
InWindow ==
  \A q \in Window \ overlap : ring[q].mem /\ ring[q].curr # ring[q].tail

JobOK ==
  /\ job \in [pc : {"idle", "free", "null", "release", "count", "unset"}, dev : Devs,
              i : Nat \cup Queues, kind : {"none", "down", "cell", "up", "set", "unset"}]
  /\ job.pc \in {"free", "null"} => /\ job.i \in 1 .. Len(txq[job.dev])
                                    /\ job.kind \in {"down", "cell"}
  /\ job.pc = "release" => job.i \in Nat \ {0}
  /\ job.pc = "unset" => job.i \in Queues

Inv ==
  /\ AllSound(ring, overlap, Freeds)
  /\ txq \in [Devs -> Seq(Queues)] /\ prio \in [Devs -> SUBSET Queues]
  /\ JobOK /\ InWindow /\ FreedOnce

\* The queue of the window is a queue.
LEMMA WindowQueue ==
  ASSUME txq \in [Devs -> Seq(Queues)], JobOK
  PROVE  Window \subseteq Queues
  BY DEF JobOK, Window

\* So does a step after which no reclaim loop is in progress.
LEMMA OutsideInv ==
  ASSUME JobOK', job'.pc \notin {"free", "null"},
         txq' \in [Devs -> Seq(Queues)], prio' \in [Devs -> SUBSET Queues],
         misfreed' \subseteq overlap', AllSound(ring', overlap', None)
  PROVE  Inv'
<1>1. Window' = {}
  BY DEF Window
<1>2. Freeds' = None
  BY DEF Freeds, FreedSlot, None
<1>. QED BY <1>1, <1>2 DEF Inv, InWindow, FreedOnce

\* Outside of the window of a request no slot holds a freed packet.
LEMMA NoneFreed == ASSUME Inv, job.pc # "null" PROVE AllSound(ring, overlap, None)
<1>1. Freeds = None
  BY DEF Freeds, FreedSlot, None
<1>. QED BY <1>1 DEF Inv

\* The transmit queue numbers of a device are queues ...
LEMMA ListedQueues ==
  ASSUME txq \in [Devs -> Seq(Queues)]
  PROVE  /\ \A d \in Devs : Listed(d) \subseteq Queues
         /\ ListedBy(Devs) \subseteq Queues
  BY DEF Listed, ListedBy, Range

\* ... and so is every queue a packet can be sent to.
LEMMA CandidateQueues ==
  ASSUME txq \in [Devs -> Seq(Queues)], prio \in [Devs -> SUBSET Queues], NEW d \in Devs
  PROVE  Candidates(d) \subseteq Queues
<1>1. txq[d] # <<>> => txq[d][1] \in Queues
  BY DEF Listed
<1>. QED BY <1>1 DEF Candidates

\* A step that leaves the rings and the request alone keeps the invariant.
LEMMA FrozenInv ==
  ASSUME Inv, UNCHANGED <<ring, job, txq, prio, overlap, misfreed>>
  PROVE  Inv'
  BY Zenon DEF Inv, AllSound, Freeds, FreedSlot, Window, JobOK, InWindow, FreedOnce

\* Traffic and the reclaim loops keep the invariant.  The steps before the last are the claims
\* it rests on: first about one ring, then about all of them, then one for each action.
LEMMA TrafficInv ==
  /\ Inv
  /\ \/ \E d \in Devs : bcmxtmrt_xmit(d) \/ loop_start(d, "down") \/ loop_start(d, "cell")
     \/ bcmxtmrt_timer \/ loop_free \/ loop_null
     \/ \E q \in Queues : transmit(q)
  => Inv'
\* Seen from an index b at distance n, everything else has moved n closer.
<1>DistFrom.
    ASSUME NEW a \in Idx, NEW b \in Idx, NEW i \in Idx
    PROVE  Dist(b, i) = IF Dist(a, i) >= Dist(a, b) THEN Dist(a, i) - Dist(a, b)
                        ELSE Dist(a, i) - Dist(a, b) + QSize
  BY Size DEF Dist, Idx

\* No two indices are at the same distance of a third.
<1>DistSame.
    ASSUME NEW a \in Idx, NEW b \in Idx, NEW c \in Idx, Dist(a, b) = Dist(a, c)
    PROVE  b = c
  BY <1>DistSame, Size DEF Dist, Idx

\* The least element of a set that has a lower bound in it.
<1>MinIs.
    ASSUME NEW S \in SUBSET Int, NEW x \in S, \A y \in S : x <= y
    PROVE  Min(S) = x
  <2>. USE <1>MinIs
  <2>1. \E m \in S : \A y \in S : m <= y
    OBVIOUS
  <2>2. Min(S) \in S /\ \A y \in S : Min(S) <= y
    BY <2>1, Zenon DEF Min
  <2>3. Min(S) \in Int /\ x \in Int /\ Min(S) <= x /\ x <= Min(S)
    BY <2>2, Zenon
  <2>. QED BY <2>3

\* What Sound says of one slot.
<1>SoundSlot.
    ASSUME NEW r \in Rings, NEW f, Sound(r, f), NEW i \in Idx
    PROVE  /\ r.slot[i] = "null" <=> Dist(r.curr, i) >= Dist(r.curr, r.head)
           /\ r.slot[i] = "freed" => i \in f
           /\ r.slot[i] = "live" => i \notin f
  <2>. USE <1>SoundSlot
  <2>1. r.slot[i] = IF Dist(r.curr, i) >= Dist(r.curr, r.head) THEN "null"
                    ELSE IF i \in f THEN "freed" ELSE "live"
    BY Zenon DEF Sound
  <2>. QED BY <2>1

\* In a sound ring the reclaim loop stops at the tail of the DMA engine.
<1>PendingIs.
    ASSUME NEW r \in Rings, Sound(r, {})
    PROVE  Pending(r) = Dist(r.curr, r.tail)
  <2>. USE <1>PendingIs
  <2>. DEFINE S == {Dist(r.curr, i) : i \in {j \in Idx : Stops(r, j)}}
  <2>0. r.curr \in Idx /\ r.tail \in Idx /\ r.head \in Idx
    BY DEF Rings
  <2>1. S \in SUBSET Int
    BY <2>0, DistIdx
  <2>2. Dist(r.curr, r.tail) \in S
    BY <2>0 DEF Stops
  <2>3. ASSUME NEW i \in Idx, Stops(r, i) PROVE Dist(r.curr, r.tail) <= Dist(r.curr, i)
    <3>1. Dist(r.curr, r.tail) <= Dist(r.curr, r.head)
      BY DEF Sound
    <3>2. r.slot[i] = "null" => Dist(r.curr, i) >= Dist(r.curr, r.head)
      BY <1>SoundSlot
    <3>3. Dist(r.curr, r.tail) \in Nat /\ Dist(r.curr, r.head) \in Nat /\ Dist(r.curr, i) \in Nat
      BY <2>0, DistIdx
    <3>. QED BY <2>3, <3>1, <3>2, <3>3 DEF Stops
  <2>4. \A y \in S : Dist(r.curr, r.tail) <= y
    BY <2>3
  <2>5. Pending(r) = Min(S)
    BY DEF Pending
  <2>. HIDE DEF S
  <2>. QED BY <2>1, <2>2, <2>4, <2>5, <1>MinIs, Zenon

\* Reclaiming a sound ring leaves a sound ring.
<1>ReclaimSound.
    ASSUME NEW r \in Rings, Sound(r, {})
    PROVE  /\ Reclaimed(r, Pending(r)) \in Rings
           /\ Sound(Reclaimed(r, Pending(r)), {})
           /\ Reclaimed(r, Pending(r)).mem = r.mem
           /\ \A i \in Idx : r.slot[i] # "freed"
  <2>. USE <1>ReclaimSound
  <2>. DEFINE n == Dist(r.curr, r.tail)
              t == Reclaimed(r, n)
  <2>0. r.curr \in Idx /\ r.tail \in Idx /\ r.head \in Idx /\ r.slot \in Slots
    BY DEF Rings
  <2>1. Pending(r) = n
    BY <1>PendingIs
  <2>2. n \in Nat /\ n <= r.qd /\ r.qd = Dist(r.curr, r.head) /\ r.qd \in Nat /\ r.qd < QSize
    <3>1. n \in Nat /\ Dist(r.curr, r.head) \in Nat /\ Dist(r.curr, r.head) < QSize
      BY <2>0, DistIdx
    <3>2. n <= Dist(r.curr, r.head) /\ r.qd = Dist(r.curr, r.head)
      BY DEF Sound
    <3>. QED BY <3>1, <3>2
  <2>3. (r.qd - n) % U32 = r.qd - n
    <3>1. r.qd - n \in Nat /\ U32 \in Nat /\ r.qd - n < U32
      BY <2>2, Size
    <3>. QED BY <3>1, ModSmall
  <2>4. Adv(r.curr, n) = r.tail
    BY <2>0, Size DEF Adv, Dist, Idx
  <2>5. r.qd - n \in 0 .. U32 - 1
    BY <2>2, Size
  <2>6. [i \in Idx |-> IF Dist(r.curr, i) < n THEN "null" ELSE r.slot[i]] \in Slots
    BY <2>0 DEF Slots
  <2>7. /\ t.curr = r.tail /\ t.qd = r.qd - n /\ t.head = r.head /\ t.tail = r.tail
        /\ t.slot = [i \in Idx |-> IF Dist(r.curr, i) < n THEN "null" ELSE r.slot[i]]
        /\ t.mem = r.mem /\ t \in Rings
    <3>. HIDE DEF n
    <3>. QED BY <2>0, <2>3, <2>4, <2>5, <2>6, Zenon DEF Rings, Reclaimed
  <2>8. \A i \in Idx : r.slot[i] # "freed"
    BY <1>SoundSlot
  <2>9. Sound(t, {})
    <3>. HIDE DEF t
    <3>1. Dist(t.curr, t.head) = r.qd - n /\ Dist(t.curr, t.tail) = 0
      <4>1. Dist(r.tail, r.head) = IF Dist(r.curr, r.head) >= Dist(r.curr, r.tail)
                                   THEN Dist(r.curr, r.head) - Dist(r.curr, r.tail)
                                   ELSE Dist(r.curr, r.head) - Dist(r.curr, r.tail) + QSize
        BY <2>0, <1>DistFrom
      <4>2. Dist(r.tail, r.tail) = 0
        BY <2>0, DistIdx
      <4>. HIDE DEF n
      <4>. QED BY <2>2, <2>7, <4>1, <4>2 DEF n
    <3>2. ASSUME NEW i \in Idx
          PROVE  t.slot[i] = IF Dist(t.curr, i) >= Dist(t.curr, t.head) THEN "null" ELSE "live"
      <4>1. t.slot[i] = IF Dist(r.curr, i) < n THEN "null" ELSE r.slot[i]
        BY <2>7
      <4>2. r.slot[i] = IF Dist(r.curr, i) >= r.qd THEN "null" ELSE "live"
        BY <2>2 DEF Sound
      <4>3. Dist(t.curr, i) = IF Dist(r.curr, i) >= n THEN Dist(r.curr, i) - n
                              ELSE Dist(r.curr, i) - n + QSize
        BY <2>0, <2>7, <1>DistFrom
      <4>4. Dist(r.curr, i) \in Nat /\ QSize \in Nat /\ r.qd < QSize
        BY <2>0, <2>2, DistIdx, Size
      <4>. QED BY <2>2, <3>1, <4>1, <4>2, <4>3, <4>4
    <3>. QED BY <2>2, <2>7, <3>1, <3>2 DEF Sound
  <2>. QED BY <2>1, <2>7, <2>8, <2>9

\* The numbers Sound relates, once for all.
<1>SoundNums.
    ASSUME NEW r \in Rings, NEW f, Sound(r, f)
    PROVE  /\ r.curr \in Idx /\ r.tail \in Idx /\ r.head \in Idx /\ r.slot \in Slots
           /\ r.qd = Dist(r.curr, r.head) /\ r.qd \in Nat /\ r.qd < QSize
           /\ Dist(r.curr, r.tail) \in Nat /\ Dist(r.curr, r.tail) <= r.qd
  <2>. USE <1>SoundNums
  <2>1. r.curr \in Idx /\ r.tail \in Idx /\ r.head \in Idx /\ r.slot \in Slots
    BY DEF Rings
  <2>2. /\ Dist(r.curr, r.head) \in Nat /\ Dist(r.curr, r.head) < QSize
        /\ Dist(r.curr, r.tail) \in Nat
    BY <2>1, DistIdx
  <2>3. r.qd = Dist(r.curr, r.head) /\ Dist(r.curr, r.tail) <= Dist(r.curr, r.head)
    BY DEF Sound
  <2>. QED BY <2>1, <2>2, <2>3

\* Enqueueing a packet on a sound ring that is not full leaves a sound ring.
<1>EnqueueSound.
    ASSUME NEW r \in Rings, NEW f, Sound(r, f), Clearing(r, f), ~Full(r)
    PROVE  /\ Enqueued(r) \in Rings /\ Sound(Enqueued(r), f)
           /\ Enqueued(r).mem = r.mem /\ Enqueued(r).curr = r.curr /\ Enqueued(r).tail = r.tail
  <2>. USE <1>EnqueueSound
  <2>. DEFINE t == Enqueued(r)
  <2>1. /\ r.curr \in Idx /\ r.tail \in Idx /\ r.head \in Idx /\ r.slot \in Slots
        /\ r.qd = Dist(r.curr, r.head) /\ r.qd \in Nat /\ r.qd < QSize
        /\ Dist(r.curr, r.tail) \in Nat /\ Dist(r.curr, r.tail) <= r.qd
    BY <1>SoundNums
  <2>2. Succ(r.head) \in Idx /\ Dist(r.curr, Succ(r.head)) = r.qd + 1 /\ r.qd + 1 < QSize
    <3>1. /\ Succ(r.head) \in Idx
          /\ Dist(r.curr, Succ(r.head)) = IF r.qd = QSize - 1 THEN 0 ELSE r.qd + 1
      BY <2>1, SuccIdx
    <3>2. Dist(r.curr, Succ(r.head)) # 0
      BY <2>1, <3>1, DistIdx DEF Full
    <3>. QED BY <2>1, <3>1, <3>2, Size
  <2>3. (r.qd + 1) % U32 = r.qd + 1 /\ r.qd + 1 \in 0 .. U32 - 1
    <3>1. r.qd + 1 \in Nat /\ r.qd + 1 < U32 /\ U32 \in Nat
      BY <2>1, <2>2, Size
    <3>. QED BY <3>1, ModSmall
  <2>4. [r.slot EXCEPT ![r.head] = "live"] \in Slots
    BY <2>1 DEF Slots
  <2>5. /\ t.slot = [r.slot EXCEPT ![r.head] = "live"] /\ t.head = Succ(r.head)
        /\ t.qd = r.qd + 1 /\ t.curr = r.curr /\ t.tail = r.tail /\ t.mem = r.mem
        /\ t \in Rings
    BY <2>2, <2>3, <2>4, Zenon DEF Rings, Enqueued
  <2>. HIDE DEF t
  <2>6. r.head \notin f
    BY <2>1, DistIdx DEF Clearing
  <2>7. ASSUME NEW i \in Idx
        PROVE  t.slot[i] = IF Dist(t.curr, i) >= Dist(t.curr, t.head) THEN "null"
                           ELSE IF i \in f THEN "freed" ELSE "live"
    <3>1. r.slot[i] = IF Dist(r.curr, i) >= r.qd THEN "null"
                      ELSE IF i \in f THEN "freed" ELSE "live"
      BY <2>1, Zenon DEF Sound
    <3>2. CASE i = r.head
      <4>1. t.slot[i] = "live" /\ Dist(t.curr, i) = r.qd /\ Dist(t.curr, t.head) = r.qd + 1
        BY <2>1, <2>2, <2>5, <3>2 DEF Slots
      <4>. QED BY <2>1, <2>6, <3>2, <4>1
    <3>3. CASE i # r.head
      <4>1. /\ t.slot[i] = r.slot[i] /\ Dist(t.curr, i) = Dist(r.curr, i)
            /\ Dist(t.curr, t.head) = r.qd + 1
        BY <2>1, <2>2, <2>5, <3>3 DEF Slots
      <4>2. Dist(r.curr, i) # r.qd /\ Dist(r.curr, i) \in Nat
        <5>1. Dist(r.curr, i) # Dist(r.curr, r.head)
          BY <2>1, <3>3, <1>DistSame
        <5>. QED BY <2>1, <5>1, DistIdx
      <4>. QED BY <2>1, <3>1, <4>1, <4>2
    <3>. QED BY <3>2, <3>3
  <2>8. Dist(t.curr, t.tail) <= Dist(t.curr, t.head) /\ t.qd = Dist(t.curr, t.head)
    BY <2>1, <2>2, <2>5
  <2>9. Sound(t, f)
    BY <2>7, <2>8, Zenon DEF Sound
  <2>. QED BY <2>5, <2>9 DEF t

\* So does the DMA engine, sending the frame at the tail.
<1>TransmitSound.
    ASSUME NEW r \in Rings, NEW f, Sound(r, f), Clearing(r, f), r.tail # r.head
    PROVE  LET t == [r EXCEPT !.tail = Succ(r.tail)]
           IN  t \in Rings /\ Sound(t, f) /\ Clearing(t, f) /\ t.curr # t.tail /\ t.mem = r.mem
  <2>. USE <1>TransmitSound
  <2>. DEFINE t == [r EXCEPT !.tail = Succ(r.tail)]
  <2>1. /\ r.curr \in Idx /\ r.tail \in Idx /\ r.head \in Idx /\ r.slot \in Slots
        /\ r.qd = Dist(r.curr, r.head) /\ r.qd \in Nat /\ r.qd < QSize
        /\ Dist(r.curr, r.tail) \in Nat /\ Dist(r.curr, r.tail) <= r.qd
    BY <1>SoundNums
  <2>2. Dist(r.curr, r.tail) # r.qd
    BY <2>1, <1>DistSame
  <2>3. Succ(r.tail) \in Idx /\ Dist(r.curr, Succ(r.tail)) = Dist(r.curr, r.tail) + 1
    BY <2>1, <2>2, SuccIdx, Size
  <2>4. /\ t \in Rings /\ t.tail = Succ(r.tail) /\ t.curr = r.curr /\ t.head = r.head
        /\ t.qd = r.qd /\ t.slot = r.slot /\ t.mem = r.mem
    BY <2>3 DEF Rings
  <2>. HIDE DEF t
  <2>5. t.curr # t.tail
    BY <2>1, <2>3, <2>4, DistIdx
  <2>6. Dist(t.curr, t.tail) <= Dist(t.curr, t.head)
    BY <2>1, <2>2, <2>3, <2>4
  <2>7. Sound(t, f)
    BY <2>4, <2>6, Zenon DEF Sound
  <2>. QED BY <2>4, <2>5, <2>7 DEF t, Clearing

\* A request frees the packet at the current index, if it was transmitted ...
<1>FreeSound.
    ASSUME NEW r \in Rings, Sound(r, {}), r.curr # r.tail
    PROVE  LET t == [r EXCEPT !.slot[r.curr] = "freed"]
           IN  /\ t \in Rings /\ Sound(t, {r.curr}) /\ t.curr = r.curr /\ t.tail = r.tail
               /\ t.mem = r.mem /\ r.slot[r.curr] = "live"
  <2>. USE <1>FreeSound
  <2>. DEFINE t == [r EXCEPT !.slot[r.curr] = "freed"]
  <2>1. /\ r.curr \in Idx /\ r.tail \in Idx /\ r.head \in Idx /\ r.slot \in Slots
        /\ r.qd = Dist(r.curr, r.head) /\ r.qd \in Nat /\ r.qd < QSize
        /\ Dist(r.curr, r.tail) \in Nat /\ Dist(r.curr, r.tail) <= r.qd
    BY <1>SoundNums
  <2>2. r.qd > 0 /\ Dist(r.curr, r.curr) = 0
    BY <2>1, DistIdx
  <2>3. [r.slot EXCEPT ![r.curr] = "freed"] \in Slots
    BY <2>1 DEF Slots
  <2>4. /\ t \in Rings /\ t.slot = [r.slot EXCEPT ![r.curr] = "freed"] /\ t.curr = r.curr
        /\ t.head = r.head /\ t.tail = r.tail /\ t.qd = r.qd /\ t.mem = r.mem
    BY <2>3 DEF Rings
  <2>. HIDE DEF t
  <2>5. ASSUME NEW i \in Idx
        PROVE  t.slot[i] = IF Dist(t.curr, i) >= Dist(t.curr, t.head) THEN "null"
                           ELSE IF i \in {r.curr} THEN "freed" ELSE "live"
    <3>1. r.slot[i] = IF Dist(r.curr, i) >= Dist(r.curr, r.head) THEN "null" ELSE "live"
      BY DEF Sound
    <3>. QED BY <2>1, <2>2, <2>4, <3>1 DEF Slots
  <2>6. Sound(t, {r.curr})
    BY <2>1, <2>4, <2>5, Zenon DEF Sound
  <2>7. r.slot[r.curr] = "live"
    BY <2>1, <2>2 DEF Sound
  <2>. QED BY <2>4, <2>6, <2>7 DEF t

\* ... and clears its slot.
<1>ClearSound.
    ASSUME NEW r \in Rings, Sound(r, {r.curr}), r.curr # r.tail
    PROVE  LET t == [r EXCEPT !.slot[r.curr] = "null", !.curr = Succ(r.curr),
                              !.qd = (r.qd - 1) % U32]
           IN  t \in Rings /\ Sound(t, {}) /\ t.mem = r.mem
  <2>. USE <1>ClearSound
  <2>. DEFINE t == [r EXCEPT !.slot[r.curr] = "null", !.curr = Succ(r.curr),
                             !.qd = (r.qd - 1) % U32]
  <2>1. /\ r.curr \in Idx /\ r.tail \in Idx /\ r.head \in Idx /\ r.slot \in Slots
        /\ r.qd = Dist(r.curr, r.head) /\ r.qd \in Nat /\ r.qd < QSize
        /\ Dist(r.curr, r.tail) \in Nat /\ Dist(r.curr, r.tail) <= r.qd
    BY <1>SoundNums
  <2>2. Dist(r.curr, r.tail) > 0 /\ Dist(r.curr, r.curr) = 0
    BY <2>1, DistIdx
  <2>3. (r.qd - 1) % U32 = r.qd - 1 /\ r.qd - 1 \in 0 .. U32 - 1
    <3>1. r.qd - 1 \in Nat /\ r.qd - 1 < U32 /\ U32 \in Nat
      BY <2>1, <2>2, Size
    <3>. QED BY <3>1, ModSmall
  <2>4. Succ(r.curr) \in Idx /\ Dist(r.curr, Succ(r.curr)) = 1
    BY <2>1, <2>2, SuccIdx, Size
  <2>5. [r.slot EXCEPT ![r.curr] = "null"] \in Slots
    BY <2>1 DEF Slots
  <2>6. /\ t \in Rings /\ t.slot = [r.slot EXCEPT ![r.curr] = "null"] /\ t.curr = Succ(r.curr)
        /\ t.head = r.head /\ t.tail = r.tail /\ t.qd = r.qd - 1 /\ t.mem = r.mem
    BY <2>3, <2>4, <2>5, Zenon DEF Rings
  <2>. HIDE DEF t
  <2>7. ASSUME NEW i \in Idx
        PROVE  Dist(t.curr, i) = IF Dist(r.curr, i) >= 1 THEN Dist(r.curr, i) - 1 ELSE QSize - 1
    <3>1. Dist(t.curr, i) = IF Dist(r.curr, i) >= Dist(r.curr, t.curr)
                            THEN Dist(r.curr, i) - Dist(r.curr, t.curr)
                            ELSE Dist(r.curr, i) - Dist(r.curr, t.curr) + QSize
      BY <2>1, <2>4, <2>6, <1>DistFrom
    <3>2. Dist(r.curr, i) \in Nat /\ Dist(r.curr, t.curr) = 1 /\ QSize \in Nat
      BY <2>1, <2>4, <2>6, DistIdx, Size
    <3>. QED BY <3>1, <3>2
  <2>8. Dist(t.curr, t.head) = r.qd - 1 /\ Dist(t.curr, t.tail) = Dist(r.curr, r.tail) - 1
    BY <2>1, <2>2, <2>6, <2>7
  <2>9. ASSUME NEW i \in Idx
        PROVE  t.slot[i] = IF Dist(t.curr, i) >= Dist(t.curr, t.head) THEN "null" ELSE "live"
    <3>1. r.slot[i] = IF Dist(r.curr, i) >= r.qd THEN "null"
                      ELSE IF i = r.curr THEN "freed" ELSE "live"
      BY <2>1 DEF Sound
    <3>2. Dist(r.curr, i) \in Nat /\ (Dist(r.curr, i) = 0 <=> r.curr = i)
      BY <2>1, DistIdx
    <3>3. t.slot[i] = IF i = r.curr THEN "null" ELSE r.slot[i]
      BY <2>1, <2>6 DEF Slots
    <3>. QED BY <2>1, <2>2, <2>7, <2>8, <3>1, <3>2, <3>3, Size
  <2>10. Sound(t, {})
    BY <2>1, <2>2, <2>6, <2>8, <2>9 DEF Sound
  <2>. QED BY <2>6, <2>10 DEF t

\* A packet sent on sound rings leaves them sound, and no other ring changes.
<1>SendSound.
    ASSUME NEW rg, NEW all, NEW ov, NEW F, NEW q \in Queues,
           AllSound(rg, ov, F), Send(q, rg, all)
    PROVE  /\ AllSound(ring', ov, F)
           /\ \A p \in Queues \ ov : /\ ring'[p].mem = rg[p].mem
                                     /\ ring'[p].curr = rg[p].curr /\ ring'[p].tail = rg[p].tail
  <2>. USE <1>SendSound
  <2>1. CASE ring' = rg
    BY <2>1 DEF AllSound
  <2>2. CASE ~SendDies(rg[q], all) /\ ~Full(rg[q]) /\ ring' = [rg EXCEPT ![q] = Enqueued(rg[q])]
    <3>1. rg[q].mem
      BY <2>2 DEF SendDies
    <3>2. ring' = [p \in Queues |-> ring'[p]] /\ ring'[q] = Enqueued(rg[q])
      BY <2>2 DEF AllSound
    <3>3. ASSUME NEW p \in Queues \ ov, p # q PROVE ring'[p] = rg[p]
      BY <2>2, <3>3 DEF AllSound
    <3>4. ASSUME q \notin ov
          PROVE  /\ ring'[q] \in Rings /\ Sound(ring'[q], F[q]) /\ Clearing(ring'[q], F[q])
                 /\ ring'[q].mem = rg[q].mem
                 /\ ring'[q].curr = rg[q].curr /\ ring'[q].tail = rg[q].tail
      <4>1. rg[q] \in Rings /\ Sound(rg[q], F[q]) /\ Clearing(rg[q], F[q])
        BY <3>1, <3>4 DEF AllSound
      <4>2. /\ Enqueued(rg[q]) \in Rings /\ Sound(Enqueued(rg[q]), F[q])
            /\ Enqueued(rg[q]).mem = rg[q].mem /\ Enqueued(rg[q]).curr = rg[q].curr
            /\ Enqueued(rg[q]).tail = rg[q].tail
        BY <2>2, <4>1, <1>EnqueueSound
      <4>. QED BY <3>2, <4>1, <4>2 DEF Clearing
    <3>. QED BY <3>2, <3>3, <3>4 DEF AllSound
  <2>. QED BY <2>1, <2>2, Zenon DEF Send

\* A softirq that reclaims the queues S leaves the rings sound it does not share with
\* the reclaim loop of a request, and the slot this is clearing alone.
<1>SoftSound.
    ASSUME Inv, NEW S \in SUBSET Queues, Backed(S), SoftReclaim(S)
    PROVE  /\ AllSound(AfterReclaim(S), overlap', Freeds)
           /\ \A q \in (Window \cap Queues) \ overlap' : AfterReclaim(S)[q] = ring[q]
           /\ misfreed' \subseteq overlap'
  <2>. USE <1>SoftSound
  <2>1. overlap' = overlap \cup (S \cap Window)
    BY DEF SoftReclaim
  <2>2. AfterReclaim(S) = [q \in Queues |-> AfterReclaim(S)[q]]
    BY DEF AfterReclaim
  <2>3. ASSUME NEW q \in S, q \notin overlap'
        PROVE  /\ Reclaimed(ring[q], Pending(ring[q])) \in Rings
               /\ Sound(Reclaimed(ring[q], Pending(ring[q])), {})
               /\ \A i \in Idx : ring[q].slot[i] # "freed"
               /\ Freeds[q] = {}
    <3>1. q \in Queues \ overlap /\ q \notin Window /\ ring[q].mem
      BY <2>1, <2>3 DEF Backed
    <3>2. Freeds[q] = {}
      BY <3>1 DEF Freeds, FreedSlot
    <3>3. ring[q] \in Rings /\ Sound(ring[q], {})
      BY <3>1, <3>2, Zenon DEF Inv, AllSound
    <3>. QED BY <3>2, <3>3, <1>ReclaimSound
  <2>4. ASSUME NEW q \in Queues, q \notin overlap'
        PROVE  /\ AfterReclaim(S)[q] \in Rings
               /\ AfterReclaim(S)[q].mem => Sound(AfterReclaim(S)[q], Freeds[q])
                                            /\ Clearing(AfterReclaim(S)[q], Freeds[q])
    <3>1. CASE q \in S
      BY <2>3, <2>4, <3>1 DEF AfterReclaim, Clearing
    <3>2. CASE q \notin S
      <4>1. AfterReclaim(S)[q] = ring[q] /\ q \notin overlap
        BY <2>1, <2>4, <3>2 DEF AfterReclaim
      <4>. QED BY <4>1 DEF Inv, AllSound
    <3>. QED BY <3>1, <3>2
  <2>5. \A q \in (Window \cap Queues) \ overlap' : AfterReclaim(S)[q] = ring[q]
    BY <2>1 DEF AfterReclaim
  <2>6. misfreed' \subseteq overlap'
    BY <2>1, <2>3 DEF SoftReclaim, Inv, FreedOnce
  <2>. QED BY <2>2, <2>4, <2>5, <2>6 DEF AllSound

\* A step that leaves the request where it is keeps the invariant if it keeps the rings
\* sound and does not touch the slot that the request is clearing.
<1>StayInv.
    ASSUME Inv, UNCHANGED <<job, txq, prio>>,
           overlap \subseteq overlap', misfreed' \subseteq overlap',
           AllSound(ring', overlap', Freeds),
           \A q \in Window \ overlap' : /\ ring'[q].mem /\ ring'[q].curr # ring'[q].tail
                                        /\ ring'[q].curr = ring[q].curr
    PROVE  Inv'
  <2>. USE <1>StayInv
  <2>1. Window' = Window /\ Window \subseteq Queues
    BY WindowQueue DEF Window, Inv
  <2>2. ASSUME NEW q \in Queues \ overlap' PROVE Freeds'[q] = Freeds[q]
    BY <2>1, <2>2, Zenon DEF Freeds, FreedSlot
  <2>3. AllSound(ring', overlap', Freeds')
    BY <2>2 DEF AllSound
  <2>4. InWindow'
    BY <2>1 DEF InWindow
  <2>5. JobOK'
    BY DEF Inv, JobOK
  <2>. QED BY <2>3, <2>4, <2>5 DEF Inv, FreedOnce

\* The senders and the timer.
<1>SoftInv.
    ASSUME Inv, NEW S \in SUBSET Queues, Backed(S), SoftReclaim(S), UNCHANGED <<job, txq, prio>>,
           NEW all,
           \/ ring' = AfterReclaim(S)
           \/ \E q \in Queues : Send(q, AfterReclaim(S), all)
    PROVE  Inv'
  <2>. USE <1>SoftInv
  <2>. DEFINE rg == AfterReclaim(S)
  <2>1. /\ AllSound(rg, overlap', Freeds)
        /\ \A q \in (Window \cap Queues) \ overlap' : rg[q] = ring[q]
        /\ misfreed' \subseteq overlap'
    BY <1>SoftSound
  <2>2. overlap \subseteq overlap' /\ Window \subseteq Queues
    BY WindowQueue DEF SoftReclaim, Inv
  <2>. HIDE DEF rg
  <2>3. /\ AllSound(ring', overlap', Freeds)
        /\ \A p \in Queues \ overlap' : /\ ring'[p].mem = rg[p].mem /\ ring'[p].curr = rg[p].curr
                                        /\ ring'[p].tail = rg[p].tail
    BY <2>1, <1>SendSound, SMTT(30) DEF rg
  <2>4. \A q \in Window \ overlap' : /\ ring'[q].mem /\ ring'[q].curr # ring'[q].tail
                                     /\ ring'[q].curr = ring[q].curr
    <3>1. \A q \in Window \ overlap : ring[q].mem /\ ring[q].curr # ring[q].tail
      BY DEF Inv, InWindow
    <3>. QED BY <2>1, <2>2, <2>3, <3>1, SMTT(30)
  <2>. QED BY <2>1, <2>2, <2>3, <2>4, <1>StayInv

\* bcmxtmrt_xmit keeps the invariant, wherever it interrupts a request ...
<1>XmitInv. ASSUME Inv, NEW d \in Devs, bcmxtmrt_xmit(d) PROVE Inv'
  <2>. USE <1>XmitInv
  <2>1. UNCHANGED <<job, txq, prio>>
    BY DEF bcmxtmrt_xmit
  <2>2. CASE Backed(Listed(d))
    <3>1. /\ SoftReclaim(Listed(d))
          /\ \/ ring' = AfterReclaim(Listed(d))
             \/ \E q \in Candidates(d) : Send(q, AfterReclaim(Listed(d)), QdAllAfter(Listed(d)))
      BY <2>2, Zenon DEF bcmxtmrt_xmit, NoSend
    <3>2. Listed(d) \in SUBSET Queues /\ Candidates(d) \subseteq Queues
      BY ListedQueues, CandidateQueues DEF Inv
    <3>3. \/ ring' = AfterReclaim(Listed(d))
          \/ \E q \in Queues : Send(q, AfterReclaim(Listed(d)), QdAllAfter(Listed(d)))
      BY <3>1, <3>2, Zenon
    <3>. QED BY <2>1, <2>2, <3>1, <3>2, <3>3, <1>SoftInv
  <2>3. CASE ~Backed(Listed(d))
    <3>1. UNCHANGED <<ring, overlap, misfreed>>
      BY <2>3, Zenon DEF bcmxtmrt_xmit
    <3>. QED BY <2>1, <3>1, FrozenInv
  <2>. QED BY <2>2, <2>3

\* ... and so does bcmxtmrt_timer ...
<1>TimerInv. ASSUME Inv, bcmxtmrt_timer PROVE Inv'
  <2>. USE <1>TimerInv
  <2>. DEFINE S == ListedBy(Devs)
  <2>1. UNCHANGED <<job, txq, prio>> /\ S \in SUBSET Queues
    BY ListedQueues DEF bcmxtmrt_timer, Inv
  <2>2. CASE Backed(S)
    <3>1. SoftReclaim(S) /\ ring' = AfterReclaim(S)
      BY <2>2, Zenon DEF bcmxtmrt_timer
    <3>. HIDE DEF S
    <3>. QED BY <2>1, <2>2, <3>1, <1>SoftInv
  <2>3. CASE ~Backed(S)
    <3>1. UNCHANGED <<ring, overlap, misfreed>>
      BY <2>3, Zenon DEF bcmxtmrt_timer
    <3>. QED BY <2>1, <3>1, FrozenInv
  <2>. QED BY <2>2, <2>3

\* ... and the DMA engine, which only moves tails.
<1>TransmitInv. ASSUME Inv, NEW q \in Queues, transmit(q) PROVE Inv'
  <2>. USE <1>TransmitInv
  <2>1. /\ UNCHANGED <<job, txq, prio, overlap, misfreed>>
        /\ ring[q].mem /\ ring[q].tail # ring[q].head
        /\ ring' = [ring EXCEPT ![q].tail = Succ(ring[q].tail)]
    BY DEF transmit, hist
  <2>2. ring' = [p \in Queues |-> ring'[p]] /\ \A p \in Queues \ {q} : ring'[p] = ring[p]
    BY <2>1, Zenon DEF Inv, AllSound
  <2>3. ASSUME q \notin overlap
        PROVE  /\ ring'[q] \in Rings /\ Sound(ring'[q], Freeds[q]) /\ Clearing(ring'[q], Freeds[q])
               /\ ring'[q].curr # ring'[q].tail /\ ring'[q].curr = ring[q].curr /\ ring'[q].mem
    <3>1. ring[q] \in Rings /\ Sound(ring[q], Freeds[q]) /\ Clearing(ring[q], Freeds[q])
      BY <2>1, <2>3 DEF Inv, AllSound
    <3>2. ring'[q] = [ring[q] EXCEPT !.tail = Succ(ring[q].tail)]
      BY <2>1 DEF Inv, AllSound
    <3>3. ring'[q].curr = ring[q].curr
      BY <3>1, <3>2 DEF Rings
    <3>4. /\ ring'[q] \in Rings /\ Sound(ring'[q], Freeds[q]) /\ Clearing(ring'[q], Freeds[q])
          /\ ring'[q].curr # ring'[q].tail /\ ring'[q].mem
      <4>. DEFINE r == ring[q]
                  t == [r EXCEPT !.tail = Succ(r.tail)]
                  f == Freeds[q]
      <4>1. r \in Rings /\ Sound(r, f) /\ Clearing(r, f) /\ r.tail # r.head /\ r.mem /\ ring'[q] = t
        BY <2>1, <3>1, <3>2
      <4>. HIDE DEF r, f
      <4>2. t \in Rings /\ Sound(t, f) /\ Clearing(t, f) /\ t.curr # t.tail /\ t.mem = r.mem
        BY ONLY <4>1, <1>TransmitSound, Zenon
      <4>. HIDE DEF t
      <4>. QED BY <4>1, <4>2 DEF f
    <3>. QED BY <3>3, <3>4
  <2>4. AllSound(ring', overlap', Freeds)
    BY <2>1, <2>2, <2>3 DEF Inv, AllSound
  <2>5. Window \subseteq Queues
    BY WindowQueue DEF Inv
  <2>6. \A p \in Window \ overlap' : /\ ring'[p].mem /\ ring'[p].curr # ring'[p].tail
                                     /\ ring'[p].curr = ring[p].curr
    BY <2>1, <2>2, <2>3, <2>5 DEF Inv, InWindow
  <2>7. overlap \subseteq overlap' /\ misfreed' \subseteq overlap'
    BY <2>1 DEF Inv, FreedOnce
  <2>. QED BY <2>1, <2>4, <2>6, <2>7, <1>StayInv

\* The reclaim loop of a request, from rings rg that are sound.
<1>LoopInv.
    ASSUME Inv, NEW d \in Devs, NEW kind \in {"down", "cell"}, NEW rg, NEW all, NEW i \in Nat \ {0},
           AllSound(rg, overlap, None), Loop(d, kind, rg, all, i),
           UNCHANGED <<txq, prio, overlap, misfreed>>
    PROVE  Inv'
  <2>. USE <1>LoopInv
  <2>0. /\ txq' \in [Devs -> Seq(Queues)] /\ prio' \in [Devs -> SUBSET Queues]
        /\ misfreed' \subseteq overlap'
    BY DEF Inv, FreedOnce
  <2>1. /\ NoJob \in [pc : {"idle"}, dev : Devs, i : {0}, kind : {"none"}]
        /\ NoJob.pc = "idle"
    BY XtmTxAssumption DEF NoJob
  <2>2. CASE job' = NoJob /\ ring' = rg
    <3>1. JobOK' /\ job'.pc \notin {"free", "null"}
      BY <2>1, <2>2 DEF JobOK
    <3>. QED BY <2>0, <2>2, <3>1, OutsideInv
  <2>3. CASE job' = [pc |-> "release", dev |-> d, i |-> 1, kind |-> "down"] /\ ring' = rg
    <3>1. JobOK' /\ job'.pc \notin {"free", "null"}
      BY <2>3 DEF JobOK
    <3>. QED BY <2>0, <2>3, <3>1, OutsideInv
  <2>4. ASSUME job' = NoJob, NEW q \in Candidates(d), Send(q, rg, all) PROVE Inv'
    <3>1. q \in Queues
      BY CandidateQueues DEF Inv
    <3>2. AllSound(ring', overlap', None)
      BY <2>4, <3>1, <1>SendSound
    <3>3. JobOK' /\ job'.pc \notin {"free", "null"}
      BY <2>1, <2>4 DEF JobOK
    <3>. QED BY <2>0, <3>2, <3>3, OutsideInv
  <2>5. ASSUME NEW j \in Frees(d, rg, i), ring' = rg,
               job' = [pc |-> "free", dev |-> d, i |-> j, kind |-> kind]
        PROVE  Inv'
    <3>0. j \in Frees(d, rg, i) /\ txq \in [Devs -> Seq(Queues)]
      BY <2>5 DEF Inv
    <3>1. /\ j \in 1 .. Len(txq[d])
          /\ rg[txq[d][j]].mem /\ ~Stops(rg[txq[d][j]], rg[txq[d][j]].curr)
      BY ONLY <3>0, i \in Nat \ {0} DEF Frees
    <3>2. Window' = {txq[d][j]} /\ job'.pc = "free"
      BY <2>5 DEF Window
    <3>3. Freeds' = None
      BY <3>2 DEF Freeds, FreedSlot, None
    <3>4. InWindow'
      BY <2>5, <3>1, <3>2 DEF InWindow, Stops
    <3>5. JobOK'
      <4>1. j \in Nat \ {0} /\ txq' = txq
        BY ONLY <3>1, UNCHANGED <<txq, prio, overlap, misfreed>>
      <4>2. /\ job' = [pc |-> "free", dev |-> d, i |-> j, kind |-> kind]
            /\ d \in Devs /\ kind \in {"down", "cell"} /\ j \in 1 .. Len(txq'[d])
        BY <2>5, <3>1, <4>1
      <4>. QED BY ONLY <4>1, <4>2, SMTT(30) DEF JobOK
    <3>. QED BY <2>0, <2>5, <3>3, <3>4, <3>5 DEF Inv, FreedOnce
  <2>. QED BY <2>2, <2>3, <2>4, <2>5, Zenon DEF Loop, LoopEnds, NoSend

\* The reclaim loop of a request starts at sound rings ...
<1>LoopStartInv.
    ASSUME Inv, NEW d \in Devs, NEW kind \in {"down", "cell"}, loop_start(d, kind)
    PROVE  Inv'
  <2>. USE <1>LoopStartInv
  <2>1. job.pc = "idle" /\ Loop(d, kind, ring, qdAll, 1) /\ UNCHANGED <<txq, prio, overlap, misfreed>>
    BY DEF loop_start, hist
  <2>. QED BY <2>1, NoneFreed, <1>LoopInv

\* ... frees the packet at the current index of one of them ...
<1>LoopFreeInv. ASSUME Inv, loop_free PROVE Inv'
  <2>. USE <1>LoopFreeInv
  <2>. DEFINE q == txq[job.dev][job.i]
  <2>0. job.pc = "free" /\ job' = [job EXCEPT !.pc = "null"] /\ txq' = txq
    BY Zenon DEF loop_free
  <2>1. /\ job.pc = "free" /\ UNCHANGED <<txq, prio, overlap>>
        /\ job' = [job EXCEPT !.pc = "null"]
        /\ ring' = IF ring[q].slot[ring[q].curr] = "null" THEN ring
                   ELSE [ring EXCEPT ![q].slot[ring[q].curr] = "freed"]
        /\ misfreed' = IF \/ ring[q].slot[ring[q].curr] = "freed"
                          \/ ring[q].slot[ring[q].curr] = "live" /\ ring[q].curr = ring[q].tail
                       THEN misfreed \cup {q} ELSE misfreed
    BY Zenon DEF loop_free
  <2>2. Window = {q} /\ q \in Queues
    BY <2>0 DEF Window, Inv, JobOK
  <2>3. job'.pc = "null" /\ job'.dev = job.dev /\ job'.i = job.i
    BY <2>0 DEF Inv, JobOK
  <2>4. Window' = {q} /\ JobOK'
    BY <2>0, <2>3 DEF Window, JobOK, Inv
  <2>5. Freeds' = [p \in Queues |-> IF p = q THEN {ring'[q].curr} ELSE {}]
    BY <2>3, <2>4 DEF Freeds, FreedSlot
  <2>. HIDE DEF q
  <2>6. AllSound(ring, overlap, None)
    BY <2>1, NoneFreed
  <2>7. ring' = [p \in Queues |-> ring'[p]] /\ \A p \in Queues \ {q} : ring'[p] = ring[p]
    BY <2>1, <2>6, Zenon DEF AllSound
  <2>8. ASSUME q \notin overlap
        PROVE  /\ ring'[q] \in Rings /\ Sound(ring'[q], {ring'[q].curr})
               /\ ring'[q].mem /\ ring'[q].curr # ring'[q].tail /\ misfreed' = misfreed
    <3>1. /\ ring[q].mem /\ ring[q].curr # ring[q].tail
          /\ ring[q] \in Rings /\ Sound(ring[q], {})
      BY <2>2, <2>6, <2>8 DEF Inv, InWindow, AllSound, None
    <3>2. ring[q].slot[ring[q].curr] = "live"
      BY <3>1, <1>FreeSound, Zenon
    <3>3. ring'[q] = [ring[q] EXCEPT !.slot[ring[q].curr] = "freed"]
      BY <2>1, <2>2, <2>6, <3>2 DEF AllSound
    <3>4. misfreed' = misfreed
      BY <2>1, <3>1, <3>2
    <3>. QED BY <3>1, <3>3, <3>4, <1>FreeSound
  <2>9. AllSound(ring', overlap', Freeds')
    <3>. SUFFICES ASSUME NEW p \in Queues \ overlap
                 PROVE  /\ ring'[p] \in Rings
                        /\ ring'[p].mem => /\ Sound(ring'[p], Freeds'[p])
                                           /\ Clearing(ring'[p], Freeds'[p])
      BY <2>1, <2>7 DEF AllSound
    <3>1. CASE p = q
      BY <2>5, <2>8, <3>1 DEF Clearing
    <3>2. CASE p # q
      <4>1. Freeds'[p] = {} /\ ring'[p] = ring[p]
        BY <2>5, <2>7, <3>2
      <4>. QED BY <2>6, <4>1 DEF AllSound, None
    <3>. QED BY <3>1, <3>2
  <2>10. InWindow'
    BY <2>1, <2>4, <2>8 DEF InWindow
  <2>11. FreedOnce'
    BY <2>1, <2>8 DEF Inv, FreedOnce
  <2>. QED BY <2>1, <2>4, <2>9, <2>10, <2>11 DEF Inv

\* ... and, having cleared the slot, turns to the next packet or ring.
<1>LoopNullInv. ASSUME Inv, loop_null PROVE Inv'
  <2>. USE <1>LoopNullInv
  <2>. DEFINE q == txq[job.dev][job.i]
              r == ring[q]
              cleared == [r EXCEPT !.slot[r.curr] = "null", !.curr = Succ(r.curr),
                                   !.qd = (r.qd - 1) % U32]
              rg == [ring EXCEPT ![q] = cleared]
  <2>1. /\ job.pc = "null" /\ UNCHANGED <<txq, prio, overlap, misfreed>>
        /\ Loop(job.dev, job.kind, rg, (qdAll - 1) % U32, job.i)
    BY Zenon DEF loop_null, hist
  <2>2. Window = {q} /\ q \in Queues /\ job.i \in Nat \ {0} /\ job.dev \in Devs
        /\ job.kind \in {"down", "cell"}
    <3>1. JobOK /\ txq \in [Devs -> Seq(Queues)]
      BY DEF Inv
    <3>2. /\ job.dev \in Devs /\ job.kind \in {"down", "cell"}
          /\ job.i \in 1 .. Len(txq[job.dev])
      BY ONLY <2>1, <3>1 DEF JobOK
    <3>3. q \in Queues /\ job.i \in Nat \ {0}
      BY ONLY <3>1, <3>2
    <3>. QED BY ONLY <2>1, <3>2, <3>3 DEF Window
  <2>3. Freeds = [p \in Queues |-> IF p = q THEN {r.curr} ELSE {}]
    BY <2>1, <2>2, Zenon DEF Freeds, FreedSlot
  <2>. HIDE DEF q
  <2>4. rg = [p \in Queues |-> rg[p]] /\ rg[q] = cleared /\ \A p \in Queues \ {q} : rg[p] = ring[p]
    BY <2>2 DEF Inv, AllSound
  <2>5. ASSUME q \notin overlap PROVE cleared \in Rings /\ Sound(cleared, {})
    <3>1. r.mem /\ r.curr # r.tail
      BY <2>2, <2>5 DEF Inv, InWindow
    <3>2. r \in Rings /\ Sound(r, {r.curr})
      BY <2>2, <2>3, <2>5, <3>1, Zenon DEF Inv, AllSound
    <3>. QED BY <3>1, <3>2, <1>ClearSound, Zenon
  <2>6. AllSound(rg, overlap, None)
    <3>. HIDE DEF rg, cleared
    <3>. SUFFICES ASSUME NEW p \in Queues \ overlap
                 PROVE  /\ rg[p] \in Rings
                        /\ rg[p].mem => Sound(rg[p], {}) /\ Clearing(rg[p], {})
      BY <2>4 DEF AllSound, None
    <3>1. CASE p = q
      BY <2>4, <2>5, <3>1 DEF Clearing
    <3>2. CASE p # q
      <4>1. Freeds[p] = {} /\ rg[p] = ring[p]
        BY <2>3, <2>4, <3>2
      <4>. QED BY <4>1, Zenon DEF Inv, AllSound
    <3>. QED BY <3>1, <3>2
  <2>. HIDE DEF rg
  <2>. QED BY <2>1, <2>2, <2>6, <1>LoopInv
<1>. QED BY <1>XmitInv, <1>TimerInv, <1>TransmitInv, <1>LoopStartInv, <1>LoopFreeInv,
             <1>LoopNullInv, Zenon

-----------------------------------------------------------------------------
\* What a request other than the reclaim loop does to a ring.
ChangesUse(r, t) ==
  \/ t = r \/ t = Fresh \/ t = Zeroed \/ t = [Zeroed EXCEPT !.use = 1]
  \/ \E n \in Int : t = [r EXCEPT !.use = n]

\* A ring just allocated, or just given up, is sound.
LEMMA NewRings ==
  /\ Zeroed \in Rings /\ ~Zeroed.mem
  /\ [Zeroed EXCEPT !.use = 1] \in Rings /\ ~[Zeroed EXCEPT !.use = 1].mem
  /\ Fresh \in Rings /\ Sound(Fresh, {})
<1>1. 0 \in Idx /\ 0 \in 0 .. U32 - 1 /\ NoSkbs \in Slots
  BY Size DEF Idx, NoSkbs, Slots
<1>2. /\ Zeroed \in Rings /\ ~Zeroed.mem
      /\ [Zeroed EXCEPT !.use = 1] \in Rings /\ ~[Zeroed EXCEPT !.use = 1].mem
      /\ Fresh \in Rings
  <2>1. Zeroed \in Rings
    BY <1>1, FALSE \in BOOLEAN DEF Zeroed, Rings
  <2>2. Zeroed.mem = FALSE
    BY DEF Zeroed
  <2>3. [Zeroed EXCEPT !.use = 1] \in Rings
    BY <2>1 DEF Rings
  <2>4. [Zeroed EXCEPT !.use = 1].mem = FALSE
    BY <2>1, <2>2 DEF Rings
  <2>5. Fresh \in Rings
    BY <1>1, TRUE \in BOOLEAN DEF Fresh, Rings
  <2>. QED BY <2>1, <2>2, <2>3, <2>4, <2>5, Zenon
<1>3. /\ Fresh.slot = NoSkbs /\ Fresh.curr = 0 /\ Fresh.head = 0 /\ Fresh.tail = 0
      /\ Fresh.qd = 0
  BY DEF Fresh
<1>4. Dist(0, 0) = 0 /\ \A i \in Idx : Dist(0, i) >= 0 /\ NoSkbs[i] = "null"
  BY <1>1, Size DEF Dist, Idx, NoSkbs
<1>5. Sound(Fresh, {})
  BY <1>3, <1>4 DEF Sound
<1>. QED BY <1>2, <1>5

\* The other steps of requests, which list, share, give up and free rings, keep it, too.
LEMMA RequestInv ==
  /\ Inv
  /\ \/ \E d \in Devs : \/ DoLinkUp(d)
                        \/ \E n \in 1 .. Len(QueuesOf[d]) : DoLinkUp_nomem(d, n)
                        \/ \E q \in Queues : set_list(d, q) \/ set_nomem(d, q)
                        \/ \E i \in 1 .. Len(txq[d]) : unset_unlist(d, i)
     \/ release \/ down_end \/ up_failed \/ set_count \/ unset_free
  => Inv'
\* Such changes keep the rings sound.
<1>UseSound.
    ASSUME AllSound(ring, overlap, None), ring' = [q \in Queues |-> ring'[q]],
           \A q \in Queues \ overlap : ChangesUse(ring[q], ring'[q]),
           \A q \in Queues \ overlap' : q \in overlap => ring'[q] = Zeroed
    PROVE  AllSound(ring', overlap', None)
  <2>. USE <1>UseSound
  <2>. SUFFICES ASSUME NEW q \in Queues \ overlap'
               PROVE  ring'[q] \in Rings /\ (ring'[q].mem => Sound(ring'[q], {}))
    BY DEF AllSound, None, Clearing
  <2>1. CASE ring'[q] \in {Fresh, Zeroed, [Zeroed EXCEPT !.use = 1]}
    BY <2>1, NewRings, Zenon
  <2>2. CASE q \notin overlap /\ ring'[q] = ring[q]
    BY <2>2 DEF AllSound, None
  <2>3. ASSUME q \notin overlap, NEW n \in Int, ring'[q] = [ring[q] EXCEPT !.use = n]
        PROVE  ring'[q] \in Rings /\ (ring'[q].mem => Sound(ring'[q], {}))
    <3>1. ring[q] \in Rings /\ (ring[q].mem => Sound(ring[q], {}))
      BY <2>3 DEF AllSound, None
    <3>2. /\ ring'[q] \in Rings /\ ring'[q].mem = ring[q].mem /\ ring'[q].curr = ring[q].curr
          /\ ring'[q].head = ring[q].head /\ ring'[q].tail = ring[q].tail
          /\ ring'[q].qd = ring[q].qd /\ ring'[q].slot = ring[q].slot
      BY <2>3, <3>1 DEF Rings
    <3>. QED BY <3>1, <3>2, Zenon DEF Sound
  <2>. QED BY <2>1, <2>2, <2>3 DEF ChangesUse

\* Such a request starts and ends outside of the reclaim loop.
<1>UseInv.
    ASSUME Inv, job.pc \notin {"free", "null"}, job'.pc \notin {"free", "null"}, JobOK',
           txq' \in [Devs -> Seq(Queues)], prio' \in [Devs -> SUBSET Queues],
           misfreed' \subseteq overlap', ring' = [q \in Queues |-> ring'[q]],
           \A q \in Queues \ overlap : ChangesUse(ring[q], ring'[q]),
           \A q \in Queues \ overlap' : q \in overlap => ring'[q] = Zeroed
    PROVE  Inv'
  <2>. USE <1>UseInv
  <2>1. AllSound(ring, overlap, None)
    BY NoneFreed
  <2>2. AllSound(ring', overlap', None)
    BY <2>1, <1>UseSound
  <2>. QED BY <2>2, OutsideInv

\* A request that has ended is in no reclaim loop.
<1>NoJobOK. ASSUME job' = NoJob PROVE JobOK' /\ job'.pc \notin {"free", "null"}
  <2>. USE <1>NoJobOK
  <2>1. /\ NoJob \in [pc : {"idle"}, dev : Devs, i : {0}, kind : {"none"}]
        /\ NoJob.pc = "idle"
    BY XtmTxAssumption DEF NoJob
  <2>. QED BY <2>1 DEF JobOK

\* DoSetTxQueue allocates a ring or counts one more user of it ...
<1>SetRingUse. ASSUME NEW r \in Rings PROVE ChangesUse(r, SetRing(r))
  <2>1. r.use + 1 \in Int
    BY DEF Rings
  <2>. QED BY <2>1 DEF ChangesUse, SetRing

\* ... and so does a link up for each of its queues.
<1>WithSetUse.
    ASSUME Inv, NEW S
    PROVE  /\ WithSet(S) = [q \in Queues |-> WithSet(S)[q]]
           /\ \A q \in Queues \ overlap : ChangesUse(ring[q], WithSet(S)[q])
  BY <1>WithSetUse, <1>SetRingUse, Zenon DEF WithSet, Inv, AllSound, ChangesUse

\* The two ways a ring loses a user.
<1>LosesUser.
    ASSUME Inv, NEW q \in Queues, NEW t, t = Zeroed \/ t = ring[q] \/ t = OneLess(ring[q]),
           ring' = [ring EXCEPT ![q] = t],
           \/ overlap' = overlap /\ misfreed' = misfreed
           \/ t = Zeroed /\ overlap' = overlap \ {q} /\ misfreed' = misfreed \ {q}
    PROVE  /\ misfreed' \subseteq overlap' /\ ring' = [p \in Queues |-> ring'[p]]
           /\ \A p \in Queues \ overlap : ChangesUse(ring[p], ring'[p])
           /\ \A p \in Queues \ overlap' : p \in overlap => ring'[p] = Zeroed
  <2>. USE <1>LosesUser
  <2>1. /\ ring' = [p \in Queues |-> ring'[p]] /\ ring'[q] = t
        /\ \A p \in Queues \ {q} : ring'[p] = ring[p]
    BY Zenon DEF Inv, AllSound
  <2>2. ASSUME q \notin overlap PROVE ChangesUse(ring[q], t)
    <3>1. ring[q].use - 1 \in Int
      BY <2>2 DEF Inv, AllSound, Rings
    <3>. QED BY <3>1 DEF ChangesUse, OneLess
  <2>3. \A p \in Queues \ overlap : ChangesUse(ring[p], ring'[p])
    BY <2>1, <2>2 DEF ChangesUse
  <2>. QED BY <2>1, <2>3 DEF Inv, FreedOnce

\* DoLinkDownTx, or a failed link up, gives up one ring after the other.
<1>ReleaseInv. ASSUME Inv, release PROVE Inv'
  <2>. USE <1>ReleaseInv
  <2>. DEFINE q == txq[job.dev][job.i]
              last == ring[q].mem /\ ring[q].use = 1
              t == IF last THEN Zeroed
                   ELSE IF ring[q].mem THEN OneLess(ring[q]) ELSE ring[q]
  <2>1. /\ job.pc = "release" /\ job.i <= Len(txq[job.dev])
        /\ job' = [job EXCEPT !.i = job.i + 1] /\ UNCHANGED <<txq, prio>>
    BY Zenon DEF release
  <2>2. q \in Queues
    BY <2>1 DEF Inv, JobOK
  <2>3. /\ ring' = [ring EXCEPT ![q] = t]
        /\ overlap' = IF last THEN overlap \ {q} ELSE overlap
        /\ misfreed' = IF last THEN misfreed \ {q} ELSE misfreed
    <3>1. ring' = [ring EXCEPT ![q] = t]
      BY Zenon DEF release
    <3>2. overlap' = IF last THEN overlap \ {q} ELSE overlap
      BY Zenon DEF release
    <3>3. misfreed' = IF last THEN misfreed \ {q} ELSE misfreed
      BY Zenon DEF release
    <3>. QED BY <3>1, <3>2, <3>3, Zenon
  <2>4. JobOK' /\ job'.pc = "release"
    <3>1. job.i + 1 \in Nat \ {0} /\ JobOK
      BY <2>1 DEF Inv, JobOK
    <3>. QED BY <2>1, <3>1 DEF JobOK
  <2>5. /\ t = Zeroed \/ t = ring[q] \/ t = OneLess(ring[q])
        /\ \/ overlap' = overlap /\ misfreed' = misfreed
           \/ t = Zeroed /\ overlap' = overlap \ {q} /\ misfreed' = misfreed \ {q}
    BY <2>3, Zenon
  <2>. HIDE DEF q, t
  <2>6. /\ misfreed' \subseteq overlap' /\ ring' = [p \in Queues |-> ring'[p]]
        /\ \A p \in Queues \ overlap : ChangesUse(ring[p], ring'[p])
        /\ \A p \in Queues \ overlap' : p \in overlap => ring'[p] = Zeroed
    BY <2>2, <2>3, <2>5, <1>LosesUser, Zenon
  <2>7. txq' \in [Devs -> Seq(Queues)] /\ prio' \in [Devs -> SUBSET Queues]
    BY <2>1 DEF Inv
  <2>. QED BY <2>1, <2>4, <2>6, <2>7, <1>UseInv

\* DoUnsetTxQueue gives up its ring.
<1>UnsetFreeInv. ASSUME Inv, unset_free PROVE Inv'
  <2>. USE <1>UnsetFreeInv
  <2>. DEFINE q == job.i
              last == ring[q].use = 1
              t == IF last THEN Zeroed ELSE OneLess(ring[q])
  <2>1. job.pc = "unset" /\ job' = NoJob /\ UNCHANGED <<txq, prio>>
    BY DEF unset_free
  <2>2. q \in Queues
    BY <2>1 DEF Inv, JobOK
  <2>3. /\ ring' = [ring EXCEPT ![q] = t]
        /\ overlap' = IF last THEN overlap \ {q} ELSE overlap
        /\ misfreed' = IF last THEN misfreed \ {q} ELSE misfreed
    <3>1. ring' = [ring EXCEPT ![q] = t]
      BY Zenon DEF unset_free
    <3>2. overlap' = IF last THEN overlap \ {q} ELSE overlap
      BY Zenon DEF unset_free
    <3>3. misfreed' = IF last THEN misfreed \ {q} ELSE misfreed
      BY Zenon DEF unset_free
    <3>. QED BY <3>1, <3>2, <3>3, Zenon
  <2>4. JobOK' /\ job'.pc \notin {"free", "null"}
    BY <2>1, <1>NoJobOK
  <2>5. /\ t = Zeroed \/ t = ring[q] \/ t = OneLess(ring[q])
        /\ \/ overlap' = overlap /\ misfreed' = misfreed
           \/ t = Zeroed /\ overlap' = overlap \ {q} /\ misfreed' = misfreed \ {q}
    BY <2>3, Zenon
  <2>. HIDE DEF q, t
  <2>6. /\ misfreed' \subseteq overlap' /\ ring' = [p \in Queues |-> ring'[p]]
        /\ \A p \in Queues \ overlap : ChangesUse(ring[p], ring'[p])
        /\ \A p \in Queues \ overlap' : p \in overlap => ring'[p] = Zeroed
    BY <2>2, <2>3, <2>5, <1>LosesUser, Zenon
  <2>7. txq' \in [Devs -> Seq(Queues)] /\ prio' \in [Devs -> SUBSET Queues]
    BY <2>1 DEF Inv
  <2>. QED BY <2>1, <2>4, <2>6, <2>7, <1>UseInv

\* Requests that leave the rings as they are.
<1>SameRings.
    ASSUME Inv, job.pc \notin {"free", "null"}, job'.pc \notin {"free", "null"}, JobOK',
           txq' \in [Devs -> Seq(Queues)], prio' \in [Devs -> SUBSET Queues],
           UNCHANGED <<ring, overlap, misfreed>>
    PROVE  Inv'
  <2>. USE <1>SameRings
  <2>1. ring' = [q \in Queues |-> ring'[q]] /\ misfreed' \subseteq overlap'
    BY DEF Inv, AllSound, FreedOnce
  <2>. QED BY <2>1, <1>UseInv DEF ChangesUse

\* The counting that ends a request touches no ring.
<1>EndsInv. ASSUME Inv, down_end \/ up_failed \/ set_count PROVE Inv'
  <2>. USE <1>EndsInv
  <2>1. /\ job.pc \in {"release", "count"} /\ job' = NoJob /\ UNCHANGED <<ring, overlap, misfreed>>
    BY Zenon DEF down_end, up_failed, set_count, hist
  <2>2. /\ txq' = txq \/ txq' = [txq EXCEPT ![job.dev] = <<>>]
        /\ prio' = prio \/ prio' = [prio EXCEPT ![job.dev] = {}]
    BY Zenon DEF down_end, up_failed, set_count
  <2>3. txq' \in [Devs -> Seq(Queues)] /\ prio' \in [Devs -> SUBSET Queues]
    <3>1. <<>> \in Seq(Queues) /\ {} \in SUBSET Queues
      OBVIOUS
    <3>. QED BY <2>2, <3>1, Zenon DEF Inv
  <2>. QED BY <2>1, <2>3, <1>NoJobOK, <1>SameRings

\* DoUnsetTxQueue takes its queue out of the list of the device.
<1>UnlistInv.
    ASSUME Inv, NEW d \in Devs, NEW i \in 1 .. Len(txq[d]), unset_unlist(d, i)
    PROVE  Inv'
  <2>. USE <1>UnlistInv
  <2>. DEFINE q == txq[d][i]
  <2>1. /\ job.pc = "idle" /\ UNCHANGED <<ring, overlap, misfreed>>
        /\ txq' = [txq EXCEPT ![d] = SubSeq(txq[d], 1, i - 1) \o SubSeq(txq[d], i + 1, Len(txq[d]))]
        /\ prio' = [prio EXCEPT ![d] = prio[d] \ {q}]
        /\ job' = [pc |-> "unset", dev |-> d, i |-> q, kind |-> "unset"]
    BY DEF unset_unlist, hist
  <2>2. q \in Queues /\ txq[d] \in Seq(Queues)
    BY DEF Inv
  <2>3. SubSeq(txq[d], 1, i - 1) \in Seq(Queues) /\ SubSeq(txq[d], i + 1, Len(txq[d])) \in Seq(Queues)
    BY <2>2
  <2>4. txq' \in [Devs -> Seq(Queues)]
    BY <2>1, <2>3, SMTT(30) DEF Inv
  <2>5. prio' \in [Devs -> SUBSET Queues]
    BY <2>1 DEF Inv
  <2>6. JobOK' /\ job'.pc = "unset"
    BY <2>1, <2>2 DEF JobOK
  <2>. QED BY <2>1, <2>4, <2>5, <2>6, <1>SameRings

\* Requests that give rings users.
<1>MoreUsers.
    ASSUME Inv, job.pc = "idle", job'.pc \notin {"free", "null"}, JobOK',
           txq' \in [Devs -> Seq(Queues)], prio' \in [Devs -> SUBSET Queues],
           UNCHANGED <<overlap, misfreed>>, ring' = [q \in Queues |-> ring'[q]],
           \A q \in Queues \ overlap : ChangesUse(ring[q], ring'[q])
    PROVE  Inv'
  <2>. USE <1>MoreUsers
  <2>1. misfreed' \subseteq overlap'
    BY DEF Inv, FreedOnce
  <2>. QED BY <2>1, <1>UseInv

\* A link up that finds the memory for its rings keeps the invariant ...
<1>LinkUpInv. ASSUME Inv, NEW d \in Devs, DoLinkUp(d) PROVE Inv'
  <2>. USE <1>LinkUpInv
  <2>. DEFINE S == Range(QueuesOf[d])
  <2>1. /\ job.pc = "idle" /\ UNCHANGED <<job, overlap, misfreed>> /\ ring' = WithSet(S)
        /\ txq' = [txq EXCEPT ![d] = QueuesOf[d]] /\ prio' = [prio EXCEPT ![d] = prio[d] \cup S]
    BY DEF DoLinkUp, hist
  <2>2. QueuesOf[d] \in Seq(Queues) /\ S \subseteq Queues
    BY XtmTxAssumption DEF Range
  <2>3. txq' \in [Devs -> Seq(Queues)] /\ prio' \in [Devs -> SUBSET Queues]
    BY <2>1, <2>2 DEF Inv
  <2>4. JobOK' /\ job'.pc = "idle"
    BY <2>1 DEF Inv, JobOK
  <2>. HIDE DEF S
  <2>. QED BY <2>1, <2>3, <2>4, <1>WithSetUse, <1>MoreUsers

\* ... and so does one that does not.
<1>LinkUpFailsInv.
    ASSUME Inv, NEW d \in Devs, NEW n \in 1 .. Len(QueuesOf[d]), DoLinkUp_nomem(d, n)
    PROVE  Inv'
  <2>. USE <1>LinkUpFailsInv
  <2>. DEFINE set == SubSeq(QueuesOf[d], 1, n - 1)
              S == Range(set)
              bad == QueuesOf[d][n]
  <2>1. /\ job.pc = "idle" /\ UNCHANGED <<overlap, misfreed>>
        /\ ring' = [WithSet(S) EXCEPT ![bad] = [Zeroed EXCEPT !.use = 1]]
        /\ txq' = [txq EXCEPT ![d] = set] /\ prio' = [prio EXCEPT ![d] = prio[d] \cup S]
        /\ job' = [pc |-> "release", dev |-> d, i |-> 1, kind |-> "up"]
    BY DEF DoLinkUp_nomem
  <2>2. QueuesOf[d] \in Seq(Queues) /\ bad \in Queues
    BY XtmTxAssumption
  <2>3. set \in Seq(Queues)
    BY <2>2
  <2>4. S \subseteq Queues
    BY <2>3 DEF Range
  <2>. HIDE DEF S, set, bad
  <2>5. txq' \in [Devs -> Seq(Queues)] /\ prio' \in [Devs -> SUBSET Queues]
    BY <2>1, <2>3, <2>4 DEF Inv
  <2>6. JobOK' /\ job'.pc = "release"
    BY <2>1 DEF JobOK
  <2>7. /\ ring' = [q \in Queues |-> ring'[q]]
        /\ \A q \in Queues \ overlap : ChangesUse(ring[q], ring'[q])
    <3>. DEFINE w == WithSet(S)
    <3>1. /\ w = [q \in Queues |-> w[q]]
          /\ \A q \in Queues \ overlap : ChangesUse(ring[q], w[q])
      BY <1>WithSetUse
    <3>2. ring' = [w EXCEPT ![bad] = [Zeroed EXCEPT !.use = 1]]
      BY <2>1
    <3>. HIDE DEF w
    <3>3. /\ ring' = [q \in Queues |-> ring'[q]] /\ ring'[bad] = [Zeroed EXCEPT !.use = 1]
          /\ \A q \in Queues \ {bad} : ring'[q] = w[q]
      BY <2>2, <3>1, <3>2
    <3>4. ChangesUse(ring[bad], ring'[bad])
      BY <3>3 DEF ChangesUse
    <3>. QED BY <3>1, <3>3, <3>4
  <2>. QED BY <2>1, <2>5, <2>6, <2>7, <1>MoreUsers

\* A queue set on a link that is up keeps the invariant ...
<1>SetListInv. ASSUME Inv, NEW d \in Devs, NEW q \in Queues, set_list(d, q) PROVE Inv'
  <2>. USE <1>SetListInv
  <2>1. /\ job.pc = "idle" /\ UNCHANGED <<overlap, misfreed>> /\ ring' = WithSet({q})
        /\ txq' = [txq EXCEPT ![d] = Append(txq[d], q)]
        /\ prio' = [prio EXCEPT ![d] = prio[d] \cup {q}]
        /\ job' = [pc |-> "count", dev |-> d, i |-> 0, kind |-> "set"]
    BY DEF set_list, hist
  <2>2. Append(txq[d], q) \in Seq(Queues) /\ prio[d] \cup {q} \in SUBSET Queues
    BY DEF Inv
  <2>3. txq' \in [Devs -> Seq(Queues)] /\ prio' \in [Devs -> SUBSET Queues]
    BY <2>1, <2>2 DEF Inv
  <2>4. JobOK' /\ job'.pc = "count"
    BY <2>1 DEF JobOK
  <2>. QED BY <2>1, <2>3, <2>4, <1>WithSetUse, <1>MoreUsers, Zenon

\* ... and so does one for which there is no memory.
<1>SetFailsInv. ASSUME Inv, NEW d \in Devs, NEW q \in Queues, set_nomem(d, q) PROVE Inv'
  <2>. USE <1>SetFailsInv
  <2>1. /\ job.pc = "idle" /\ UNCHANGED <<job, txq, prio, overlap, misfreed>>
        /\ ring' = [ring EXCEPT ![q] = [Zeroed EXCEPT !.use = 1]]
    BY DEF set_nomem
  <2>2. JobOK' /\ job'.pc = "idle"
    BY <2>1 DEF Inv, JobOK
  <2>3. /\ ring' = [p \in Queues |-> ring'[p]]
        /\ \A p \in Queues \ overlap : ChangesUse(ring[p], ring'[p])
    BY <2>1, Zenon DEF ChangesUse, Inv, AllSound
  <2>. QED BY <2>1, <2>2, <2>3, <1>MoreUsers, Zenon DEF Inv
<1>. QED BY <1>LinkUpInv, <1>LinkUpFailsInv, <1>SetListInv, <1>SetFailsInv, <1>UnlistInv,
             <1>ReleaseInv, <1>EndsInv, <1>UnsetFreeInv, Zenon

-----------------------------------------------------------------------------

\* The invariant holds when the driver is loaded.
LEMMA InitInv == ASSUME Init PROVE Inv
<1>1. /\ NoJob \in [pc : {"idle"}, dev : Devs, i : {0}, kind : {"none"}]
  BY XtmTxAssumption DEF NoJob
<1>2. JobOK /\ job.pc = "idle"
  BY <1>1 DEF Init, JobOK
<1>3. AllSound(ring, overlap, Freeds)
  BY NewRings DEF Init, AllSound
<1>4. Window = {}
  BY <1>2 DEF Window
<1>5. txq \in [Devs -> Seq(Queues)] /\ prio \in [Devs -> SUBSET Queues] /\ FreedOnce
  BY DEF Init, FreedOnce
<1>. QED BY <1>2, <1>3, <1>4, <1>5 DEF Inv, InWindow

\* Every step keeps it.
LEMMA NextInv == ASSUME Inv, [Next]_vars PROVE Inv'
<1>1. CASE UNCHANGED vars
  BY <1>1, FrozenInv DEF vars, hist
<1>2. CASE Next
  BY <1>2, TrafficInv, RequestInv, Zenon DEF Next, Request, JobStep
<1>. QED BY <1>1, <1>2

\* The inductive invariant holds in every state of the driver.
THEOREM InvHolds == Spec => []Inv
<1>. QED BY InitInv, NextInv, PTL DEF Spec

\* On every ring that no two contexts reclaimed at once the packets from the current
\* index to the head, and only those, are held, the DMA engine is among them and
\* ulNumTxBufsQdOne is their number: enqueues, reclaims by the timer, by senders and by
\* requests, and the requests that share and free rings keep it so.
THEOREM RingsSound == Spec => []RingSound
<1>1. Inv => RingSound
  BY DEF Inv, AllSound, Freeds, RingSound
<1>. QED BY <1>1, InvHolds, PTL

\* A packet is freed twice, or before the DMA engine has sent it, only after a softirq
\* has reclaimed the ring between dev_kfree_skb_any and the clearing of its slot.
THEOREM NoDoubleFree == Spec => []FreedOnce
<1>1. Inv => FreedOnce
  BY DEF Inv
<1>. QED BY <1>1, InvHolds, PTL

------------------------------------------------------------------------------
\* The counters.  Equal up to the range of the unsigned counters.
Cong(a, b) == (a - b) % U32 = 0

\* The buffers queued on all of the rings rg.
QdTotal(rg) == MapThenSumSet(LAMBDA q : rg[q].qd, Queues)

\* The rings as the traffic leaves them, overlapped or not: it changes neither who has
\* memory nor the use counts.
Moves(r, t) == t \in RingType /\ t.mem = r.mem /\ t.use = r.use

\* The rings rg with the total all: as many buffers are queued on them, up to the range of
\* the counter, and none on a ring without memory.
Fine(rg, all) ==
  /\ rg \in [Queues -> RingType] /\ all \in 0 .. U32 - 1
  /\ \A q \in Queues : ~rg[q].mem => rg[q].qd = 0
  /\ ~skewed => Cong(all, QdTotal(rg))

\* Rings rg that traffic made of those that the state has.
Moved(rg, all) == Fine(rg, all) /\ \A q \in Queues : Moves(ring[q], rg[q])

\* The devices that count as users of ring q when tx are the lists of the devices and jb is
\* the request in progress; and their number, with the one that DoUnsetTxQueue takes away.
UsersOf(tx, jb, q) ==
  {d \in Devs : \E i \in 1 .. Len(tx[d]) :
     tx[d][i] = q /\ ~(jb.pc = "release" /\ jb.dev = d /\ i < jb.i)}
CountOf(tx, jb, q) ==
  Cardinality(UsersOf(tx, jb, q)) + IF jb.pc = "unset" /\ jb.i = q THEN 1 ELSE 0

\* A ring with memory is counted exactly, one without at least as often as it is used; the
\* refused allocation that counted it is never given back.
UseFits(r, n) ==
  IF r.mem THEN r.use = n /\ n > 0 ELSE IF r.use = 0 THEN n = 0 ELSE r.use > n

Flags ==
  /\ numTxQs \in Nat /\ link \in [Devs -> BOOLEAN] /\ running \in BOOLEAN
  /\ oops \in BOOLEAN /\ skewed \in BOOLEAN /\ failed \in BOOLEAN /\ overlap \subseteq Queues
Listing == \A d \in Devs : IsInjective(txq[d])
Uses == \A q \in Queues : UseFits(ring[q], CountOf(txq, job, q))

\* The number of rings is out of date only while a request has listed a new one.
RingsCounted == job.pc # "count" => CountRings(ring) <= numTxQs

\* Without a refused allocation every ring in use has memory.
NeverRefused ==
  ~failed => /\ \A q \in Queues : ring[q].use > 0 => ring[q].mem
             /\ \A d \in Devs : prio[d] = Listed(d)
             /\ job.kind # "up"

\* The inductive invariant of the counters, next to Inv.
Counts ==
  /\ Flags /\ Fine(ring, qdAll) /\ Listing /\ Uses /\ RingsCounted /\ NeverRefused
  /\ \A q \in Window : ring[q].mem

\* Outside of a release the users of a ring are the devices that list it.
Holders(tx, q) == {d \in Devs : q \in Range(tx[d])}

\* A device lists the queues S in addition ...
Enlists(tx, tt, d, S) ==
  /\ d \in Devs /\ Range(tx[d]) \subseteq Range(tt[d]) /\ S = Range(tt[d]) \ Range(tx[d])
  /\ \A e \in Devs \ {d} : tt[e] = tx[e]

\* ... or takes queue q from its list.
Delists(tx, tt, d, q) ==
  /\ q \in Range(tx[d]) /\ Range(tt[d]) = Range(tx[d]) \ {q}
  /\ \A e \in Devs \ {d} : tt[e] = tx[e]

\* A turn of the release loop passes queue q of the device ...
Releases(tx, jb, jn, d, q) ==
  /\ tx \in [Devs -> Seq(Queues)] /\ d \in Devs /\ IsInjective(tx[d])
  /\ jb.i \in Nat \ {0} /\ jb.i <= Len(tx[d]) /\ q = tx[d][jb.i]
  /\ jb.pc = "release" /\ jb.dev = d
  /\ jn.pc = "release" /\ jn.dev = d /\ jn.i = jb.i + 1

\* ... and at its end the device has no ring left that counts it.
Empties(tx, jb, d, tt, jn) ==
  /\ tx \in [Devs -> Seq(Queues)] /\ d \in Devs /\ tt \in [Devs -> Seq(Queues)]
  /\ jb.pc = "release" /\ jb.dev = d /\ jb.i \in Nat /\ jb.i > Len(tx[d]) /\ jn.pc = "idle"
  /\ tt[d] = <<>> /\ \A e \in Devs \ {d} : tt[e] = tx[e]

------------------------------------------------------------------------------
\* What the proofs below use of finite sets and of sums over them.  XtmTxCounts proves these
\* facts from the library; here they are hypotheses.  One ring's buffers queued, and the total,
\* change alike ...
OneMoves ==
  \A rg, all, t, sum : \A q \in Queues, n \in Int :
    /\ Moved(rg, all) /\ Moves(rg[q], t) /\ (rg[q].mem \/ t.qd = rg[q].qd)
    /\ Cong(t.qd, rg[q].qd + n) /\ sum \in 0 .. U32 - 1 /\ Cong(sum, all + n)
    => Moved([rg EXCEPT ![q] = t], sum)

\* ... queues are reclaimed with softirqs off ...
ReclaimMoved ==
  \A S \in SUBSET Queues :
    Fine(ring, qdAll) /\ Backed(S) =>
      /\ Moved(AfterReclaim(S), QdAllAfter(S))
      /\ \A q \in Queues : AfterReclaim(S)[q].head = ring[q].head

\* ... rings with the same buffers queued have the same total, and nothing queued on any ring
\* is nothing in total ...
SameTotal ==
  \A rg, rt : (\A q \in Queues : rt[q].qd = rg[q].qd) => QdTotal(rt) = QdTotal(rg)
NoneQueued == \A rg : (\A q \in Queues : rg[q].qd = 0) => QdTotal(rg) = 0

\* ... the users of a ring are finitely many ...
UsersFinite ==
  \A tx, jb, q :
    /\ IsFiniteSet(UsersOf(tx, jb, q)) /\ Cardinality(UsersOf(tx, jb, q)) \in Nat
    /\ CountOf(tx, jb, q) \in Nat
    /\ jb.pc # "unset" => CountOf(tx, jb, q) = Cardinality(UsersOf(tx, jb, q))

\* ... rings have memory one by one, and fewer of them are counted as fewer ...
CountLess ==
  \A rg, rt :
    (\A q \in Queues : rt[q].mem => rg[q].mem) =>
      /\ CountRings(rg) \in Nat /\ CountRings(rt) \in Nat
      /\ CountRings(rt) <= CountRings(rg)

\* ... a device that lists queues S in addition becomes one more user of each ...
MoreHolders ==
  \A tx, tt, d, S, q :
    Enlists(tx, tt, d, S) =>
      /\ q \in S => Cardinality(Holders(tt, q)) = Cardinality(Holders(tx, q)) + 1
      /\ q \notin S => Holders(tt, q) = Holders(tx, q)

\* ... and one that takes a queue from its list one user less, of this queue only ...
FewerHolders ==
  \A tx, tt, q : \A d \in Devs :
    Delists(tx, tt, d, q) =>
      /\ Cardinality(Holders(tt, q)) = Cardinality(Holders(tx, q)) - 1
      /\ \A p \in Queues \ {q} : Holders(tt, p) = Holders(tx, p)

\* ... one turn of the release loop takes the device from the users of the queue it passes,
\* which no other index of the list names, and from no other ...
ReleaseUsers ==
  \A tx, jb, jn, d, q :
    Releases(tx, jb, jn, d, q) =>
      /\ CountOf(tx, jb, q) > 0 /\ CountOf(tx, jn, q) = CountOf(tx, jb, q) - 1
      /\ \A p \in Queues \ {q} : CountOf(tx, jn, p) = CountOf(tx, jb, p)

\* ... and emptying its list after the last turn takes no user from a ring.
ReleasedUsers ==
  \A tx, tt, d, jb, jn, q :
    Empties(tx, jb, d, tt, jn) => CountOf(tt, jn, q) = CountOf(tx, jb, q)

Facts ==
  /\ OneMoves /\ ReclaimMoved /\ SameTotal /\ NoneQueued /\ UsersFinite /\ CountLess
  /\ MoreHolders /\ FewerHolders /\ ReleaseUsers /\ ReleasedUsers

------------------------------------------------------------------------------
\* The rest of a division differs from the number by a multiple of the divisor.
LEMMA ModIs ==
  ASSUME NEW a \in Int
  PROVE  /\ a % U32 \in 0 .. U32 - 1
         /\ \E k \in Int : a % U32 = a + k * U32
<1>0. U32 \in Nat \ {0}
  BY Size
<1>1. a = U32 * (a \div U32) + (a % U32) /\ a \div U32 \in Int /\ a % U32 \in 0 .. U32 - 1
  BY <1>0
<1>2. a % U32 = a + (-(a \div U32)) * U32
  BY <1>0, <1>1
<1>. QED BY <1>1, <1>2

\* Equal up to the range is equal up to a multiple of it; ...
LEMMA CongIs ==
  ASSUME NEW a \in Int, NEW b \in Int
  PROVE  Cong(a, b) <=> \E k \in Int : a = b + k * U32
<1>0. U32 \in Nat \ {0}
  BY Size
<1>1. ASSUME Cong(a, b) PROVE \E k \in Int : a = b + k * U32
  <2>1. a - b \in Int
    OBVIOUS
  <2>2. PICK k \in Int : (a - b) % U32 = a - b + k * U32
    BY <2>1, ModIs
  <2>3. a = b + (-k) * U32
    BY <1>0, <1>1, <2>2 DEF Cong
  <2>. QED BY <2>3
<1>2. ASSUME NEW k \in Int, a = b + k * U32 PROVE Cong(a, b)
  <2>1. (k * U32) % U32 = 0
    BY <1>0
  <2>2. a - b = k * U32
    BY <1>0, <1>2
  <2>. QED BY <2>1, <2>2 DEF Cong
<1>. QED BY <1>1, <1>2

\* ... and so is what an unsigned counter keeps of a value, ...
LEMMA CongMod ==
  ASSUME NEW a \in Int, NEW b \in Int, Cong(a, b)
  PROVE  Cong(a % U32, b) /\ a % U32 \in 0 .. U32 - 1
<1>0. U32 \in Int
  BY Size
<1>1. PICK k \in Int : a % U32 = a + k * U32
  BY ModIs
<1>2. PICK l \in Int : a = b + l * U32
  BY CongIs
<1>3. (k + l) * U32 = k * U32 + l * U32 /\ k * U32 \in Int /\ l * U32 \in Int /\ k + l \in Int
  BY <1>0
<1>4. a % U32 = b + (k + l) * U32
  BY <1>1, <1>2, <1>3
<1>5. a % U32 \in 0 .. U32 - 1 /\ a % U32 \in Int
  BY <1>0, ModIs
<1>. QED BY <1>3, <1>4, <1>5, CongIs

\* ... and a value itself.
LEMMA CongSame == ASSUME NEW a \in Int PROVE Cong(a, a)
  BY Size DEF Cong

------------------------------------------------------------------------------
\* A packet that is sent adds one to the ring's count ...
LEMMA EnqueueMoves ==
  ASSUME NEW r \in RingType
  PROVE  Moves(r, Enqueued(r)) /\ Enqueued(r).qd = (r.qd + 1) % U32
<1>1. r.head \in Idx /\ r.qd \in Int /\ r.slot \in [Idx -> {"null", "live", "freed"}]
  BY Size DEF RingType
<1>2. Succ(r.head) \in Idx
  BY <1>1, SuccIdx
<1>3. (r.qd + 1) % U32 \in 0 .. U32 - 1
  BY <1>1, ModIs
<1>4. [r.slot EXCEPT ![r.head] = "live"] \in [Idx -> {"null", "live", "freed"}]
  BY <1>1
<1>5. Enqueued(r) = [r EXCEPT !.slot = [r.slot EXCEPT ![r.head] = "live"],
                              !.head = Succ(r.head), !.qd = (r.qd + 1) % U32]
  BY DEF Enqueued
<1>. QED BY <1>2, <1>3, <1>4, <1>5, Zenon DEF RingType, Moves

\* ... and a slot cleared by a request takes one off.
LEMMA ClearMoves ==
  ASSUME NEW r \in RingType, NEW t,
         t = [r EXCEPT !.slot[r.curr] = "null", !.curr = Succ(r.curr), !.qd = (r.qd - 1) % U32]
  PROVE  Moves(r, t) /\ t.qd = (r.qd - 1) % U32 /\ t.head = r.head
<1>1. r.curr \in Idx /\ r.qd \in Int /\ r.slot \in [Idx -> {"null", "live", "freed"}]
  BY Size DEF RingType
<1>2. Succ(r.curr) \in Idx
  BY <1>1, SuccIdx
<1>3. (r.qd - 1) % U32 \in 0 .. U32 - 1
  BY <1>1, ModIs
<1>4. [r.slot EXCEPT ![r.curr] = "null"] \in [Idx -> {"null", "live", "freed"}]
  BY <1>1
<1>5. t = [r EXCEPT !.slot = [r.slot EXCEPT ![r.curr] = "null"],
                    !.curr = Succ(r.curr), !.qd = (r.qd - 1) % U32]
  OBVIOUS
<1>. QED BY <1>2, <1>3, <1>4, <1>5, Zenon DEF RingType, Moves

\* A packet is sent, or not.
LEMMA SendMoves ==
  ASSUME Facts, NEW rg, NEW all, Moved(rg, all), NEW q \in Queues, Send(q, rg, all)
  PROVE  /\ Moved(ring', qdAll') /\ oops' \in BOOLEAN
         /\ \A p \in Queues \ {q} : ring'[p] = rg[p]
         /\ ring'[q] # rg[q] => /\ ring'[q].qd = (rg[q].qd + 1) % U32 /\ rg[q].mem
                                /\ ~SendDies(rg[q], all) /\ ~Full(rg[q])
                                /\ QueuePacket(rg[q], all)
<1>0. rg \in [Queues -> RingType] /\ rg[q] \in RingType /\ all \in 0 .. U32 - 1 /\ all \in Int
  BY Size DEF Moved, Fine
<1>1. oops' \in BOOLEAN
  BY Zenon DEF Send, SendDies
<1>2. CASE ring' = rg /\ qdAll' = all
  BY <1>1, <1>2
<1>3. CASE /\ ~SendDies(rg[q], all) /\ ~Full(rg[q]) /\ QueuePacket(rg[q], all)
           /\ ring' = [rg EXCEPT ![q] = Enqueued(rg[q])] /\ qdAll' = (all + 1) % U32
  <2>1. Moves(rg[q], Enqueued(rg[q])) /\ Enqueued(rg[q]).qd = (rg[q].qd + 1) % U32
    BY <1>0, EnqueueMoves
  <2>2. rg[q].mem
    BY <1>3 DEF SendDies
  <2>3. rg[q].qd \in Int
    BY <1>0, Size DEF RingType
  <2>4. Cong((rg[q].qd + 1) % U32, rg[q].qd + 1)
    BY <2>3, rg[q].qd + 1 \in Int, CongSame, CongMod
  <2>5. (all + 1) % U32 \in 0 .. U32 - 1 /\ Cong((all + 1) % U32, all + 1)
    BY <1>0, all + 1 \in Int, CongSame, CongMod
  <2>6. Moved(ring', qdAll')
    <3>. DEFINE t == Enqueued(rg[q])
                sum == (all + 1) % U32
    <3>1. /\ Moves(rg[q], t) /\ (rg[q].mem \/ t.qd = rg[q].qd) /\ Cong(t.qd, rg[q].qd + 1)
          /\ sum \in 0 .. U32 - 1 /\ Cong(sum, all + 1)
      BY <2>1, <2>2, <2>4, <2>5
    <3>. HIDE DEF t, sum
    <3>2. Moved([rg EXCEPT ![q] = t], sum)
      BY <3>1, 1 \in Int, Zenon DEF Facts, OneMoves
    <3>. QED BY <1>3, <3>2 DEF t, sum
  <2>7. ring'[q] = Enqueued(rg[q]) /\ \A p \in Queues \ {q} : ring'[p] = rg[p]
    BY <1>0, <1>3
  <2>. QED BY <1>1, <1>3, <2>1, <2>2, <2>6, <2>7
<1>. QED BY <1>2, <1>3, Zenon DEF Send

------------------------------------------------------------------------------
\* The packets of a device do not meet a ring without memory or a number of rings that is 0.
Healthy(d) == \A q \in Listed(d) \cup prio[d] : ring[q].mem /\ numTxQs # 0

\* What traffic may do in a step: it keeps the totals, takes a ring beyond half of the
\* buffers only if that is the only one counted, and dies only for a device in danger.
Shares ==
  \A q \in Queues : ring'[q].head # ring[q].head /\ ring'[q].qd > Pct50
                      => ring[q].mem /\ numTxQs = 1
Traffic ==
  /\ Moved(ring', qdAll') /\ oops' \in BOOLEAN /\ Shares
  /\ oops' => oops \/ \E d \in Devs : ~Healthy(d)

\* The part of the buffers that QueuePacket gives one of several rings.
LEMMA PacketShare ==
  ASSUME NEW r \in RingType, NEW all \in Int, numTxQs \in Nat, numTxQs # 1,
         QueuePacket(r, all), ~SendDies(r, all), ~Full(r)
  PROVE  (r.qd + 1) % U32 <= Pct50
<1>1. /\ r.qd \in Nat /\ Pct50 \in Nat /\ Rsrvd \in Nat /\ Rsrvd <= Pct50 /\ Pct50 < U32
      /\ U32 \in Nat
  BY XtmTxAssumption DEF RingType, Pct50, Rsrvd
<1>2. r.qd < Pct50
  <2>1. CASE (ExtBufs - all) % U32 > Rsrvd
    BY <2>1 DEF QueuePacket
  <2>2. CASE ~((ExtBufs - all) % U32 > Rsrvd)
    <3>1. r.qd < Rsrvd \div numTxQs
      BY <2>2 DEF QueuePacket
    <3>2. numTxQs # 0
      <4>1. SUFFICES ASSUME numTxQs = 0 PROVE (ExtBufs - all) % U32 <= Rsrvd
        BY <4>1 DEF SendDies
      <4>. DEFINE m == (ExtBufs - all) % U32
      <4>2. m \in Int /\ ~(m > Rsrvd)
        BY <2>2, XtmTxAssumption, ExtBufs - all \in Int, ModIs
      <4>. HIDE DEF m
      <4>3. m <= Rsrvd
        BY <1>1, <4>2
      <4>. QED BY <4>3 DEF m
    <3>3. Rsrvd \div numTxQs <= Rsrvd /\ Rsrvd \div numTxQs \in Nat
      BY <1>1, <3>2
    <3>. QED BY <1>1, <3>1, <3>3
  <2>. QED BY <2>1, <2>2
<1>3. r.qd + 1 \in Nat /\ r.qd + 1 < U32 /\ r.qd + 1 <= Pct50
  BY <1>1, <1>2
<1>4. (r.qd + 1) % U32 = r.qd + 1
  BY <1>1, <1>3, ModSmall
<1>. QED BY <1>3, <1>4

\* What follows a reclaim: nothing, or a packet on one of the queues of its device.
LEMMA StillTraffic ==
  ASSUME NEW rg, NEW all, Moved(rg, all), \A q \in Queues : rg[q].head = ring[q].head,
         oops \in BOOLEAN, ring' = rg, qdAll' = all,
         oops' = oops \/ (oops' = TRUE /\ \E d \in Devs : ~Healthy(d))
  PROVE  Traffic
<1>1. Shares
  BY DEF Shares
<1>2. oops' \in BOOLEAN /\ (oops' => oops \/ \E d \in Devs : ~Healthy(d))
  <2>1. CASE oops' = oops
    BY <2>1
  <2>2. CASE oops' = TRUE /\ \E d \in Devs : ~Healthy(d)
    <3>1. oops' \in BOOLEAN
      BY <2>2
    <3>. QED BY <2>2, <3>1
  <2>. QED BY <2>1, <2>2, Zenon
<1>. QED BY <1>1, <1>2, Zenon DEF Traffic

\* A packet sent by bcmxtmrt_xmit, or dropped by it, is traffic.
LEMMA SendTraffic ==
  ASSUME Facts, Inv, Flags, NEW rg, NEW all, Moved(rg, all),
         \A q \in Queues : rg[q].head = ring[q].head,
         NEW d \in Devs, NEW q \in Candidates(d), q \in Queues, Send(q, rg, all)
  PROVE  Traffic
<1>0. /\ rg[q] \in RingType /\ all \in Int /\ numTxQs \in Nat /\ rg[q].mem = ring[q].mem
      /\ q \in Listed(d) \cup prio[d]
  <2>1. q \in Listed(d) \cup prio[d]
    <3>1. txq[d] \in Seq(Queues)
      BY DEF Inv
    <3>2. txq[d] # <<>> => txq[d][1] \in Listed(d)
      BY <3>1 DEF Listed, Range
    <3>. QED BY <3>2 DEF Candidates
  <2>. QED BY <2>1, Size DEF Flags, Moved, Fine, Moves
<1>1. /\ Moved(ring', qdAll') /\ oops' \in BOOLEAN
      /\ \A p \in Queues \ {q} : ring'[p] = rg[p]
      /\ ring'[q] # rg[q] => /\ ring'[q].qd = (rg[q].qd + 1) % U32 /\ rg[q].mem
                             /\ ~SendDies(rg[q], all) /\ ~Full(rg[q])
                             /\ QueuePacket(rg[q], all)
  BY SendMoves
<1>2. Shares
  <2>. SUFFICES ASSUME NEW p \in Queues, ring'[p].head # ring[p].head, ring'[p].qd > Pct50
               PROVE  ring[p].mem /\ numTxQs = 1
    BY DEF Shares
  <2>1. p = q /\ ring'[q] # rg[q]
    BY <1>1
  <2>2. (rg[q].qd + 1) % U32 \in Int /\ Pct50 \in Int
    <3>1. rg[q].qd + 1 \in Int
      BY <1>0, Size DEF RingType
    <3>2. Pct50 \in Int
      BY XtmTxAssumption DEF Pct50
    <3>. QED BY <3>1, <3>2, ModIs, Size
  <2>3. ~((rg[q].qd + 1) % U32 <= Pct50)
    BY <1>1, <2>1, <2>2
  <2>. QED BY <1>0, <1>1, <2>1, <2>3, PacketShare
<1>3. ASSUME oops' PROVE ~Healthy(d)
  <2>1. SendDies(rg[q], all)
    BY <1>3 DEF Send
  <2>2. ~rg[q].mem \/ numTxQs = 0
    BY <2>1, Zenon DEF SendDies
  <2>. QED BY <1>0, <2>2 DEF Healthy
<1>. QED BY <1>1, <1>2, <1>3 DEF Traffic

\* The senders, the timer and the DMA engine.
LEMMA XmitTraffic ==
  ASSUME Facts, Inv, Flags, Fine(ring, qdAll), NEW d \in Devs, bcmxtmrt_xmit(d)
  PROVE  Traffic /\ overlap' \subseteq Queues
<1>0. Listed(d) \in SUBSET Queues /\ Candidates(d) \subseteq Queues /\ Window \subseteq Queues
  BY ListedQueues, CandidateQueues, WindowQueue DEF Inv
<1>1. CASE Backed(Listed(d))
  <2>. DEFINE rg == AfterReclaim(Listed(d))
              all == QdAllAfter(Listed(d))
  <2>1. /\ SoftReclaim(Listed(d))
        /\ \/ NoSend(rg, all)
           \/ \E q \in Candidates(d) : Send(q, rg, all)
    BY <1>1, Zenon DEF bcmxtmrt_xmit
  <2>2. Moved(rg, all) /\ \A q \in Queues : rg[q].head = ring[q].head
    BY <1>0, <1>1 DEF Facts, ReclaimMoved
  <2>. HIDE DEF rg, all
  <2>3. Traffic
    BY <1>0, <2>1, <2>2, StillTraffic, SendTraffic, Zenon DEF NoSend, Flags
  <2>. QED BY <1>0, <2>1, <2>3 DEF SoftReclaim, Flags
<1>2. CASE ~Backed(Listed(d))
  <2>1. oops' = TRUE /\ UNCHANGED <<ring, qdAll, overlap>>
    BY <1>2, Zenon DEF bcmxtmrt_xmit
  <2>2. ~Healthy(d)
    BY <1>2 DEF Backed, Healthy
  <2>3. Moved(ring, qdAll)
    BY DEF Moved, Fine, Moves
  <2>4. Traffic
    BY <2>1, <2>2, <2>3, StillTraffic, Zenon DEF Flags
  <2>. QED BY <2>1, <2>4 DEF Flags
<1>. QED BY <1>1, <1>2

\* A run of the timer is traffic, ...
LEMMA TimerTraffic ==
  ASSUME Facts, Inv, Flags, Fine(ring, qdAll), bcmxtmrt_timer
  PROVE  Traffic /\ overlap' \subseteq Queues
<1>. DEFINE S == ListedBy(Devs)
<1>0. S \in SUBSET Queues /\ Window \subseteq Queues
  BY ListedQueues, WindowQueue DEF Inv
<1>1. CASE Backed(S)
  <2>1. SoftReclaim(S) /\ oops' = oops /\ qdAll' = QdAllAfter(S) /\ ring' = AfterReclaim(S)
    BY <1>1, Zenon DEF bcmxtmrt_timer
  <2>. HIDE DEF S
  <2>2. Moved(ring', qdAll') /\ \A q \in Queues : ring'[q].head = ring[q].head
    BY <1>0, <1>1, <2>1 DEF Facts, ReclaimMoved
  <2>3. Traffic
    BY <2>1, <2>2, StillTraffic DEF Flags
  <2>. QED BY <1>0, <2>1, <2>3 DEF SoftReclaim, Flags
<1>2. CASE ~Backed(S)
  <2>1. oops' = TRUE /\ UNCHANGED <<ring, qdAll, overlap>>
    BY <1>2, Zenon DEF bcmxtmrt_timer
  <2>2. \E d \in Devs : ~Healthy(d)
    BY <1>2 DEF Backed, Healthy, ListedBy
  <2>3. Moved(ring, qdAll)
    BY DEF Moved, Fine, Moves
  <2>4. Traffic
    BY <2>1, <2>2, <2>3, StillTraffic, Zenon DEF Flags
  <2>. QED BY <2>1, <2>4 DEF Flags
<1>. QED BY <1>1, <1>2

\* A step that changes neither the head of a ring nor what is queued.
LEMMA QuietMoved ==
  ASSUME Facts, Fine(ring, qdAll), NEW q \in Queues, NEW t, Moves(ring[q], t), t.qd = ring[q].qd,
         t.head = ring[q].head
  PROVE  /\ Moved([ring EXCEPT ![q] = t], qdAll)
         /\ \A p \in Queues : [ring EXCEPT ![q] = t][p].head = ring[p].head
<1>1. Moved(ring, qdAll) /\ ring \in [Queues -> RingType] /\ ring[q].qd \in Int /\ qdAll \in Int
      /\ qdAll \in 0 .. U32 - 1
  BY Size DEF Moved, Fine, Moves, RingType
<1>2. Cong(t.qd, ring[q].qd + 0) /\ Cong(qdAll, qdAll + 0)
  BY <1>1, CongSame
<1>3. Moved([ring EXCEPT ![q] = t], qdAll)
  BY <1>1, <1>2, 0 \in Int, Zenon DEF Facts, OneMoves
<1>. QED BY <1>1, <1>3

\* ... and so is a frame that the DMA engine sends.
LEMMA TransmitTraffic ==
  ASSUME Facts, Inv, Flags, Fine(ring, qdAll), NEW q \in Queues, transmit(q)
  PROVE  Traffic /\ overlap' \subseteq Queues
<1>. DEFINE r == ring[q]
            t == [r EXCEPT !.tail = Succ(r.tail)]
<1>1. /\ ring' = [ring EXCEPT ![q] = t] /\ UNCHANGED <<qdAll, oops, overlap>>
  BY DEF transmit, hist
<1>2. r \in RingType
  BY DEF Fine
<1>. HIDE DEF r
<1>3. Moves(r, t) /\ t.qd = r.qd /\ t.head = r.head
  <2>1. Succ(r.tail) \in Idx
    BY <1>2, SuccIdx DEF RingType
  <2>. QED BY <1>2, <2>1 DEF Moves, RingType
<1>. HIDE DEF t
<1>4. Moved(ring', qdAll') /\ \A p \in Queues : ring'[p].head = ring[p].head
  BY <1>1, <1>3, QuietMoved, Zenon DEF r
<1>5. Traffic
  BY <1>1, <1>4, StillTraffic, Zenon DEF Flags
<1>. QED BY <1>1, <1>5 DEF Flags

\* The reclaim loop of a request goes on over rings rg: the ring it stops at has memory.
LEMMA LoopTraffic ==
  ASSUME Facts, Inv, Flags, NEW d \in Devs, NEW kind, NEW rg, NEW all, NEW i \in Nat \ {0},
         Moved(rg, all), \A q \in Queues : rg[q].head = ring[q].head,
         Loop(d, kind, rg, all, i), UNCHANGED txq
  PROVE  /\ Traffic
         /\ \A q \in Window' : ring'[q].mem
         /\ \/ job' = NoJob
            \/ job'.pc = "release" /\ job'.i = 1 /\ job'.kind = "down"
            \/ job'.pc = "free" /\ job'.kind = kind
<1>0. txq \in [Devs -> Seq(Queues)] /\ Candidates(d) \subseteq Queues /\ oops \in BOOLEAN
      /\ NoJob.pc = "idle"
  BY CandidateQueues DEF Inv, Flags, NoJob
<1>1. CASE Crashes(d, rg, i)
  <2>1. oops' = TRUE /\ job' = NoJob /\ ring' = rg /\ qdAll' = all
    BY <1>1, Zenon DEF Loop
  <2>2. ~Healthy(d)
    <3>1. PICK j \in i .. Len(txq[d]) : ~rg[txq[d][j]].mem
      BY <1>1 DEF Crashes
    <3>2. txq[d] \in Seq(Queues) /\ j \in 1 .. Len(txq[d])
      BY <1>0
    <3>3. txq[d][j] \in Queues /\ txq[d][j] \in Listed(d)
      BY <3>2 DEF Listed, Range
    <3>4. ~ring[txq[d][j]].mem
      BY <3>1, <3>3 DEF Moved, Moves
    <3>. QED BY <3>3, <3>4 DEF Healthy
  <2>3. Traffic
    BY <1>0, <2>1, <2>2, StillTraffic, Zenon
  <2>. QED BY <1>0, <2>1, <2>3 DEF Window
<1>2. CASE ~Crashes(d, rg, i) /\ Frees(d, rg, i) = {}
  <2>1. LoopEnds(d, kind, rg, all)
    BY <1>2, Zenon DEF Loop
  <2>2. /\ \/ job' = [pc |-> "release", dev |-> d, i |-> 1, kind |-> "down"]
           \/ job' = NoJob
        /\ \/ NoSend(rg, all)
           \/ \E q \in Candidates(d) : Send(q, rg, all)
    BY <2>1, Zenon DEF LoopEnds
  <2>3. Traffic
    BY <1>0, <2>2, StillTraffic, SendTraffic, Zenon DEF NoSend
  <2>. QED BY <1>0, <2>2, <2>3 DEF Window
<1>3. CASE ~Crashes(d, rg, i) /\ Frees(d, rg, i) # {}
  <2>1. /\ NoSend(rg, all)
        /\ \E j \in Frees(d, rg, i) : job' = [pc |-> "free", dev |-> d, i |-> j, kind |-> kind]
    BY <1>3, Zenon DEF Loop
  <2>2. PICK j \in Frees(d, rg, i) : job' = [pc |-> "free", dev |-> d, i |-> j, kind |-> kind]
    BY <2>1
  <2>3. Traffic /\ ring' = rg
    BY <1>0, <2>1, StillTraffic DEF NoSend
  <2>4. rg[txq[d][j]].mem
    BY DEF Frees
  <2>. QED BY <2>2, <2>3, <2>4 DEF Window
<1>. QED BY <1>1, <1>2, <1>3

\* The reclaim loop of a request frees a packet ...
LEMMA LoopFreeTraffic ==
  ASSUME Facts, Inv, Flags, Fine(ring, qdAll), loop_free
  PROVE  Traffic
<1>. DEFINE q == txq[job.dev][job.i]
            r == ring[q]
            t == [r EXCEPT !.slot[r.curr] = "freed"]
<1>1. /\ job.pc = "free" /\ UNCHANGED <<qdAll, oops>>
      /\ ring' = ring \/ ring' = [ring EXCEPT ![q] = t]
  BY Zenon DEF loop_free
<1>2. q \in Queues
  BY <1>1 DEF Inv, JobOK
<1>. HIDE DEF q
<1>3. r \in RingType /\ Moved(ring, qdAll)
  BY <1>2 DEF Fine, Moved, Moves
<1>. HIDE DEF r
<1>4. Moves(r, t) /\ t.qd = r.qd /\ t.head = r.head
  <2>1. [r.slot EXCEPT ![r.curr] = "freed"] \in [Idx -> {"null", "live", "freed"}]
    BY <1>3 DEF RingType
  <2>2. t = [r EXCEPT !.slot = [r.slot EXCEPT ![r.curr] = "freed"]]
    OBVIOUS
  <2>. QED BY <1>3, <2>1, <2>2 DEF Moves, RingType
<1>. HIDE DEF t
<1>5. Moved(ring', qdAll') /\ \A p \in Queues : ring'[p].head = ring[p].head
  <2>1. CASE ring' = ring
    BY <1>1, <1>3, <2>1
  <2>2. CASE ring' = [ring EXCEPT ![q] = t]
    BY <1>1, <1>2, <1>4, <2>2, QuietMoved, Zenon DEF r
  <2>. QED BY <1>1, <2>1, <2>2
<1>. QED BY <1>1, <1>5, StillTraffic DEF Flags

\* ... and clears its slot.
LEMMA LoopNullTraffic ==
  ASSUME Facts, Inv, Flags, Fine(ring, qdAll), \A q \in Window : ring[q].mem, loop_null
  PROVE  /\ Traffic
         /\ \A q \in Window' : ring'[q].mem
         /\ \/ job' = NoJob
            \/ job'.pc = "release" /\ job'.i = 1 /\ job'.kind = "down"
            \/ job'.pc = "free" /\ job'.kind = job.kind
<1>. DEFINE q == txq[job.dev][job.i]
            r == ring[q]
            t == [r EXCEPT !.slot[r.curr] = "null", !.curr = Succ(r.curr),
                           !.qd = (r.qd - 1) % U32]
            rg == [ring EXCEPT ![q] = t]
            all == (qdAll - 1) % U32
<1>1. job.pc = "null" /\ UNCHANGED txq /\ Loop(job.dev, job.kind, rg, all, job.i)
  BY Zenon DEF loop_null
<1>2. Window = {q} /\ q \in Queues /\ job.i \in Nat \ {0} /\ job.dev \in Devs
  <2>1. JobOK /\ txq \in [Devs -> Seq(Queues)]
    BY DEF Inv
  <2>2. job.dev \in Devs /\ job.i \in 1 .. Len(txq[job.dev])
    BY ONLY <1>1, <2>1 DEF JobOK
  <2>3. q \in Queues /\ job.i \in Nat \ {0}
    BY ONLY <2>1, <2>2
  <2>. QED BY ONLY <1>1, <2>2, <2>3 DEF Window
<1>. HIDE DEF q
<1>3. r \in RingType /\ r.mem /\ Moved(ring, qdAll) /\ r.qd \in Int
      /\ ring \in [Queues -> RingType] /\ qdAll \in Int
  BY <1>2, Size DEF Fine, Moved, Moves, RingType
<1>. HIDE DEF r
<1>4. Moves(r, t) /\ t.qd = (r.qd - 1) % U32 /\ t.head = r.head
  BY <1>3, ClearMoves, Zenon
<1>5. Cong((r.qd - 1) % U32, r.qd + (-1))
  BY <1>3, r.qd - 1 \in Int, r.qd - 1 = r.qd + (-1), CongSame, CongMod
<1>6. all \in 0 .. U32 - 1 /\ Cong(all, qdAll + (-1))
  BY <1>3, qdAll - 1 \in Int, qdAll - 1 = qdAll + (-1), CongSame, CongMod
<1>. HIDE DEF t, all
<1>7. Moved(rg, all)
  <2>1. Moves(ring[q], t) /\ ring[q].mem /\ Cong(t.qd, ring[q].qd + (-1)) /\ -1 \in Int
    BY <1>3, <1>4, <1>5 DEF r
  <2>. QED BY <1>2, <1>3, <1>6, <2>1, Zenon DEF Facts, OneMoves
<1>8. \A p \in Queues : rg[p].head = ring[p].head
  BY <1>3, <1>4 DEF r
<1>. HIDE DEF rg
<1>. QED BY <1>1, <1>2, <1>7, <1>8, LoopTraffic

\* It is so at the first turn of the release, too.
LEMMA UsersPlain ==
  ASSUME NEW tx \in [Devs -> Seq(Queues)], NEW jb, NEW q, jb.pc # "release" \/ jb.i = 1
  PROVE  UsersOf(tx, jb, q) = Holders(tx, q)
<1>1. ASSUME NEW d \in Devs
      PROVE  q \in Range(tx[d]) <=> \E i \in 1 .. Len(tx[d]) : tx[d][i] = q
  <2>1. tx[d] \in Seq(Queues)
    OBVIOUS
  <2>. QED BY <2>1 DEF Range
<1>2. ASSUME NEW d \in Devs, NEW i \in 1 .. Len(tx[d])
      PROVE  ~(jb.pc = "release" /\ jb.dev = d /\ i < jb.i)
  OBVIOUS
<1>. QED BY <1>1, <1>2 DEF UsersOf, Holders

\* Traffic, and the turns of the reclaim loop, keep the invariant.
LEMMA TrafficCounts ==
  ASSUME Facts, Inv, Inv', Counts, Traffic, overlap' \subseteq Queues,
         UNCHANGED <<numTxQs, link, txq, prio, running, skewed, failed>>,
         \A q \in Window' : ring'[q].mem,
         \/ job' = job
         \/ /\ job.pc \in {"idle", "free", "null"} /\ job'.kind # "up"
            /\ job'.pc \in {"idle", "free", "null"} \/ (job'.pc = "release" /\ job'.i = 1)
  PROVE  Counts'
<1>1. /\ Moved(ring', qdAll') /\ \A q \in Queues : Moves(ring[q], ring'[q])
      /\ Fine(ring', qdAll')
  BY DEF Traffic, Moved
<1>2. Fine(ring, qdAll)'
  BY <1>1 DEF Fine
<1>3. Flags'
  BY DEF Counts, Flags, Traffic
<1>4. Listing' /\ txq \in [Devs -> Seq(Queues)]
  BY DEF Counts, Listing, Inv
<1>5. Uses'
  <2>. SUFFICES ASSUME NEW q \in Queues PROVE UseFits(ring'[q], CountOf(txq', job', q))
    BY DEF Uses
  <2>1. UseFits(ring[q], CountOf(txq, job, q)) /\ Moves(ring[q], ring'[q])
    BY <1>1 DEF Counts, Uses
  <2>2. CountOf(txq', job', q) = CountOf(txq, job, q)
    <3>1. CASE job' = job
      BY <3>1
    <3>2. CASE job' # job
      <4>1. /\ UsersOf(txq, job, q) = Holders(txq, q)
            /\ UsersOf(txq, job', q) = Holders(txq, q)
        BY <1>4, <3>2, UsersPlain
      <4>. QED BY <3>2, <4>1 DEF Facts, UsersFinite
    <3>. QED BY <3>1, <3>2
  <2>. QED BY <2>1, <2>2 DEF UseFits, Moves
<1>6. RingsCounted'
  <2>1. /\ CountRings(ring) \in Nat /\ CountRings(ring') \in Nat
        /\ CountRings(ring') <= CountRings(ring)
    BY <1>1 DEF Facts, CountLess, Moves
  <2>2. job'.pc # "count" => job.pc # "count" /\ numTxQs \in Nat
    BY DEF Counts, Flags
  <2>. QED BY <2>1, <2>2 DEF Counts, RingsCounted
<1>7. NeverRefused'
  <2>. SUFFICES ASSUME ~failed
               PROVE  /\ \A q \in Queues : ring'[q].use > 0 => ring'[q].mem
                      /\ \A d \in Devs : prio'[d] = Listed(d)'
                      /\ job'.kind # "up"
    BY DEF NeverRefused
  <2>1. /\ \A q \in Queues : ring[q].use > 0 => ring[q].mem
        /\ \A d \in Devs : prio[d] = Listed(d)
        /\ job.kind # "up"
    BY DEF Counts, NeverRefused
  <2>. QED BY <1>1, <2>1 DEF Moves, Listed
<1>. QED BY <1>2, <1>3, <1>4, <1>5, <1>6, <1>7 DEF Counts

\* The senders, the timer and the DMA engine keep it ...
LEMMA SoftCounts ==
  ASSUME Facts, Inv, Inv', Counts,
         \/ \E d \in Devs : bcmxtmrt_xmit(d)
         \/ bcmxtmrt_timer
         \/ \E q \in Queues : transmit(q)
  PROVE  Counts' /\ Traffic /\ UNCHANGED numTxQs
<1>1. Traffic /\ overlap' \subseteq Queues
  BY XmitTraffic, TimerTraffic, TransmitTraffic DEF Counts
<1>2. UNCHANGED <<numTxQs, link, txq, prio, running, job, skewed, failed>>
  BY DEF bcmxtmrt_xmit, bcmxtmrt_timer, transmit, hist
<1>3. ASSUME NEW q \in Window' PROVE ring'[q].mem
  <2>1. q \in Window /\ q \in Queues
    BY <1>2, <1>3, WindowQueue DEF Window, Inv
  <2>. QED BY <1>1, <2>1 DEF Counts, Traffic, Moved, Moves
<1>. QED BY <1>1, <1>2, <1>3, TrafficCounts

\* ... and so does the reclaim loop of a request.
LEMMA LoopCounts ==
  ASSUME Facts, Inv, Inv', Counts,
         \/ \E d \in Devs : loop_start(d, "down") \/ loop_start(d, "cell")
         \/ loop_free \/ loop_null
  PROVE  Counts' /\ Traffic /\ UNCHANGED numTxQs
<1>0. NoJob.pc = "idle" /\ NoJob.kind = "none"
  BY DEF NoJob
<1>1. UNCHANGED <<numTxQs, link, txq, prio, running, skewed, failed, overlap>>
  BY Zenon DEF loop_start, loop_free, loop_null, hist
<1>2. ASSUME NEW d \in Devs, NEW kind \in {"down", "cell"}, loop_start(d, kind)
      PROVE  Counts' /\ Traffic
  <2>1. job.pc = "idle" /\ Loop(d, kind, ring, qdAll, 1)
    BY <1>2 DEF loop_start
  <2>2. Moved(ring, qdAll)
    BY DEF Counts, Moved, Fine, Moves
  <2>3. /\ Traffic
        /\ \A q \in Window' : ring'[q].mem
        /\ \/ job' = NoJob
           \/ job'.pc = "release" /\ job'.i = 1 /\ job'.kind = "down"
           \/ job'.pc = "free" /\ job'.kind = kind
    BY <1>1, <2>1, <2>2, LoopTraffic DEF Counts
  <2>. QED BY <1>0, <1>1, <2>1, <2>3, TrafficCounts DEF Counts, Flags
<1>3. CASE loop_null
  <2>1. job.pc = "null" /\ job.kind \in {"down", "cell"}
    BY <1>3, Zenon DEF loop_null, Inv, JobOK
  <2>2. /\ Traffic
        /\ \A q \in Window' : ring'[q].mem
        /\ \/ job' = NoJob
           \/ job'.pc = "release" /\ job'.i = 1 /\ job'.kind = "down"
           \/ job'.pc = "free" /\ job'.kind = job.kind
    BY <1>3, LoopNullTraffic DEF Counts
  <2>. QED BY <1>0, <1>1, <2>1, <2>2, TrafficCounts DEF Counts, Flags
<1>4. CASE loop_free
  <2>1. job.pc = "free" /\ job' = [job EXCEPT !.pc = "null"]
    BY <1>4, Zenon DEF loop_free
  <2>2. /\ job'.pc = "null" /\ job'.kind = job.kind /\ job'.dev = job.dev /\ job'.i = job.i
        /\ job.kind \in {"down", "cell"}
    BY <2>1 DEF Inv, JobOK
  <2>3. Traffic
    BY <1>4, LoopFreeTraffic DEF Counts
  <2>4. ASSUME NEW q \in Window' PROVE ring'[q].mem
    <3>1. q \in Window /\ q \in Queues
      BY <1>1, <2>1, <2>2, <2>4, WindowQueue DEF Window, Inv
    <3>. QED BY <2>3, <3>1 DEF Counts, Traffic, Moved, Moves
  <2>. QED BY <1>1, <2>1, <2>2, <2>3, <2>4, TrafficCounts DEF Counts, Flags
<1>. QED BY <1>1, <1>2, <1>3, <1>4

------------------------------------------------------------------------------
\* What requests do to a ring whose use count fits n users.  It is set for one more ...
LEMMA SetFits ==
  ASSUME NEW r \in RingType, NEW n \in Nat, UseFits(r, n), r.use < MaxUse, ~r.mem => r.qd = 0
  PROVE  /\ SetRing(r) \in RingType /\ UseFits(SetRing(r), n + 1)
         /\ SetRing(r).qd = r.qd /\ (~SetRing(r).mem => SetRing(r).qd = 0)
         /\ (r.use > 0 => r.mem) => SetRing(r).mem
<1>0. r.use \in Nat /\ MaxUse \in Nat /\ MaxUse >= 1 /\ r.mem \in BOOLEAN
  BY XtmTxAssumption DEF RingType
<1>1. CASE r.use = 0
  <2>1. SetRing(r) = Fresh /\ ~r.mem /\ n = 0 /\ r.qd = 0
    BY <1>1 DEF SetRing, UseFits
  <2>2. 0 \in Idx /\ 0 \in 0 .. U32 - 1 /\ NoSkbs \in [Idx -> {"null", "live", "freed"}]
    BY Size DEF Idx, NoSkbs
  <2>3. Fresh \in RingType /\ Fresh.mem = TRUE /\ Fresh.use = 1 /\ Fresh.qd = 0
    BY <1>0, <2>2, TRUE \in BOOLEAN, 1 \in 0 .. MaxUse DEF Fresh, RingType
  <2>. QED BY <2>1, <2>3 DEF UseFits
<1>2. CASE r.use # 0
  <2>. DEFINE t == [r EXCEPT !.use = r.use + 1]
  <2>1. SetRing(r) = t
    BY <1>2 DEF SetRing
  <2>2. r.use + 1 \in 0 .. MaxUse
    BY <1>0
  <2>3. t \in RingType /\ t.mem = r.mem /\ t.use = r.use + 1 /\ t.qd = r.qd
    BY <2>2 DEF RingType
  <2>. HIDE DEF t
  <2>4. UseFits(t, n + 1)
    BY <1>0, <1>2, <2>3 DEF UseFits
  <2>. QED BY <1>0, <1>2, <2>1, <2>3, <2>4
<1>. QED BY <1>1, <1>2

\* ... or counted although there was no memory for it ...
Refused == [Zeroed EXCEPT !.use = 1]

\* Neither such a ring nor a freed one has a packet.
LEMMA ZeroedType ==
  /\ Zeroed \in RingType /\ Zeroed.mem = FALSE /\ Zeroed.use = 0 /\ Zeroed.qd = 0
  /\ Refused \in RingType /\ Refused.mem = FALSE /\ Refused.use = 1 /\ Refused.qd = 0
<1>1. 0 \in Idx /\ 0 \in 0 .. U32 - 1 /\ NoSkbs \in [Idx -> {"null", "live", "freed"}]
  BY Size DEF Idx, NoSkbs
<1>2. 0 \in 0 .. MaxUse /\ 1 \in 0 .. MaxUse
  BY XtmTxAssumption
<1>3. Zeroed \in RingType /\ Zeroed.mem = FALSE /\ Zeroed.use = 0 /\ Zeroed.qd = 0
  BY <1>1, <1>2, FALSE \in BOOLEAN DEF Zeroed, RingType
<1>. QED BY <1>2, <1>3 DEF Refused, RingType

\* ... or loses a user, in a release or when its queue is unset.
Loses(r, t) ==
  \/ t = Zeroed /\ r.use = 1 /\ r.mem
  \/ t = OneLess(r) /\ r.use # 1
  \/ t = r /\ ~r.mem

\* The use count then fits one user less, and the ring goes with its last one.
LEMMA LoseFits ==
  ASSUME NEW r \in RingType, NEW n \in Nat, n > 0, UseFits(r, n), ~r.mem => r.qd = 0,
         NEW t, Loses(r, t)
  PROVE  /\ t \in RingType /\ UseFits(t, n - 1) /\ (~t.mem => t.qd = 0) /\ (t.mem => r.mem)
         /\ t.qd = r.qd \/ (t = Zeroed /\ r.use = 1 /\ r.mem /\ r.qd # 0)
         /\ (r.use > 0 => r.mem) => (t.use > 0 => t.mem)
<1>0. r.use \in 0 .. MaxUse /\ r.use \in Nat /\ MaxUse \in Nat /\ r.mem \in BOOLEAN
  BY XtmTxAssumption DEF RingType
<1>1. CASE t = Zeroed /\ r.use = 1 /\ r.mem
  <2>1. n = 1
    BY <1>1 DEF UseFits
  <2>. QED BY <1>1, <2>1, ZeroedType DEF UseFits
<1>2. CASE t = OneLess(r) /\ r.use # 1
  <2>1. r.use > 1
    BY <1>0, <1>2 DEF UseFits
  <2>2. r.use - 1 \in 0 .. MaxUse /\ t = [r EXCEPT !.use = r.use - 1]
    BY <1>0, <1>2, <2>1 DEF OneLess
  <2>3. t \in RingType /\ t.mem = r.mem /\ t.use = r.use - 1 /\ t.qd = r.qd
    BY <2>2 DEF RingType
  <2>4. UseFits(t, n - 1)
    BY <1>0, <2>1, <2>3 DEF UseFits
  <2>. QED BY <1>0, <2>1, <2>3, <2>4
<1>3. CASE t = r /\ ~r.mem
  BY <1>0, <1>3 DEF UseFits
<1>. QED BY <1>1, <1>2, <1>3 DEF Loses

\* A request leaves the totals exact unless it frees a ring with packets.
LEMMA RequestFine ==
  ASSUME Facts, Fine(ring, qdAll), ring' \in [Queues -> RingType], qdAll' = qdAll,
         \A q \in Queues : ~ring'[q].mem => ring'[q].qd = 0,
         ~skewed' => ~skewed /\ \A q \in Queues : ring'[q].qd = ring[q].qd
  PROVE  Fine(ring, qdAll)'
<1>1. ASSUME ~skewed' PROVE Cong(qdAll', QdTotal(ring'))
  <2>1. QdTotal(ring') = QdTotal(ring)
    BY <1>1, Zenon DEF Facts, SameTotal
  <2>. QED BY <1>1, <2>1 DEF Fine
<1>. QED BY <1>1 DEF Fine

\* Requests that list queues S of a device, and count those of B without memory.
Gains(d, s, S, B) ==
  /\ s \in Seq(Queues) /\ IsInjective(s) /\ Range(txq[d]) \subseteq Range(s)
  /\ S = Range(s) \ Range(txq[d]) /\ B \in SUBSET Queues /\ B \cap S = {}
  /\ \A q \in S : CanUse(q)
  /\ \A q \in B : ring[q].use = 0
  /\ job.pc = "idle"
  /\ job'.pc \in {"idle", "count"} \/ (job'.pc = "release" /\ job'.i = 1)
  /\ ~failed' => ~failed /\ B = {} /\ job'.kind # "up"
  /\ ring' = [q \in Queues |-> IF q \in B THEN Refused
                               ELSE IF q \in S THEN SetRing(ring[q]) ELSE ring[q]]
  /\ txq' = [txq EXCEPT ![d] = s] /\ prio' = [prio EXCEPT ![d] = prio[d] \cup S]
  /\ UNCHANGED <<qdAll, skewed>>

\* Such a request keeps the invariant.
LEMMA GainCounts ==
  ASSUME Facts, Inv, Inv', Counts, Flags', RingsCounted', NEW d \in Devs, NEW s, NEW S, NEW B,
         Gains(d, s, S, B)
  PROVE  Counts'
<1>. USE DEF Gains
<1>0. /\ txq \in [Devs -> Seq(Queues)] /\ txq' \in [Devs -> Seq(Queues)]
      /\ prio \in [Devs -> SUBSET Queues]
      /\ ring \in [Queues -> RingType] /\ \A q \in Queues : ~ring[q].mem => ring[q].qd = 0
  BY DEF Inv, Counts, Fine
<1>1. ASSUME NEW q \in Queues
      PROVE  /\ q \in B => CountOf(txq, job, q) = 0
             /\ q \in S => CountOf(txq', job', q) = CountOf(txq, job, q) + 1
             /\ q \notin S => CountOf(txq', job', q) = CountOf(txq, job, q)
             /\ CountOf(txq, job, q) \in Nat /\ UseFits(ring[q], CountOf(txq, job, q))
  <2>1. UsersOf(txq, job, q) = Holders(txq, q) /\ UsersOf(txq', job', q) = Holders(txq', q)
    BY <1>0, UsersPlain, Zenon
  <2>2. /\ CountOf(txq, job, q) = Cardinality(Holders(txq, q)) /\ CountOf(txq, job, q) \in Nat
        /\ CountOf(txq', job', q) = Cardinality(Holders(txq', q))
    BY <2>1, Zenon DEF Facts, UsersFinite
  <2>3. /\ q \in S => Cardinality(Holders(txq', q)) = Cardinality(Holders(txq, q)) + 1
        /\ q \notin S => Holders(txq', q) = Holders(txq, q)
    <3>1. Enlists(txq, txq', d, S)
      BY <1>0 DEF Enlists
    <3>. QED BY ONLY Facts, <3>1 DEF Facts, MoreHolders
  <2>4. UseFits(ring[q], CountOf(txq, job, q))
    BY DEF Counts, Uses
  <2>5. q \in B => CountOf(txq, job, q) = 0
    BY <2>2, <2>4, Zenon DEF UseFits
  <2>. QED BY <2>2, <2>3, <2>4, <2>5, Zenon
<1>2. ASSUME NEW q \in Queues
      PROVE  /\ ring'[q] \in RingType /\ UseFits(ring'[q], CountOf(txq', job', q))
             /\ ring'[q].qd = ring[q].qd /\ (~ring'[q].mem => ring'[q].qd = 0)
             /\ q \notin B => ((ring[q].use > 0 => ring[q].mem) =>
                                 (ring'[q].use > 0 => ring'[q].mem))
  <2>1. CASE q \in B
    <3>1. ring'[q] = Refused /\ q \notin S
      BY <2>1
    <3>2. UseFits(Refused, 0)
      BY ZeroedType DEF UseFits
    <3>3. ~ring[q].mem
      <4>1. CountOf(txq, job, q) = 0 /\ UseFits(ring[q], CountOf(txq, job, q))
        BY <1>1, <2>1, Zenon
      <4>. QED BY ONLY <4>1 DEF UseFits
    <3>. QED BY <1>0, <1>1, <2>1, <3>1, <3>2, <3>3, ZeroedType, Zenon
  <2>2. CASE q \in S
    <3>. DEFINE r == ring[q]
                n == CountOf(txq, job, q)
    <3>1. ring'[q] = SetRing(r) /\ r.use < MaxUse
      BY <2>2 DEF CanUse
    <3>2. /\ r \in RingType /\ n \in Nat /\ UseFits(r, n) /\ (~r.mem => r.qd = 0)
          /\ CountOf(txq', job', q) = n + 1
      BY <1>0, <1>1, <2>2, Zenon
    <3>. HIDE DEF r, n
    <3>3. /\ SetRing(r) \in RingType /\ UseFits(SetRing(r), n + 1)
          /\ SetRing(r).qd = r.qd /\ (~SetRing(r).mem => SetRing(r).qd = 0)
          /\ (r.use > 0 => r.mem) => SetRing(r).mem
      BY ONLY <3>1, <3>2, SetFits
    <3>. QED BY <3>1, <3>2, <3>3, Zenon DEF r
  <2>3. CASE q \notin B /\ q \notin S
    BY <1>0, <1>1, <2>3, Zenon
  <2>. QED BY <2>1, <2>2, <2>3, Zenon
<1>3. Uses'
  BY <1>2, Zenon DEF Uses
<1>4. Fine(ring, qdAll)'
  BY <1>2, RequestFine, Zenon DEF Counts
<1>5. Listing'
  BY <1>0 DEF Counts, Listing
<1>6. NeverRefused'
  <2>. SUFFICES ASSUME ~failed'
               PROVE  /\ \A q \in Queues : ring'[q].use > 0 => ring'[q].mem
                      /\ \A e \in Devs : prio'[e] = Listed(e)'
                      /\ job'.kind # "up"
    BY DEF NeverRefused
  <2>1. /\ \A q \in Queues : ring[q].use > 0 => ring[q].mem
        /\ \A e \in Devs : prio[e] = Range(txq[e])
    BY DEF Counts, NeverRefused, Listed
  <2>2. ASSUME NEW e \in Devs PROVE prio'[e] = Range(txq'[e])
    BY <1>0, <2>1, Zenon
  <2>. QED BY <1>2, <2>1, <2>2, Zenon DEF Listed
<1>7. \A q \in Window' : ring'[q].mem
  BY DEF Window
<1>. QED BY <1>3, <1>4, <1>5, <1>6, <1>7, Zenon DEF Counts

\* DoLinkUp that finds the memory it needs ...
LEMMA LinkUpCounts ==
  ASSUME Facts, Inv, Inv', Counts, NEW d \in Devs, DoLinkUp(d)
  PROVE  Counts'
<1>. DEFINE s == QueuesOf[d]
            S == Range(s)
<1>1. /\ job.pc = "idle" /\ UNCHANGED <<job, qdAll, oops, overlap, skewed, failed>>
      /\ txq[d] = <<>> /\ ring' = WithSet(S) /\ \A q \in S : CanUse(q)
      /\ numTxQs' = IF S = {} THEN numTxQs ELSE CountRings(WithSet(S))
      /\ txq' = [txq EXCEPT ![d] = s] /\ prio' = [prio EXCEPT ![d] = prio[d] \cup S]
      /\ link' = [link EXCEPT ![d] = TRUE] /\ running' = TRUE
  <2>1. numTxQs' = IF S = {} THEN numTxQs ELSE CountRings(WithSet(S))
    BY Zenon DEF DoLinkUp
  <2>. QED BY <2>1, Zenon DEF DoLinkUp, hist
<1>2. s \in Seq(Queues) /\ IsInjective(s)
  BY XtmTxAssumption
<1>3. S \subseteq Queues /\ Range(txq[d]) = {}
  BY <1>1, <1>2 DEF Range
<1>. HIDE DEF s
<1>4. /\ CountRings(ring) \in Nat /\ CountRings(ring') \in Nat
      /\ S = {} => CountRings(ring') <= CountRings(ring)
  BY <1>1 DEF Facts, CountLess, WithSet
<1>5. RingsCounted' /\ Flags'
  <2>1. numTxQs' \in Nat /\ (S = {} => numTxQs' = numTxQs) /\ (S # {} => numTxQs' = CountRings(ring'))
    BY <1>1, <1>4 DEF Counts, Flags
  <2>2. CountRings(ring) <= numTxQs /\ numTxQs \in Nat
    BY <1>1 DEF Counts, RingsCounted, Flags
  <2>3. CountRings(ring') <= numTxQs'
    BY <1>4, <2>1, <2>2
  <2>4. link' \in [Devs -> BOOLEAN] /\ running' \in BOOLEAN
    BY <1>1, TRUE \in BOOLEAN DEF Counts, Flags
  <2>. QED BY <1>1, <2>1, <2>3, <2>4 DEF Counts, Flags, RingsCounted
<1>6. ring' = [q \in Queues |-> IF q \in {} THEN Refused
                                ELSE IF q \in S THEN SetRing(ring[q]) ELSE ring[q]]
  BY <1>1 DEF WithSet
<1>7. ~failed' => ~failed /\ job'.kind # "up"
  BY <1>1 DEF Counts, NeverRefused
<1>8. S = Range(s) \ Range(txq[d]) /\ Range(txq[d]) \subseteq Range(s)
  BY <1>3
<1>. HIDE DEF S
<1>9. Gains(d, s, S, {})
  BY <1>1, <1>2, <1>6, <1>7, <1>8, Zenon DEF Gains
<1>. QED BY <1>5, <1>9, GainCounts

\* ... and one that does not: the queue it counted in vain is none of those it lists.
LEMMA LinkUpFailsCounts ==
  ASSUME Facts, Inv, Inv', Counts, NEW d \in Devs, NEW n \in 1 .. Len(QueuesOf[d]),
         DoLinkUp_nomem(d, n)
  PROVE  Counts'
<1>. DEFINE s == SubSeq(QueuesOf[d], 1, n - 1)
            S == Range(s)
            bad == QueuesOf[d][n]
            rg == [WithSet(S) EXCEPT ![bad] = Refused]
<1>1. /\ job.pc = "idle" /\ UNCHANGED <<qdAll, running, oops, overlap, skewed>> /\ failed' = TRUE
      /\ txq[d] = <<>> /\ ring' = rg /\ ring[bad].use = 0 /\ \A q \in S : CanUse(q)
      /\ numTxQs' = IF n = 1 THEN numTxQs ELSE CountRings(rg)
      /\ txq' = [txq EXCEPT ![d] = s] /\ prio' = [prio EXCEPT ![d] = prio[d] \cup S]
      /\ link' = [link EXCEPT ![d] = TRUE]
      /\ job' = [pc |-> "release", dev |-> d, i |-> 1, kind |-> "up"]
  <2>1. numTxQs' = IF n = 1 THEN numTxQs ELSE CountRings(rg)
    BY Zenon DEF DoLinkUp_nomem, Refused
  <2>. QED BY <2>1 DEF DoLinkUp_nomem, Refused
<1>2. QueuesOf[d] \in Seq(Queues) /\ IsInjective(QueuesOf[d]) /\ bad \in Queues
  BY XtmTxAssumption
<1>3. /\ s \in Seq(Queues) /\ Len(s) = n - 1 /\ \A i \in 1 .. n - 1 : s[i] = QueuesOf[d][i]
  BY <1>2
<1>4. /\ IsInjective(s) /\ bad \notin S /\ S \subseteq Queues /\ (n = 1 => S = {})
      /\ Range(txq[d]) = {}
  <2>. HIDE DEF s
  <2>1. DOMAIN s = 1 .. n - 1 /\ DOMAIN QueuesOf[d] = 1 .. Len(QueuesOf[d]) /\ n \in Nat
        /\ \A i \in 1 .. n - 1 : i \in 1 .. Len(QueuesOf[d]) /\ i # n
    BY <1>2, <1>3
  <2>2. IsInjective(s)
    BY <1>2, <1>3, <2>1 DEF IsInjective
  <2>3. bad \notin S
    BY <1>2, <1>3, <2>1 DEF IsInjective, Range
  <2>4. S \subseteq Queues /\ (n = 1 => S = {})
    BY <1>3, <2>1 DEF Range
  <2>5. Range(txq[d]) = {}
    BY <1>1 DEF Range
  <2>. QED BY <2>2, <2>3, <2>4, <2>5, Zenon
<1>. HIDE DEF s, S, bad
<1>5. ring' = [q \in Queues |-> IF q \in {bad} THEN Refused
                                ELSE IF q \in S THEN SetRing(ring[q]) ELSE ring[q]]
  BY <1>1, <1>2, Zenon DEF WithSet
<1>6. /\ CountRings(ring) \in Nat /\ CountRings(ring') \in Nat
      /\ n = 1 => CountRings(ring') <= CountRings(ring)
  BY <1>4, <1>5, ZeroedType, Zenon DEF Facts, CountLess
<1>7. RingsCounted' /\ Flags'
  <2>1. /\ numTxQs' \in Nat /\ (n = 1 => numTxQs' = numTxQs)
        /\ n # 1 => numTxQs' = CountRings(ring')
    BY <1>1, <1>6 DEF Counts, Flags
  <2>2. CountRings(ring) <= numTxQs /\ numTxQs \in Nat
    BY <1>1 DEF Counts, RingsCounted, Flags
  <2>3. CountRings(ring') <= numTxQs'
    BY <1>6, <2>1, <2>2
  <2>4. link' \in [Devs -> BOOLEAN] /\ failed' \in BOOLEAN
    BY <1>1, TRUE \in BOOLEAN, Zenon DEF Counts, Flags
  <2>. QED BY <1>1, <2>1, <2>3, <2>4 DEF Counts, Flags, RingsCounted
<1>8. /\ S = Range(s) \ Range(txq[d]) /\ {bad} \cap S = {} /\ {bad} \in SUBSET Queues
      /\ \A q \in {bad} : ring[q].use = 0 /\ Range(txq[d]) \subseteq Range(s) /\ failed'
      /\ job'.pc = "release" /\ job'.i = 1
  BY <1>1, <1>2, <1>4, Zenon DEF S
<1>9. Gains(d, s, S, {bad})
  BY <1>1, <1>3, <1>4, <1>5, <1>8, Zenon DEF Gains
<1>. QED BY <1>7, <1>9, GainCounts

\* DoSetTxQueue as a request of its own, with and without memory.
LEMMA SetListCounts ==
  ASSUME Facts, Inv, Inv', Counts, NEW d \in Devs, NEW q \in Queues, set_list(d, q)
  PROVE  Counts'
<1>. DEFINE s == Append(txq[d], q)
<1>1. /\ job.pc = "idle" /\ UNCHANGED <<qdAll, numTxQs, link, running, oops, overlap, skewed, failed>>
      /\ ring' = WithSet({q}) /\ q \notin Range(txq[d]) /\ CanUse(q)
      /\ txq' = [txq EXCEPT ![d] = s] /\ prio' = [prio EXCEPT ![d] = prio[d] \cup {q}]
      /\ job' = [pc |-> "count", dev |-> d, i |-> 0, kind |-> "set"]
  BY Zenon DEF set_list, hist, Listed
<1>2. txq[d] \in Seq(Queues) /\ IsInjective(txq[d])
  BY DEF Inv, Counts, Listing
<1>3. /\ s \in Seq(Queues) /\ Len(s) = Len(txq[d]) + 1 /\ Len(txq[d]) \in Nat
      /\ \A i \in 1 .. Len(txq[d]) : s[i] = txq[d][i]
      /\ s[Len(txq[d]) + 1] = q
  BY <1>2
<1>4. IsInjective(s) /\ Range(s) = Range(txq[d]) \cup {q}
  <2>. HIDE DEF s
  <2>. DEFINE l == Len(txq[d])
  <2>1. /\ DOMAIN s = 1 .. l + 1 /\ DOMAIN txq[d] = 1 .. l /\ l \in Nat
        /\ 1 .. l + 1 = (1 .. l) \cup {l + 1}
        /\ \A i \in 1 .. l : s[i] = txq[d][i]
        /\ s[l + 1] = q
    BY <1>2, <1>3
  <2>. HIDE DEF l
  <2>2. Range(s) = Range(txq[d]) \cup {q}
    BY <2>1, SMTT(20) DEF Range
  <2>3. \A i \in 1 .. l : s[i] # q
    BY <1>1, <2>1 DEF Range
  <2>4. IsInjective(s)
    BY <1>2, <2>1, <2>3 DEF IsInjective
  <2>. QED BY <2>2, <2>4
<1>. HIDE DEF s
<1>5. ring' = [p \in Queues |-> IF p \in {} THEN Refused
                                ELSE IF p \in {q} THEN SetRing(ring[p]) ELSE ring[p]]
  BY <1>1 DEF WithSet
<1>6. {q} = Range(s) \ Range(txq[d]) /\ Range(txq[d]) \subseteq Range(s)
  BY <1>1, <1>4
<1>7. Gains(d, s, {q}, {})
  BY <1>1, <1>3, <1>4, <1>5, <1>6, Zenon DEF Gains, Counts, NeverRefused
<1>8. Flags' /\ RingsCounted'
  BY <1>1 DEF Counts, Flags, RingsCounted
<1>. QED BY <1>7, <1>8, GainCounts

\* ... or finds no memory for it.
LEMMA SetFailsCounts ==
  ASSUME Facts, Inv, Inv', Counts, NEW d \in Devs, NEW q \in Queues, set_nomem(d, q)
  PROVE  Counts'
<1>1. /\ job.pc = "idle" /\ ring[q].use = 0 /\ failed' = TRUE
      /\ UNCHANGED <<qdAll, numTxQs, link, txq, prio, running, job, oops, overlap, skewed>>
      /\ ring' = [ring EXCEPT ![q] = Refused]
  BY DEF set_nomem, Refused
<1>2. /\ ring \in [Queues -> RingType] /\ txq \in [Devs -> Seq(Queues)] /\ IsInjective(txq[d])
      /\ prio \in [Devs -> SUBSET Queues]
  BY DEF Counts, Fine, Inv, Listing
<1>3. ring' = [p \in Queues |-> IF p \in {q} THEN Refused
                                ELSE IF p \in {} THEN SetRing(ring[p]) ELSE ring[p]]
  BY <1>1, <1>2, Zenon
<1>4. /\ {} = Range(txq[d]) \ Range(txq[d]) /\ {q} \in SUBSET Queues /\ failed'
      /\ txq' = [txq EXCEPT ![d] = txq[d]] /\ prio' = [prio EXCEPT ![d] = prio[d] \cup {}]
  BY <1>1, <1>2
<1>5. Gains(d, txq[d], {}, {q})
  BY <1>1, <1>2, <1>3, <1>4, Zenon DEF Gains
<1>6. /\ CountRings(ring) \in Nat /\ CountRings(ring') \in Nat
      /\ CountRings(ring') <= CountRings(ring)
  BY <1>3, ZeroedType, Zenon DEF Facts, CountLess
<1>7. Flags' /\ RingsCounted'
  <2>1. failed' \in BOOLEAN
    BY <1>1
  <2>2. CountRings(ring) <= numTxQs /\ numTxQs \in Nat
    BY <1>1 DEF Counts, Flags, RingsCounted
  <2>3. CountRings(ring') <= numTxQs'
    BY <1>1, <1>6, <2>2
  <2>. QED BY <1>1, <2>1, <2>3 DEF Counts, Flags, RingsCounted
<1>. QED BY <1>5, <1>7, GainCounts

\* A ring q loses a user.
Drops(q, t) ==
  /\ Loses(ring[q], t) /\ ring' = [ring EXCEPT ![q] = t]
  /\ CountOf(txq, job, q) > 0 /\ CountOf(txq', job', q) = CountOf(txq, job, q) - 1
  /\ \A p \in Queues \ {q} : CountOf(txq', job', p) = CountOf(txq, job, p)
  /\ UNCHANGED <<qdAll, link, txq, prio, running, oops, failed>>
  /\ overlap' \subseteq Queues /\ skewed' \in BOOLEAN
  /\ ~skewed' => ~skewed /\ ~(ring[q].mem /\ ring[q].use = 1 /\ ring[q].qd # 0)
  /\ numTxQs' = numTxQs \/ numTxQs' = CountRings(ring')
  /\ job.pc # "count" /\ job'.pc \in {"idle", "release"} /\ (job'.kind = "up" => job.kind = "up")

\* Such a request keeps the invariant.
LEMMA DropCounts ==
  ASSUME Facts, Inv, Inv', Counts, NEW q \in Queues, NEW t, Drops(q, t)
  PROVE  Counts'
<1>. DEFINE r == ring[q]
            n == CountOf(txq, job, q)
<1>0. /\ ring \in [Queues -> RingType] /\ \A p \in Queues : ~ring[p].mem => ring[p].qd = 0
  BY DEF Counts, Fine
<1>1. ASSUME NEW p \in Queues
      PROVE  CountOf(txq, job, p) \in Nat /\ UseFits(ring[p], CountOf(txq, job, p))
  BY DEF Facts, UsersFinite, Counts, Uses
<1>2. /\ r \in RingType /\ n \in Nat /\ n > 0 /\ UseFits(r, n) /\ (~r.mem => r.qd = 0)
      /\ Loses(r, t)
  BY <1>0, <1>1 DEF Drops
<1>. HIDE DEF r, n
<1>3. /\ t \in RingType /\ UseFits(t, n - 1) /\ (~t.mem => t.qd = 0) /\ (t.mem => r.mem)
      /\ t.qd = r.qd \/ (t = Zeroed /\ r.use = 1 /\ r.mem /\ r.qd # 0)
      /\ (r.use > 0 => r.mem) => (t.use > 0 => t.mem)
  BY <1>2, LoseFits
<1>4. /\ ring' \in [Queues -> RingType] /\ ring'[q] = t
      /\ \A p \in Queues \ {q} : ring'[p] = ring[p]
  BY <1>0, <1>3 DEF Drops
<1>5. Uses'
  <2>. SUFFICES ASSUME NEW p \in Queues PROVE UseFits(ring'[p], CountOf(txq', job', p))
    BY DEF Uses
  <2>1. CASE p = q
    BY <1>3, <1>4, <2>1 DEF Drops, n
  <2>2. CASE p # q
    BY <1>1, <1>4, <2>2 DEF Drops
  <2>. QED BY <2>1, <2>2
<1>6. Fine(ring, qdAll)'
  <2>1. \A p \in Queues : ~ring'[p].mem => ring'[p].qd = 0
    BY <1>0, <1>3, <1>4
  <2>2. ~skewed' => ~skewed /\ t.qd = r.qd
    BY <1>3 DEF Drops, r
  <2>3. ~skewed' => ~skewed /\ \A p \in Queues : ring'[p].qd = ring[p].qd
    BY <1>4, <2>2 DEF r
  <2>4. Fine(ring, qdAll) /\ qdAll' = qdAll
    BY DEF Counts, Drops
  <2>. QED BY <1>4, <2>1, <2>3, <2>4, RequestFine
<1>7. /\ CountRings(ring) \in Nat /\ CountRings(ring') \in Nat
      /\ CountRings(ring') <= CountRings(ring)
  BY <1>3, <1>4, Zenon DEF Facts, CountLess, r
<1>8. Flags' /\ RingsCounted'
  <2>1. CountRings(ring) <= numTxQs /\ numTxQs \in Nat
    BY DEF Drops, Counts, RingsCounted, Flags
  <2>2. numTxQs' \in Nat /\ CountRings(ring') <= numTxQs'
    BY <1>7, <2>1 DEF Drops
  <2>. QED BY <2>2 DEF Drops, Counts, Flags, RingsCounted
<1>9. Listing'
  BY DEF Drops, Counts, Listing
<1>10. NeverRefused'
  <2>. SUFFICES ASSUME ~failed
               PROVE  /\ \A p \in Queues : ring'[p].use > 0 => ring'[p].mem
                      /\ \A e \in Devs : prio'[e] = Listed(e)'
                      /\ job'.kind # "up"
    BY DEF NeverRefused, Drops
  <2>1. /\ \A p \in Queues : ring[p].use > 0 => ring[p].mem
        /\ \A e \in Devs : prio[e] = Listed(e)
        /\ job.kind # "up"
    BY DEF Counts, NeverRefused
  <2>2. \A p \in Queues : ring'[p].use > 0 => ring'[p].mem
    BY <1>3, <1>4, <2>1 DEF r
  <2>. QED BY <2>1, <2>2 DEF Listed, Drops
<1>11. \A p \in Window' : ring'[p].mem
  BY DEF Window, Drops
<1>. QED BY <1>5, <1>6, <1>8, <1>9, <1>10, <1>11 DEF Counts

\* A turn of the loop that releases the queues of a device keeps it.
LEMMA ReleaseCounts == ASSUME Facts, Inv, Inv', Counts, release PROVE Counts'
<1>. DEFINE d == job.dev
            q == txq[d][job.i]
            last == ring[q].mem /\ ring[q].use = 1
            t == IF last THEN Zeroed
                 ELSE IF ring[q].mem THEN OneLess(ring[q]) ELSE ring[q]
<1>1. /\ job.pc = "release" /\ job.i <= Len(txq[d]) /\ job' = [job EXCEPT !.i = job.i + 1]
      /\ UNCHANGED <<qdAll, numTxQs, link, txq, prio, running, oops, failed>>
  BY Zenon DEF release
<1>2. d \in Devs /\ job.i \in Nat \ {0} /\ txq \in [Devs -> Seq(Queues)] /\ IsInjective(txq[d])
  <2>1. d \in Devs /\ job.i \in Nat \ {0} /\ txq \in [Devs -> Seq(Queues)]
    BY <1>1 DEF Inv, JobOK
  <2>. QED BY <2>1 DEF Counts, Listing
<1>3. q \in Queues
  BY <1>1, <1>2
<1>4. ring' = [ring EXCEPT ![q] = t]
  BY Zenon DEF release
<1>5. overlap' \subseteq Queues
  <2>1. overlap' = IF last THEN overlap \ {q} ELSE overlap
    BY Zenon DEF release
  <2>. QED BY <2>1 DEF Counts, Flags
<1>6. skewed' \in BOOLEAN /\ (~skewed' => ~skewed /\ ~(last /\ ring[q].qd # 0))
  <2>1. skewed' = (skewed \/ (last /\ ring[q].qd # 0))
    BY Zenon DEF release
  <2>. QED BY <2>1, Zenon
<1>7. Loses(ring[q], t)
  BY Zenon DEF Loses
<1>8. job'.pc = "release" /\ job'.dev = d /\ job'.i = job.i + 1 /\ job'.kind = job.kind
  <2>1. job \in [pc : {"idle", "free", "null", "release", "count", "unset"}, dev : Devs,
              i : Nat \cup Queues, kind : {"none", "down", "cell", "up", "set", "unset"}]
    BY DEF Inv, JobOK
  <2>. QED BY <1>1, <2>1
<1>9. /\ CountOf(txq, job, q) > 0 /\ CountOf(txq, job', q) = CountOf(txq, job, q) - 1
      /\ \A p \in Queues \ {q} : CountOf(txq, job', p) = CountOf(txq, job, p)
  <2>1. Releases(txq, job, job', d, q)
    BY <1>1, <1>2, <1>8 DEF Releases
  <2>. HIDE DEF d, q
  <2>. QED BY ONLY Facts, <2>1 DEF Facts, ReleaseUsers
<1>. HIDE DEF q, t, d
<1>10. Drops(q, t)
  BY <1>1, <1>4, <1>5, <1>6, <1>7, <1>8, <1>9 DEF Drops
<1>. QED BY <1>3, <1>10, DropCounts

\* DoUnsetTxQueue: the device is off the list before the ring loses its user.
LEMMA UnsetFreeCounts == ASSUME Facts, Inv, Inv', Counts, unset_free PROVE Counts'
<1>. DEFINE q == job.i
            last == ring[q].use = 1
            t == IF last THEN Zeroed ELSE OneLess(ring[q])
<1>0. NoJob.pc = "idle" /\ NoJob.kind = "none"
  BY DEF NoJob
<1>1. /\ job.pc = "unset" /\ job' = NoJob
      /\ UNCHANGED <<qdAll, link, txq, prio, running, oops, failed>>
  BY DEF unset_free
<1>2. q \in Queues /\ txq \in [Devs -> Seq(Queues)]
  BY <1>1 DEF Inv, JobOK
<1>3. ring' = [ring EXCEPT ![q] = t] /\ numTxQs' = CountRings(ring')
  BY Zenon DEF unset_free
<1>4. overlap' \subseteq Queues
  <2>1. overlap' = IF last THEN overlap \ {q} ELSE overlap
    BY Zenon DEF unset_free
  <2>. QED BY <2>1 DEF Counts, Flags
<1>5. skewed' \in BOOLEAN /\ (~skewed' => ~skewed /\ ~(last /\ ring[q].qd # 0))
  <2>1. skewed' = (skewed \/ (last /\ ring[q].qd # 0))
    BY Zenon DEF unset_free
  <2>. QED BY <2>1, Zenon
<1>6. /\ CountOf(txq, job, q) > 0 /\ CountOf(txq, job', q) = CountOf(txq, job, q) - 1
      /\ \A p \in Queues \ {q} : CountOf(txq, job', p) = CountOf(txq, job, p)
  <2>1. ASSUME NEW p \in Queues
        PROVE  /\ UsersOf(txq, job', p) = UsersOf(txq, job, p)
               /\ Cardinality(UsersOf(txq, job, p)) \in Nat
    <3>1. UsersOf(txq, job, p) = Holders(txq, p) /\ UsersOf(txq, job', p) = Holders(txq, p)
      BY <1>0, <1>1, <1>2, UsersPlain
    <3>. QED BY <3>1 DEF Facts, UsersFinite
  <2>. QED BY <1>0, <1>1, <1>2, <2>1 DEF CountOf
<1>7. Loses(ring[q], t)
  <2>1. CASE last
    <3>1. UseFits(ring[q], CountOf(txq, job, q)) /\ CountOf(txq, job, q) \in Nat
      BY <1>2, Zenon DEF Facts, UsersFinite, Counts, Uses
    <3>2. ring[q].mem
      BY <1>6, <2>1, <3>1 DEF UseFits
    <3>. QED BY <2>1, <3>2 DEF Loses
  <2>2. CASE ~last
    BY <2>2 DEF Loses
  <2>. QED BY <2>1, <2>2
<1>. HIDE DEF q, t
<1>8. Drops(q, t)
  BY <1>0, <1>1, <1>3, <1>4, <1>5, <1>6, <1>7 DEF Drops
<1>. QED BY <1>2, <1>8, DropCounts

------------------------------------------------------------------------------
\* Requests that leave the rings and their users as they are.
LEMMA KeepCounts ==
  ASSUME Inv, Counts, UNCHANGED <<ring, failed>>, Flags', Fine(ring, qdAll)', Listing',
         RingsCounted', job'.pc \notin {"free", "null"},
         \A q \in Queues : CountOf(txq', job', q) = CountOf(txq, job, q),
         ~failed => job'.kind # "up" /\ \A d \in Devs : prio'[d] = Listed(d)'
  PROVE  Counts'
<1>1. Uses'
  BY DEF Counts, Uses
<1>2. NeverRefused'
  BY DEF Counts, NeverRefused
<1>3. \A q \in Window' : ring'[q].mem
  BY DEF Window
<1>. QED BY <1>1, <1>2, <1>3 DEF Counts

\* The rings are counted when DoSetTxQueue ends.
LEMMA SetCountCounts == ASSUME Facts, Inv, Counts, set_count PROVE Counts'
<1>0. NoJob.pc = "idle" /\ NoJob.kind = "none"
  BY DEF NoJob
<1>1. /\ job.pc = "count" /\ job' = NoJob /\ numTxQs' = CountRings(ring)
      /\ UNCHANGED <<ring, qdAll, link, txq, prio, running, oops, overlap, skewed, failed>>
  BY DEF set_count, hist
<1>2. CountRings(ring) \in Nat
  BY DEF Facts, CountLess
<1>3. Flags' /\ RingsCounted'
  BY <1>1, <1>2 DEF Counts, Flags, RingsCounted
<1>4. Fine(ring, qdAll)' /\ Listing'
  BY <1>1 DEF Counts, Fine, Listing
<1>5. ASSUME NEW q \in Queues PROVE CountOf(txq', job', q) = CountOf(txq, job, q)
  <2>1. UsersOf(txq, job, q) = Holders(txq, q) /\ UsersOf(txq, job', q) = Holders(txq, q)
    BY <1>0, <1>1, UsersPlain DEF Inv
  <2>. QED BY <1>0, <1>1, <2>1 DEF Facts, UsersFinite
<1>6. ~failed => job'.kind # "up" /\ \A d \in Devs : prio'[d] = Listed(d)'
  BY <1>0, <1>1 DEF Counts, NeverRefused, Listed
<1>. QED BY <1>0, <1>1, <1>3, <1>4, <1>5, <1>6, KeepCounts

\* The end of a link down, and of a link up that failed.
LEMMA EndCounts == ASSUME Facts, Inv, Counts, down_end \/ up_failed PROVE Counts'
<1>. DEFINE d == job.dev
<1>0. NoJob.pc = "idle" /\ NoJob.kind = "none"
  BY DEF NoJob
<1>1. /\ job.pc = "release" /\ job.i > Len(txq[d]) /\ job' = NoJob
      /\ txq' = [txq EXCEPT ![d] = <<>>]
      /\ UNCHANGED <<ring, numTxQs, oops, overlap, failed>>
  BY Zenon DEF down_end, up_failed, hist
<1>2. d \in Devs /\ job.i \in Nat /\ txq \in [Devs -> Seq(Queues)] /\ prio \in [Devs -> SUBSET Queues]
  BY <1>1 DEF Inv, JobOK
<1>3. /\ ring \in [Queues -> RingType] /\ \A q \in Queues : ~ring[q].mem => ring[q].qd = 0
      /\ Fine(ring, qdAll) /\ Flags
  BY DEF Counts, Fine
<1>4. Flags' /\ Fine(ring, qdAll)'
  <2>1. CASE down_end
    <3>1. /\ link' = [link EXCEPT ![d] = FALSE] /\ qdAll' = 0
          /\ skewed' = (\E q \in Queues : ring[q].qd # 0)
          /\ running' = (running /\ \E e \in Devs \ {d} : link[e])
      BY <2>1 DEF down_end
    <3>2. link' \in [Devs -> BOOLEAN]
      BY <1>3, <3>1, FALSE \in BOOLEAN, Zenon DEF Flags
    <3>3. skewed' \in BOOLEAN /\ running' \in BOOLEAN
      BY <3>1, Zenon
    <3>4. Flags'
      BY <1>1, <1>3, <3>2, <3>3 DEF Flags
    <3>5. ASSUME ~skewed' PROVE Cong(qdAll', QdTotal(ring'))
      <4>1. QdTotal(ring') = 0
        BY <1>1, <3>1, <3>5 DEF Facts, NoneQueued
      <4>. QED BY <3>1, <4>1, 0 \in Int, CongSame
    <3>6. qdAll' \in 0 .. U32 - 1
      BY <3>1, Size
    <3>. QED BY <1>1, <1>3, <3>4, <3>5, <3>6 DEF Fine
  <2>2. CASE up_failed
    <3>1. UNCHANGED <<qdAll, link, running, skewed>>
      BY <2>2 DEF up_failed, hist
    <3>. QED BY <1>1, <1>3, <3>1 DEF Flags, Fine
  <2>. QED BY <2>1, <2>2
<1>5. Listing'
  <2>1. IsInjective(<<>>)
    BY DEF IsInjective
  <2>2. txq'[d] = <<>> /\ \A e \in Devs \ {d} : txq'[e] = txq[e]
    BY <1>1, <1>2
  <2>. QED BY <2>1, <2>2 DEF Counts, Listing
<1>6. RingsCounted'
  BY <1>1 DEF Counts, RingsCounted
<1>7. ASSUME NEW q \in Queues PROVE CountOf(txq', job', q) = CountOf(txq, job, q)
  <2>1. txq' \in [Devs -> Seq(Queues)]
    BY <1>1, <1>2, <<>> \in Seq(Queues)
  <2>2. Empties(txq, job, d, txq', job')
    BY <1>0, <1>1, <1>2, <2>1 DEF Empties
  <2>. HIDE DEF d
  <2>. QED BY ONLY Facts, <2>2 DEF Facts, ReleasedUsers
<1>8. ASSUME ~failed PROVE job'.kind # "up" /\ \A e \in Devs : prio'[e] = Listed(e)'
  <2>1. job.kind # "up" /\ \A e \in Devs : prio[e] = Range(txq[e])
    BY <1>8 DEF Counts, NeverRefused, Listed
  <2>2. prio' = [prio EXCEPT ![d] = {}]
    BY <2>1, Zenon DEF down_end, up_failed
  <2>3. Range(<<>>) = {}
    BY DEF Range
  <2>4. ASSUME NEW e \in Devs PROVE prio'[e] = Range(txq'[e])
    BY <1>1, <1>2, <2>1, <2>2, <2>3, Zenon
  <2>. QED BY <1>0, <1>1, <2>4 DEF Listed
<1>. QED BY <1>0, <1>1, <1>4, <1>5, <1>6, <1>7, <1>8, KeepCounts, Zenon

\* A list without its i-th element, index by index ...
Shortens(t, i, s) ==
  /\ DOMAIN s = 1 .. Len(t) - 1
  /\ \A j \in 1 .. Len(t) - 1 : (j < i => s[j] = t[j]) /\ (~(j < i) => s[j] = t[j + 1])

\* The concatenation that moves the tail of pTxQueues down is such a list.
LEMMA WithoutAt ==
  ASSUME NEW t \in Seq(Queues), NEW i \in 1 .. Len(t), NEW s,
         s = SubSeq(t, 1, i - 1) \o SubSeq(t, i + 1, Len(t))
  PROVE  s \in Seq(Queues) /\ Shortens(t, i, s)
<1>. DEFINE a == SubSeq(t, 1, i - 1)
            b == SubSeq(t, i + 1, Len(t))
            l == Len(t)
<1>0. l \in Nat /\ i \in Nat /\ i >= 1 /\ i <= l /\ \A j \in 1 .. l : t[j] \in Queues
  OBVIOUS
<1>1. a \in Seq(Queues) /\ b \in Seq(Queues) /\ s = a \o b
  BY <1>0
<1>2. Len(a) = i - 1 /\ \A j \in 1 .. i - 1 : a[j] = t[j]
  BY <1>0
<1>3. Len(b) = l - i /\ \A j \in 1 .. l - i : b[j] = t[i + j]
  BY <1>0
<1>. HIDE DEF a, b, l
<1>4. a \o b \in Seq(Queues) /\ Len(a \o b) = Len(a) + Len(b)
  BY ONLY <1>1
<1>5. s \in Seq(Queues) /\ Len(s) = l - 1 /\ DOMAIN s = 1 .. l - 1
  <2>1. s \in Seq(Queues) /\ Len(s) = l - 1
    BY ONLY <1>0, <1>1, <1>2, <1>3, <1>4
  <2>. QED BY ONLY <2>1
<1>6. ASSUME NEW j \in 1 .. l - 1 PROVE (j < i => s[j] = t[j]) /\ (~(j < i) => s[j] = t[j + 1])
  <2>1. j < i => s[j] = a[j]
    BY ONLY <1>0, <1>1, <1>2, <1>5, j \in 1 .. l - 1
  <2>2. ~(j < i) => s[j] = b[j - (i - 1)]
    <3>1. j \in 1 .. Len(s) /\ (~(j < i) => j > Len(a) /\ j - Len(a) = j - (i - 1))
      BY ONLY <1>0, <1>2, <1>5, j \in 1 .. l - 1
    <3>2. j > Len(a) => (a \o b)[j] = b[j - Len(a)]
      BY ONLY <1>1, <1>4, <3>1
    <3>. QED BY ONLY <1>1, <3>1, <3>2
  <2>3. /\ j < i => j \in 1 .. i - 1
        /\ ~(j < i) => j - (i - 1) \in 1 .. l - i /\ i + (j - (i - 1)) = j + 1
    BY ONLY <1>0, j \in 1 .. l - 1
  <2>. QED BY ONLY <1>2, <1>3, <2>1, <2>2, <2>3
<1>. QED BY ONLY <1>5, <1>6 DEF l, Shortens

\* ... and as a set.
LEMMA Without ==
  ASSUME NEW t \in Seq(Queues), IsInjective(t), NEW i \in 1 .. Len(t), NEW s,
         Shortens(t, i, s)
  PROVE  IsInjective(s) /\ Range(s) = Range(t) \ {t[i]}
<1>. DEFINE l == Len(t)
<1>0. l \in Nat /\ i \in 1 .. l /\ DOMAIN t = 1 .. l
  OBVIOUS
<1>1. \A m \in 1 .. l, n \in 1 .. l : t[m] = t[n] => m = n
  BY <1>0 DEF IsInjective
<1>2. /\ DOMAIN s = 1 .. l - 1
      /\ \A j \in 1 .. l - 1 : (j < i => s[j] = t[j]) /\ (~(j < i) => s[j] = t[j + 1])
  BY DEF Shortens
<1>. HIDE DEF l
<1>3. IsInjective(s)
  <2>. SUFFICES ASSUME NEW j \in 1 .. l - 1, NEW k \in 1 .. l - 1, s[j] = s[k] PROVE j = k
    BY <1>2 DEF IsInjective
  <2>1. /\ j \in 1 .. l /\ j + 1 \in 1 .. l /\ k \in 1 .. l /\ k + 1 \in 1 .. l
        /\ (j < i /\ ~(k < i) => j # k + 1) /\ (~(j < i) /\ k < i => j + 1 # k)
        /\ (j + 1 = k + 1 => j = k)
    BY <1>0
  <2>. QED BY ONLY <1>1, <1>2, <2>1, j \in 1 .. l - 1, k \in 1 .. l - 1, s[j] = s[k]
<1>4. ASSUME NEW j \in 1 .. l - 1 PROVE \E m \in 1 .. l : m # i /\ s[j] = t[m]
  <2>1. j \in 1 .. l /\ j + 1 \in 1 .. l /\ (j < i => j # i) /\ (~(j < i) => j + 1 # i)
    BY <1>0
  <2>. QED BY ONLY <1>2, <2>1, j \in 1 .. l - 1
<1>5. ASSUME NEW m \in 1 .. l, m # i PROVE \E j \in 1 .. l - 1 : s[j] = t[m]
  <2>1. CASE m < i
    <3>1. m \in 1 .. l - 1
      BY <1>0, <2>1
    <3>. QED BY <1>2, <2>1, <3>1
  <2>2. CASE ~(m < i)
    <3>1. m - 1 \in 1 .. l - 1 /\ ~(m - 1 < i) /\ (m - 1) + 1 = m
      BY <1>0, <1>5, <2>2
    <3>2. s[m - 1] = t[m]
      BY ONLY <1>2, <3>1
    <3>. QED BY <3>1, <3>2
  <2>. QED BY <2>1, <2>2
<1>6. Range(s) = Range(t) \ {t[i]}
  <2>1. Range(s) = {s[j] : j \in 1 .. l - 1} /\ Range(t) = {t[m] : m \in 1 .. l}
    BY ONLY <1>0, <1>2 DEF Range
  <2>2. ASSUME NEW x \in Range(s) PROVE x \in Range(t) \ {t[i]}
    <3>1. PICK j \in 1 .. l - 1 : x = s[j]
      BY <2>1
    <3>2. PICK m \in 1 .. l : m # i /\ s[j] = t[m]
      BY <1>4
    <3>. QED BY ONLY <1>0, <1>1, <2>1, <3>1, <3>2
  <2>3. ASSUME NEW x \in Range(t), x # t[i] PROVE x \in Range(s)
    <3>1. PICK m \in 1 .. l : x = t[m]
      BY <2>1
    <3>2. m # i
      BY <2>3, <3>1
    <3>3. PICK j \in 1 .. l - 1 : s[j] = t[m]
      BY <1>5, <3>2
    <3>. QED BY ONLY <2>1, <3>1, <3>3
  <2>. QED BY <2>2, <2>3
<1>. QED BY <1>3, <1>6

\* DoUnsetTxQueue takes its queue off the list: its ring keeps the user until unset_free.
LEMMA UnlistCounts ==
  ASSUME Facts, Inv, Inv', Counts, NEW d \in Devs, NEW i \in 1 .. Len(txq[d]), unset_unlist(d, i)
  PROVE  Counts'
<1>. DEFINE q == txq[d][i]
            s == SubSeq(txq[d], 1, i - 1) \o SubSeq(txq[d], i + 1, Len(txq[d]))
<1>1. /\ job.pc = "idle"
      /\ UNCHANGED <<ring, qdAll, numTxQs, link, running, oops, overlap, skewed, failed>>
      /\ txq' = [txq EXCEPT ![d] = s] /\ prio' = [prio EXCEPT ![d] = prio[d] \ {q}]
      /\ job' = [pc |-> "unset", dev |-> d, i |-> q, kind |-> "unset"]
  BY DEF unset_unlist, hist
<1>2. /\ txq \in [Devs -> Seq(Queues)] /\ txq' \in [Devs -> Seq(Queues)] /\ txq[d] \in Seq(Queues)
      /\ prio \in [Devs -> SUBSET Queues] /\ IsInjective(txq[d])
  BY DEF Inv, Counts, Listing
<1>3. s \in Seq(Queues) /\ IsInjective(s) /\ Range(s) = Range(txq[d]) \ {q}
  <2>. DEFINE t == txq[d]
  <2>1. t \in Seq(Queues) /\ IsInjective(t) /\ i \in 1 .. Len(t)
        /\ s = SubSeq(t, 1, i - 1) \o SubSeq(t, i + 1, Len(t))
    BY <1>2
  <2>. HIDE DEF t, s
  <2>2. s \in Seq(Queues) /\ Shortens(t, i, s)
    BY ONLY <2>1, WithoutAt, Zenon
  <2>3. IsInjective(s) /\ Range(s) = Range(t) \ {t[i]}
    BY ONLY <2>1, <2>2, Without
  <2>. QED BY <2>2, <2>3 DEF t
<1>4. q \in Queues /\ q \in Range(txq[d])
  BY <1>2 DEF Range
<1>. HIDE DEF q, s
<1>5. txq'[d] = s /\ \A e \in Devs \ {d} : txq'[e] = txq[e]
  BY <1>1, <1>2, SMTT(20)
<1>6. ASSUME NEW p \in Queues PROVE CountOf(txq', job', p) = CountOf(txq, job, p)
  <2>1. UsersOf(txq, job, p) = Holders(txq, p) /\ UsersOf(txq', job', p) = Holders(txq', p)
    BY <1>1, <1>2, UsersPlain, Zenon
  <2>2. /\ Cardinality(Holders(txq', q)) = Cardinality(Holders(txq, q)) - 1
        /\ p # q => Holders(txq', p) = Holders(txq, p)
    <3>. DEFINE tx == txq
                tt == txq'
    <3>1. Delists(tx, tt, d, q)
      BY <1>3, <1>4, <1>5 DEF Delists
    <3>. HIDE DEF tx, tt
    <3>2. /\ Cardinality(Holders(tt, q)) = Cardinality(Holders(tx, q)) - 1
          /\ \A r \in Queues \ {q} : Holders(tt, r) = Holders(tx, r)
      BY ONLY Facts, <3>1, d \in Devs DEF Facts, FewerHolders
    <3>. QED BY <3>2 DEF tx, tt
  <2>3. Cardinality(UsersOf(txq, job, p)) \in Nat /\ Cardinality(UsersOf(txq', job', p)) \in Nat
    BY DEF Facts, UsersFinite
  <2>4. job'.pc = "unset" /\ job'.i = q
    BY <1>1
  <2>. QED BY <1>1, <2>1, <2>2, <2>3, <2>4 DEF CountOf
<1>7. Listing'
  BY <1>3, <1>5 DEF Counts, Listing
<1>8. Flags' /\ Fine(ring, qdAll)' /\ RingsCounted'
  BY <1>1, Zenon DEF Counts, Flags, Fine, RingsCounted
<1>9. ASSUME ~failed PROVE job'.kind # "up" /\ \A e \in Devs : prio'[e] = Listed(e)'
  <2>1. \A e \in Devs : prio[e] = Range(txq[e])
    BY <1>9 DEF Counts, NeverRefused, Listed
  <2>2. ASSUME NEW e \in Devs PROVE prio'[e] = Range(txq'[e])
    BY <1>1, <1>2, <1>3, <1>5, <2>1, Zenon
  <2>. QED BY <1>1, <2>2, Zenon DEF Listed
<1>. QED BY <1>1, <1>6, <1>7, <1>8, <1>9, KeepCounts, Zenon

------------------------------------------------------------------------------
\* What is no traffic does not crash the kernel, and puts no packet on a ring.
Quiet ==
  UNCHANGED oops /\ \A q \in Queues : ring'[q].head = ring[q].head \/ ring'[q].qd = 0

\* The new records of rings that lose or gain users have no packet, or the old head.
LEMMA QuietUse ==
  /\ Zeroed.qd = 0 /\ Fresh.qd = 0 /\ [Zeroed EXCEPT !.use = 1].qd = 0
  /\ \A r \in RingType : OneLess(r).head = r.head /\ (SetRing(r).head = r.head \/ SetRing(r).qd = 0)
<1>1. Zeroed.qd = 0 /\ Fresh.qd = 0 /\ [Zeroed EXCEPT !.use = 1].qd = 0
  BY DEF Zeroed, Fresh
<1>2. ASSUME NEW r \in RingType
      PROVE  OneLess(r).head = r.head /\ (SetRing(r).head = r.head \/ SetRing(r).qd = 0)
  BY <1>1 DEF RingType, OneLess, SetRing
<1>. QED BY <1>1, <1>2

\* Requests that give rings users are quiet ...
LEMMA SetQuiet ==
  ASSUME Counts, NEW d \in Devs,
         \/ DoLinkUp(d)
         \/ \E n \in 1 .. Len(QueuesOf[d]) : DoLinkUp_nomem(d, n)
         \/ \E q \in Queues : set_list(d, q) \/ set_nomem(d, q)
  PROVE  Quiet
<1>. DEFINE none == [Zeroed EXCEPT !.use = 1]
<1>1. ring \in [Queues -> RingType] /\ none.qd = 0
  BY QuietUse DEF Counts, Fine
<1>2. ASSUME NEW S, NEW q \in Queues
      PROVE  WithSet(S)[q].head = ring[q].head \/ WithSet(S)[q].qd = 0
  BY <1>1, QuietUse DEF WithSet
<1>3. UNCHANGED oops /\ \/ \E S : ring' = WithSet(S)
                        \/ \E S, bad : ring' = [WithSet(S) EXCEPT ![bad] = none]
                        \/ \E bad : ring' = [ring EXCEPT ![bad] = none]
  <2>1. CASE DoLinkUp(d)
    BY <2>1, Zenon DEF DoLinkUp
  <2>2. ASSUME NEW n \in 1 .. Len(QueuesOf[d]), DoLinkUp_nomem(d, n) PROVE <1>3!:
    BY <2>2, Zenon DEF DoLinkUp_nomem
  <2>3. ASSUME NEW q \in Queues, set_list(d, q) PROVE <1>3!:
    BY <2>3, Zenon DEF set_list
  <2>4. ASSUME NEW q \in Queues, set_nomem(d, q) PROVE <1>3!:
    BY <2>4, Zenon DEF set_nomem
  <2>. QED BY <2>1, <2>2, <2>3, <2>4, Zenon
<1>. HIDE DEF none
<1>4. ASSUME NEW q \in Queues PROVE ring'[q].head = ring[q].head \/ ring'[q].qd = 0
  <2>1. ASSUME NEW S, ring' = WithSet(S) PROVE ring'[q].head = ring[q].head \/ ring'[q].qd = 0
    BY <1>2, <2>1, Zenon
  <2>2. ASSUME NEW S, NEW bad, ring' = [WithSet(S) EXCEPT ![bad] = none]
        PROVE  ring'[q].head = ring[q].head \/ ring'[q].qd = 0
    <3>. DEFINE w == WithSet(S)
    <3>1. q \in DOMAIN w /\ (w[q].head = ring[q].head \/ w[q].qd = 0)
      BY <1>2, Zenon DEF WithSet
    <3>. HIDE DEF w
    <3>. QED BY <1>1, <2>2, <3>1, Zenon DEF w
  <2>3. ASSUME NEW bad, ring' = [ring EXCEPT ![bad] = none]
        PROVE  ring'[q].head = ring[q].head \/ ring'[q].qd = 0
    BY <1>1, <2>3
  <2>. QED BY <1>3, <2>1, <2>2, <2>3
<1>. QED BY <1>3, <1>4 DEF Quiet

\* ... and so are those that take users from them, and those that count.
LEMMA UnsetQuiet ==
  ASSUME Counts,
         \/ \E d \in Devs : \E i \in 1 .. Len(txq[d]) : unset_unlist(d, i)
         \/ release \/ down_end \/ up_failed \/ set_count \/ unset_free
  PROVE  Quiet
<1>1. ring \in [Queues -> RingType]
  BY DEF Counts, Fine
<1>2. UNCHANGED oops /\ \/ UNCHANGED ring
                        \/ \E q, t : /\ ring' = [ring EXCEPT ![q] = t]
                                     /\ t \in {Zeroed, ring[q], OneLess(ring[q])}
  <2>1. CASE \/ \E d \in Devs : \E i \in 1 .. Len(txq[d]) : unset_unlist(d, i)
             \/ down_end \/ up_failed \/ set_count
    BY <2>1, Zenon DEF unset_unlist, down_end, up_failed, set_count
  <2>2. CASE release
    <3>. DEFINE q == txq[job.dev][job.i]
                t == IF ring[q].mem /\ ring[q].use = 1 THEN Zeroed
                     ELSE IF ring[q].mem THEN OneLess(ring[q]) ELSE ring[q]
    <3>1. UNCHANGED oops /\ ring' = [ring EXCEPT ![q] = t]
      BY <2>2, Zenon DEF release
    <3>2. t \in {Zeroed, ring[q], OneLess(ring[q])}
      OBVIOUS
    <3>. QED BY <3>1, <3>2, Zenon
  <2>3. CASE unset_free
    <3>. DEFINE q == job.i
                t == IF ring[q].use = 1 THEN Zeroed ELSE OneLess(ring[q])
    <3>1. UNCHANGED oops /\ ring' = [ring EXCEPT ![q] = t]
      BY <2>3, Zenon DEF unset_free
    <3>2. t \in {Zeroed, ring[q], OneLess(ring[q])}
      OBVIOUS
    <3>. QED BY <3>1, <3>2, Zenon
  <2>. QED BY <2>1, <2>2, <2>3, Zenon
<1>3. ASSUME NEW p \in Queues PROVE ring'[p].head = ring[p].head \/ ring'[p].qd = 0
  <2>1. ASSUME NEW q, NEW t, ring' = [ring EXCEPT ![q] = t],
               t \in {Zeroed, ring[q], OneLess(ring[q])}
        PROVE  ring'[p].head = ring[p].head \/ ring'[p].qd = 0
    BY <1>1, <2>1, QuietUse
  <2>. QED BY <1>2, <2>1
<1>. QED BY <1>2, <1>3 DEF Quiet

\* Every step keeps the invariant, and is traffic or quiet: one case per action.
LEMMA NextCounts ==
  ASSUME Facts, Inv, Inv', Counts, [Next]_vars
  PROVE  Counts' /\ ((Traffic /\ UNCHANGED numTxQs) \/ Quiet)
<1>1. CASE UNCHANGED vars
  <2>1. UNCHANGED <<ring, qdAll, numTxQs, link, txq, prio, running, job, oops, overlap, skewed, failed>>
    BY <1>1 DEF vars, hist
  <2>2. Quiet
    BY <2>1, Zenon DEF Quiet
  <2>3. Flags' /\ Fine(ring, qdAll)' /\ Listing'
    BY <2>1 DEF Counts, Flags, Fine, Listing
  <2>4. Uses' /\ RingsCounted'
    BY <2>1 DEF Counts, Uses, RingsCounted
  <2>5. NeverRefused' /\ (\A q \in Window : ring[q].mem)'
    BY <2>1 DEF Counts, NeverRefused, Window, Listed
  <2>. QED BY <2>2, <2>3, <2>4, <2>5 DEF Counts
<1>2. ASSUME NEW d \in Devs,
             \/ DoLinkUp(d) \/ loop_start(d, "down") \/ loop_start(d, "cell")
             \/ \E n \in 1 .. Len(QueuesOf[d]) : DoLinkUp_nomem(d, n)
             \/ \E q \in Queues : set_list(d, q) \/ set_nomem(d, q)
             \/ \E i \in 1 .. Len(txq[d]) : unset_unlist(d, i)
      PROVE  Counts' /\ ((Traffic /\ UNCHANGED numTxQs) \/ Quiet)
  <2>1. CASE loop_start(d, "down") \/ loop_start(d, "cell")
    BY <2>1, LoopCounts, Zenon
  <2>2. CASE \/ DoLinkUp(d)
             \/ \E n \in 1 .. Len(QueuesOf[d]) : DoLinkUp_nomem(d, n)
             \/ \E q \in Queues : set_list(d, q) \/ set_nomem(d, q)
    BY <2>2, SetQuiet, LinkUpCounts, LinkUpFailsCounts, SetListCounts, SetFailsCounts, Zenon
  <2>3. CASE \E i \in 1 .. Len(txq[d]) : unset_unlist(d, i)
    BY <2>3, UnsetQuiet, UnlistCounts, Zenon
  <2>. QED BY <1>2, <2>1, <2>2, <2>3, Zenon
<1>3. CASE loop_free \/ loop_null
  BY <1>3, LoopCounts, Zenon
<1>4. CASE release \/ down_end \/ up_failed \/ set_count \/ unset_free
  BY <1>4, UnsetQuiet, ReleaseCounts, EndCounts, SetCountCounts, UnsetFreeCounts, Zenon
<1>5. CASE \/ \E d \in Devs : bcmxtmrt_xmit(d)
           \/ bcmxtmrt_timer
           \/ \E q \in Queues : transmit(q)
  BY <1>5, SoftCounts, Zenon
<1>. QED BY <1>1, <1>2, <1>3, <1>4, <1>5, Zenon DEF Next, Request, JobStep

=============================================================================
