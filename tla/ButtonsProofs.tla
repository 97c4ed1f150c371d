---------------------------- MODULE ButtonsProofs ----------------------------
(***************************************************************************)
(* Proofs about the buttons and their event queue, for every set of polled *)
(* buttons and reading processes and every queue capacity.                 *)
(***************************************************************************)
EXTENDS Buttons, TLAPS

QueueInv == EQTypeOK /\ SingleReader /\ ReaderFindsEvent /\ NoSpontaneousReset /\ QueuedResetSeen

ButtonInv ==
  TypeOK /\ TriggerInRange /\ LongOnlyWhileDown /\ SesTimerOwned /\ TriggerDrop

Inv == QueueInv /\ ButtonInv

-----------------------------------------------------------------------------
\* Queueing an event keeps the queue's invariants: a woken reader tests again, and
\* a queue that was not empty stays so.
LEMMA EnqueueKeepsQueue ==
  ASSUME QueueInv, NEW id \in EventId, event_enqueue(id)
  PROVE  QueueInv'
  <1> USE EventQueueAssumption DEF QueueInv
  <1>1. CASE Len(fifo) < Cap
    <2>1. /\ fifo' = Append(fifo, id) /\ rd' = Woken
          /\ resetSeen' = (resetSeen \/ id = ResetDown)
          /\ inuse' = inuse /\ factory' = factory
      BY <1>1 DEF event_enqueue
    <2>2. fifo' \in Seq(EventId) /\ Len(fifo') = Len(fifo) + 1 /\ fifo' # <<>>
      BY <2>1 DEF EQTypeOK
    <2>3. \A r \in Readers : /\ rd[r] \in ReaderState
                             /\ rd'[r] = IF rd[r] = "asleep" THEN "check" ELSE rd[r]
      BY <2>1 DEF EQTypeOK, Woken
    <2>4. EQTypeOK'
      <3>1. rd' \in [Readers -> ReaderState]
        BY <2>1, <2>3 DEF Woken, ReaderState
      <3>2. Len(fifo') <= Cap
        BY <1>1, <2>2 DEF EQTypeOK
      <3>3. resetSeen' \in BOOLEAN
        BY <2>1, Zenon DEF EQTypeOK
      <3> QED
        BY <2>1, <2>2, <3>1, <3>2, <3>3 DEF EQTypeOK
    <2>5. SingleReader'
      BY <2>1, <2>3 DEF SingleReader
    <2>6. ReaderFindsEvent'
      BY <2>2 DEF ReaderFindsEvent
    <2>7. NoSpontaneousReset'
      BY <2>1, Zenon DEF NoSpontaneousReset
    <2>8. QueuedResetSeen'
      <3> SUFFICES ASSUME NEW i \in DOMAIN fifo', fifo'[i] = ResetDown
                   PROVE  resetSeen'
        BY DEF QueuedResetSeen
      <3>1. CASE i = Len(fifo) + 1
        <4>1. id = ResetDown
          BY <2>1, <3>1 DEF EQTypeOK
        <4> QED
          BY <2>1, <4>1, Zenon
      <3>2. CASE i # Len(fifo) + 1
        <4>1. i \in DOMAIN fifo /\ fifo[i] = ResetDown
          BY <2>1, <3>2 DEF EQTypeOK
        <4> QED
          BY <2>1, <4>1, Zenon DEF QueuedResetSeen
      <3> QED
        BY <3>1, <3>2
    <2> QED
      BY <2>4, <2>5, <2>6, <2>7, <2>8
  <1>2. CASE ~(Len(fifo) < Cap)
    <2>1. UNCHANGED eqVars
      BY <1>2 DEF event_enqueue, eqVars
    <2> QED
      BY <2>1 DEF eqVars, EQTypeOK, SingleReader, ReaderFindsEvent, NoSpontaneousReset,
                  QueuedResetSeen
  <1> QED
    BY <1>1, <1>2

\* A step of a process in the driver keeps them: only the one process that has the
\* device open takes events, so nobody takes the event another was told of.
LEMMA ReaderKeepsQueue ==
  ASSUME QueueInv, NEW r \in Readers, ReaderStep(r)
  PROVE  QueueInv'
  <1> USE EventQueueAssumption DEF QueueInv
  <1>1. CASE events_open(r)
    BY <1>1 DEF events_open, EQTypeOK, ReaderState, SingleReader, ReaderFindsEvent,
                NoSpontaneousReset, QueuedResetSeen
  <1>2. CASE events_release(r)
    BY <1>2, Zenon DEF events_release, EQTypeOK, ReaderState, SingleReader, ReaderFindsEvent,
                NoSpontaneousReset, QueuedResetSeen
  <1>3. CASE events_poll(r)
    BY <1>3 DEF events_poll, EQTypeOK, ReaderState, SingleReader, ReaderFindsEvent,
                NoSpontaneousReset, QueuedResetSeen
  <1>4. CASE events_read(r)
    BY <1>4 DEF events_read, EQTypeOK, ReaderState, SingleReader, ReaderFindsEvent,
                NoSpontaneousReset, QueuedResetSeen
  <1>5. CASE read_wait(r)
    BY <1>5 DEF read_wait, EQTypeOK, ReaderState, SingleReader, ReaderFindsEvent,
                NoSpontaneousReset, QueuedResetSeen
  <1>6. CASE read_interrupted(r)
    BY <1>6 DEF read_interrupted, EQTypeOK, ReaderState, SingleReader, ReaderFindsEvent,
                NoSpontaneousReset, QueuedResetSeen
  <1>7. CASE read_get(r)
    <2>1. fifo # <<>> /\ rd[r] = "ready"
      BY <1>7 DEF read_get, ReaderFindsEvent
    <2>2. /\ factory' = (factory \/ Head(fifo) = ResetDown)
          /\ fifo' = Tail(fifo)
          /\ rd' = [rd EXCEPT ![r] = "open"]
          /\ UNCHANGED <<inuse, resetSeen>>
      BY <1>7, <2>1 DEF read_get
    <2>3. /\ fifo' \in Seq(EventId) /\ Len(fifo') = Len(fifo) - 1
          /\ \A i \in DOMAIN fifo' : i + 1 \in DOMAIN fifo /\ fifo'[i] = fifo[i + 1]
          /\ 1 \in DOMAIN fifo /\ Head(fifo) = fifo[1]
      BY <2>1, <2>2 DEF EQTypeOK
    <2>4. EQTypeOK'
      <3>1. rd' \in [Readers -> ReaderState]
        BY <2>2 DEF EQTypeOK, ReaderState
      <3>2. Len(fifo') <= Cap
        BY <2>3 DEF EQTypeOK
      <3>3. factory' \in BOOLEAN
        BY <2>2, Zenon DEF EQTypeOK
      <3> QED
        BY <2>2, <2>3, <3>1, <3>2, <3>3 DEF EQTypeOK
    <2>5. SingleReader'
      BY <2>1, <2>2 DEF EQTypeOK, SingleReader
    <2>6. ReaderFindsEvent'
      BY <2>1, <2>2 DEF EQTypeOK, SingleReader, ReaderFindsEvent
    <2>7. NoSpontaneousReset'
      BY <2>2, <2>3, Zenon DEF NoSpontaneousReset, QueuedResetSeen
    <2>8. QueuedResetSeen'
      BY <2>2, <2>3 DEF QueuedResetSeen
    <2> QED
      BY <2>4, <2>5, <2>6, <2>7, <2>8
  <1> QED
    BY <1>1, <1>2, <1>3, <1>4, <1>5, <1>6, <1>7 DEF ReaderStep

\* A step that does not touch the queue keeps its invariants.
LEMMA UnchangedKeepsQueue ==
  ASSUME QueueInv, UNCHANGED eqVars
  PROVE  QueueInv'
  BY DEF QueueInv, eqVars, EQTypeOK, SingleReader, ReaderFindsEvent, NoSpontaneousReset,
         QueuedResetSeen

-----------------------------------------------------------------------------
\* Before it is lowered the counter of a poll is between 2 and 5, so that lowering
\* it by 2 never wraps and reaches 0 from 1 only.
LEMMA BumpedRange ==
  ASSUME TypeOK, TriggerInRange, NEW b \in Polled
  PROVE  /\ Bumped(b) = IF trigger[b] = 5 THEN 5 ELSE trigger[b] + 1
         /\ (Bumped(b) - 2) % U32 = Bumped(b) - 2
         /\ Bumped(b) \in 2 .. 5
  <1> USE DEF POLL_TRIGGER
  <1>1. trigger[b] \in 1 .. 5 /\ U32 \in Nat /\ U32 > 6
    BY ButtonsAssumption DEF TriggerInRange
  <1>2. (trigger[b] + 1) % U32 = trigger[b] + 1
    BY <1>1
  <1>3. Bumped(b) = IF trigger[b] = 5 THEN 5 ELSE trigger[b] + 1
    BY <1>1, <1>2 DEF Bumped
  <1>4. Bumped(b) \in 2 .. 5
    BY <1>1, <1>3
  <1>5. (Bumped(b) - 2) % U32 = Bumped(b) - 2
    BY <1>1, <1>4
  <1> QED
    BY <1>3, <1>4, <1>5

\* A poll of a button keeps the button's counters and timer together.
LEMMA PollKeepsButtons ==
  ASSUME Inv, NEW b \in Polled, gpio_poll(b)
  PROVE  Inv'
  <1> USE DEF Inv, ButtonInv, POLL_TRIGGER, Apart
  <1>1. /\ trigger[b] \in 1 .. 5 /\ since[b] \in 0 .. 3 /\ value[b] \in {0, 1}
        /\ 5 \in 0 .. U32 - 1 /\ U32 \in Nat
    BY ButtonsAssumption DEF TypeOK, TriggerInRange
  <1>2. /\ Bumped(b) = IF trigger[b] = 5 THEN 5 ELSE trigger[b] + 1
        /\ (Bumped(b) - 2) % U32 = Bumped(b) - 2
        /\ Bumped(b) \in 2 .. 5
    BY BumpedRange
  <1>3. Polls(b) = (IF since[b] < 3 THEN since[b] + 1 ELSE since[b]) /\ Polls(b) \in 1 .. 3
    BY <1>1 DEF Polls
  <1>4. UNCHANGED <<sesIrq, sesTimer, soft>> /\ late' \in BOOLEAN
    BY Zenon DEF gpio_poll
  <1>5. ASSUME value' \in [Polled -> {0, 1}], \A c \in Polled \ {b} : value'[c] = value[c],
                NEW c \in Polled, soft' = <<c, "long">>
         PROVE  value'[c] = 0 \/ late'
    <2>1. soft = <<c, "long">> /\ (value[c] = 0 \/ late)
      BY <1>4, <1>5 DEF LongOnlyWhileDown
    <2>2. late' = (late \/ (soft = <<b, "long">> /\ value'[b] # value[b]))
      BY DEF gpio_poll
    <2>3. CASE c = b /\ value'[b] # value[b]
      BY <2>1, <2>2, <2>3, Zenon
    <2>4. CASE ~(c = b /\ value'[b] # value[b])
      <3>1. value'[c] = value[c]
        BY <1>5, <2>4, Zenon
      <3> QED
        BY <2>1, <2>2, <3>1, Zenon
    <2> QED
      BY <2>3, <2>4
  <1>6. CASE poll_same(b)
    <2>1. QueueInv'
      BY <1>6, UnchangedKeepsQueue DEF poll_same
    <2>2. TypeOK'
      BY <1>1, <1>2, <1>3, <1>4, <1>6, <2>1 DEF poll_same, QueueInv, TypeOK
    <2>3. TriggerInRange' /\ TriggerDrop'
      BY <1>1, <1>2, <1>3, <1>6 DEF poll_same, TypeOK, TriggerInRange, TriggerDrop
    <2>4. LongOnlyWhileDown'
      BY <1>5, <1>6, Zenon DEF poll_same, TypeOK, LongOnlyWhileDown
    <2> QED
      BY <1>4, <2>1, <2>2, <2>3, <2>4 DEF SesTimerOwned
  <1>7. CASE poll_bounce(b)
    <2>1. QueueInv'
      BY <1>7, UnchangedKeepsQueue DEF poll_bounce
    <2>2. TypeOK' /\ TriggerInRange' /\ TriggerDrop'
      BY <1>1, <1>2, <1>3, <1>4, <1>7, <2>1
      DEF poll_bounce, QueueInv, TypeOK, TriggerInRange, TriggerDrop
    <2>3. LongOnlyWhileDown'
      BY <1>5, <1>7, Zenon DEF poll_bounce, TypeOK, LongOnlyWhileDown
    <2> QED
      BY <1>4, <2>1, <2>2, <2>3 DEF SesTimerOwned
  <1>8. CASE poll_edge(b)
    <2>1. <<b, IF value[b] = 1 THEN "down" ELSE "up">> \in EventId
      BY ButtonsAssumption DEF ButtonEvent
    <2>2. QueueInv'
      BY <1>8, <2>1, EnqueueKeepsQueue DEF poll_edge
    <2>3. TypeOK' /\ TriggerInRange' /\ TriggerDrop'
      BY <1>1, <1>2, <1>4, <1>8, <2>2
      DEF poll_edge, QueueInv, TypeOK, TriggerInRange, TriggerDrop
    <2>4. /\ value' \in [Polled -> {0, 1}]
          /\ \A c \in Polled \ {b} : value'[c] = value[c]
          /\ value[b] = 1 => value'[b] = 0
      BY <1>1, <1>8 DEF poll_edge, TypeOK
    <2>5. ASSUME NEW c \in Polled, timer'[c]
          PROVE  value'[c] = 0
      <3>1. CASE c = b
        BY <1>8, <2>4, <2>5, <3>1, Zenon DEF poll_edge, TypeOK
      <3>2. CASE c # b
        BY <1>8, <2>4, <2>5, <3>2, Zenon DEF poll_edge, TypeOK, LongOnlyWhileDown
      <3> QED
        BY <3>1, <3>2
    <2>6. LongOnlyWhileDown'
      BY <1>5, <2>4, <2>5, Zenon DEF LongOnlyWhileDown
    <2> QED
      BY <1>4, <2>2, <2>3, <2>6 DEF SesTimerOwned
  <1> QED
    BY <1>6, <1>7, <1>8 DEF gpio_poll

\* A step that changes none of the polled buttons' counters keeps ButtonInv when it
\* disarms long press timers only and starts their function only for a button that is
\* down.
LEMMA OthersKeepButtons ==
  ASSUME ButtonInv, QueueInv', UNCHANGED <<trigger, value, since>>,
         timer' \in [Polled -> BOOLEAN], \A b \in Polled : timer'[b] => timer[b],
         late' \in BOOLEAN,
         \A b \in Polled : soft' = <<b, "long">> =>
                            (soft = soft' /\ late' = late) \/ value[b] = 0,
         sesIrq' \in BOOLEAN, sesTimer' \in BOOLEAN, soft' \in Softs, SesTimerOwned'
  PROVE  Inv'
  BY DEF Inv, ButtonInv, QueueInv, TypeOK, TriggerInRange, LongOnlyWhileDown, TriggerDrop

\* Every step keeps the invariant: one case per handler.
LEMMA NextInv == Inv /\ [Next]_vars => Inv'
  <1> SUFFICES ASSUME Inv, [Next]_vars
               PROVE  Inv'
    OBVIOUS
  <1>1. ButtonInv /\ QueueInv /\ TypeOK /\ SesTimerOwned
    BY DEF Inv, ButtonInv
  <1>2. ASSUME NEW b \in Polled, gpio_poll(b)
        PROVE  Inv'
    BY <1>2, PollKeepsButtons
  <1>3. CASE switch_ses_handler
    <2>1. QueueInv'
      BY <1>1, <1>3, EnqueueKeepsQueue, ButtonsAssumption DEF switch_ses_handler
    <2> QED
      BY <1>1, <1>3, <2>1, OthersKeepButtons, Zenon DEF switch_ses_handler, TypeOK, SesTimerOwned
  <1>4. CASE switch_reset_handler
    <2>1. QueueInv'
      BY <1>1, <1>4, EnqueueKeepsQueue, EventQueueAssumption DEF switch_reset_handler
    <2> QED
      BY <1>1, <1>4, <2>1, OthersKeepButtons
      DEF switch_reset_handler, bVars, TypeOK, SesTimerOwned
  <1>5. CASE other_driver
    <2>1. QueueInv'
      BY <1>1, <1>5, EnqueueKeepsQueue, ButtonsAssumption DEF other_driver
    <2> QED
      BY <1>1, <1>5, <2>1, OthersKeepButtons DEF other_driver, bVars, TypeOK, SesTimerOwned
  <1>6. ASSUME NEW b \in Polled, long_expires(b)
        PROVE  Inv'
    <2>1. QueueInv'
      BY <1>1, <1>6, UnchangedKeepsQueue DEF long_expires
    <2>2. soft' \in Softs /\ soft' # <<"ses", "enable">> /\ soft # <<"ses", "enable">>
      BY <1>6 DEF long_expires, Softs, Idle
    <2>3. \A c \in Polled : soft' = <<c, "long">> => value[c] = 0
      BY <1>1, <1>6 DEF long_expires, ButtonInv, LongOnlyWhileDown
    <2> QED
      BY <1>1, <1>6, <2>1, <2>2, <2>3, OthersKeepButtons DEF long_expires, TypeOK, SesTimerOwned
  <1>7. ASSUME NEW b \in Polled, trigger_long(b)
        PROVE  Inv'
    <2>1. QueueInv'
      <3>1. <<b, "long">> \in EventId
        BY ButtonsAssumption DEF ButtonEvent
      <3> QED
        BY <1>1, <1>7, <3>1, EnqueueKeepsQueue DEF trigger_long
    <2>2. soft' \in Softs /\ soft' # <<"ses", "enable">> /\ soft # <<"ses", "enable">>
      BY <1>7 DEF trigger_long, Softs, Idle
    <2>3. \A c \in Polled : soft' # <<c, "long">>
      BY <1>7 DEF trigger_long, Idle
    <2>4. late' \in BOOLEAN
      BY <1>7, Zenon DEF trigger_long
    <2> QED
      BY <1>1, <1>7, <2>1, <2>2, <2>3, <2>4, OthersKeepButtons
      DEF trigger_long, TypeOK, SesTimerOwned
  <1>8. CASE ses_expires
    <2>1. QueueInv'
      BY <1>1, <1>8, UnchangedKeepsQueue DEF ses_expires
    <2> QED
      BY <1>1, <1>8, <2>1, OthersKeepButtons, Zenon DEF ses_expires, TypeOK, Softs, SesTimerOwned
  <1>9. CASE ses_enable
    <2>1. QueueInv'
      BY <1>1, <1>9, UnchangedKeepsQueue DEF ses_enable
    <2> QED
      BY <1>1, <1>9, <2>1, OthersKeepButtons DEF ses_enable, TypeOK, Softs, SesTimerOwned
  <1>10. CASE ses_enqueue
    <2>1. QueueInv'
      BY <1>1, <1>10, EnqueueKeepsQueue, ButtonsAssumption DEF ses_enqueue
    <2> QED
      BY <1>1, <1>10, <2>1, OthersKeepButtons DEF ses_enqueue, TypeOK, Softs, Idle, SesTimerOwned
  <1>11. ASSUME NEW r \in Readers, Reader(r)
         PROVE  Inv'
    <2>1. QueueInv'
      BY <1>1, <1>11, ReaderKeepsQueue DEF Reader
    <2> QED
      BY <1>1, <1>11, <2>1, OthersKeepButtons DEF Reader, bVars, TypeOK, SesTimerOwned
  <1>12. CASE UNCHANGED vars
    <2>1. QueueInv'
      BY <1>1, <1>12, UnchangedKeepsQueue DEF vars
    <2> QED
      BY <1>1, <1>12, <2>1, OthersKeepButtons DEF vars, bVars, TypeOK, SesTimerOwned
  <1> QED
    BY <1>2, <1>3, <1>4, <1>5, <1>6, <1>7, <1>8, <1>9, <1>10, <1>11, <1>12 DEF Next, SoftStep

\* The invariant holds once the driver is loaded.
LEMMA InitInv == Init => Inv
  <1> SUFFICES ASSUME Init
               PROVE  Inv
    OBVIOUS
  <1> USE DEF Init, EQInit, POLL_TRIGGER, Apart
  <1>1. EQTypeOK
    <2>1. fifo \in Seq(EventId) /\ Len(fifo) <= Cap
      BY EventQueueAssumption
    <2>2. inuse \in BOOLEAN /\ factory \in BOOLEAN /\ resetSeen \in BOOLEAN
      BY Zenon
    <2>3. rd \in [Readers -> ReaderState]
      BY DEF ReaderState
    <2> QED
      BY <2>1, <2>2, <2>3 DEF EQTypeOK
  <1>2. SingleReader /\ ReaderFindsEvent /\ NoSpontaneousReset /\ QueuedResetSeen
    BY DEF SingleReader, ReaderFindsEvent, NoSpontaneousReset, QueuedResetSeen
  <1>3. 5 \in 0 .. U32 - 1
    BY ButtonsAssumption
  <1>4. TypeOK
    <2>1. /\ trigger \in [Polled -> 0 .. U32 - 1] /\ value \in [Polled -> {0, 1}]
          /\ since \in [Polled -> 0 .. 3]
      BY <1>3
    <2>2. /\ timer \in [Polled -> BOOLEAN] /\ sesIrq \in BOOLEAN /\ sesTimer \in BOOLEAN
          /\ late \in BOOLEAN
      BY Zenon
    <2> QED
      BY <1>1, <2>1, <2>2 DEF TypeOK, Softs
  <1> QED
    BY <1>1, <1>2, <1>4
    DEF Inv, QueueInv, ButtonInv, TriggerInRange, LongOnlyWhileDown, SesTimerOwned,
        TriggerDrop, Idle

\* The inductive invariant holds: whatever the buttons bounce, the interrupts
\* interleave and the processes do.
THEOREM InvHolds == Spec => []Inv
  BY InitInv, NextInv, PTL DEF Spec

\* Every variable keeps its type; the queue never holds more than Cap events.
THEOREM ButtonsTyped == Spec => []TypeOK
  <1>1. Inv => TypeOK
    BY DEF Inv, ButtonInv
  <1> QED
    BY <1>1, InvHolds, PTL

\* The unsigned poll counter of gpio_poll never wraps.
THEOREM TriggerNeverWraps == Spec => []TriggerInRange
  <1>1. Inv => TriggerInRange
    BY DEF Inv, ButtonInv
  <1> QED
    BY <1>1, InvHolds, PTL

\* gpio_poll never arms a pending long press timer, a release cancels a pending one, and
\* the function of the timer is called for a button that was down when the timer expired.
\* Whether the button is still down when the event is queued is not said: a release in
\* between (late) does not stop the function.
THEOREM LongPressOwned == Spec => []LongOnlyWhileDown
  <1>1. Inv => LongOnlyWhileDown
    BY DEF Inv, ButtonInv
  <1> QED
    BY <1>1, InvHolds, PTL

\* A SES session always has its end ahead, and its timer is never initialized twice.
THEOREM SesSessionEnds == Spec => []SesTimerOwned
  <1>1. Inv => SesTimerOwned
    BY DEF Inv, ButtonInv
  <1> QED
    BY <1>1, InvHolds, PTL

\* Of the processes that open the event device for themselves one at a time has it
\* open and is inside its read.
THEOREM OneReader == Spec => []SingleReader
  <1>1. Inv => SingleReader
    BY DEF Inv, QueueInv
  <1> QED
    BY <1>1, InvHolds, PTL

\* The unchecked kfifo_get of events_read always finds an event, of whatever processes
\* open the device for themselves (none inherits the open file of another).
THEOREM GetNeverEmpty == Spec => []ReaderFindsEvent
  <1>1. Inv => ReaderFindsEvent
    BY DEF Inv, QueueInv
  <1> QED
    BY <1>1, InvHolds, PTL

\* The box resets to factory settings only on its button, under the same reading.
THEOREM ResetOnlyByButton == Spec => []NoSpontaneousReset
  <1>1. Inv => NoSpontaneousReset
    BY DEF Inv, QueueInv
  <1> QED
    BY <1>1, InvHolds, PTL

\* No two edges of a polled button are reported within fewer than four polls.
THEOREM EdgesFarApart == Spec => EdgesApart
  <1>1. Inv /\ [Next]_vars =>
          [\A b \in Polled : value'[b] # value[b] => since[b] >= Apart]_vars
    <2> SUFFICES ASSUME Inv, Next, NEW c \in Polled, value'[c] # value[c]
                 PROVE  since[c] >= Apart
      BY DEF vars
    <2>1. PICK b \in Polled : gpio_poll(b)
      BY Zenon DEF Next, SoftStep, switch_ses_handler, switch_reset_handler, other_driver, bVars,
             long_expires, trigger_long, ses_expires, ses_enable, ses_enqueue, Reader
    <2>2. poll_edge(b) /\ c = b
      BY <2>1 DEF gpio_poll, poll_same, poll_bounce, poll_edge, Inv, ButtonInv, TypeOK
    <2>3. /\ Bumped(b) = IF trigger[b] = 5 THEN 5 ELSE trigger[b] + 1
          /\ (Bumped(b) - 2) % U32 = Bumped(b) - 2
          /\ Bumped(b) \in 2 .. 5
      BY BumpedRange DEF Inv, ButtonInv
    <2>4. trigger[b] = 1
      BY <2>2, <2>3 DEF poll_edge, Inv, ButtonInv, TriggerInRange, POLL_TRIGGER
    <2> QED
      BY <2>2, <2>4 DEF Inv, ButtonInv, TypeOK, TriggerDrop, POLL_TRIGGER, Apart
  <1> QED
    BY <1>1, InvHolds, PTL DEF Spec, EdgesApart
=============================================================================
