----------------------------- MODULE EventQueue -----------------------------
(***************************************************************************)
(* drivers/char/neufbox-eventqueue.c: the /dev/events queue between the    *)
(* kernel (buttons, links) and the daemon that reads it.  A reset_down     *)
(* event resets the box to factory settings when it is READ.               *)
(***************************************************************************)
EXTENDS Integers, Sequences, FiniteSets

CONSTANTS
  EventId,    \* enum event_id
  ResetDown,  \* event_id_reset_down
  Cap,        \* events that fit the kfifo: 64 bytes of 4-byte ids
  Readers     \* the processes that may open /dev/events

ASSUME EventQueueAssumption ==
  /\ ResetDown \in EventId
  /\ Cap \in Nat \ {0}

VARIABLES
  fifo,      \* dev->fifo
  inuse,     \* bit 0 of dev->inuse
  rd,        \* where each process is in the driver
  factory,   \* /sbin/reset_to_factory was started
  resetSeen  \* history: a reset_down was queued

eqVars == <<fifo, inuse, rd, factory, resetSeen>>

ReaderState == {"closed", "open", "polled", "check", "asleep", "ready"}

EQInit ==
  /\ fifo = <<>>
  /\ inuse = FALSE
  /\ rd = [r \in Readers |-> "closed"]
  /\ factory = FALSE
  /\ resetSeen = FALSE

\* wake_up_interruptible: every process asleep in wait_event tests its condition.
Woken == [r \in Readers |-> IF rd[r] = "asleep" THEN "check" ELSE rd[r]]

-----------------------------------------------------------------------------
\* Faulty variant of event_enqueue: the reader is not woken.
EnqueueNoWake(id) ==
  /\ IF Len(fifo) < Cap
     THEN fifo' = Append(fifo, id) /\ resetSeen' = (resetSeen \/ id = ResetDown)
     ELSE UNCHANGED <<fifo, resetSeen>>
  /\ UNCHANGED <<rd, inuse, factory>>

\* Faulty variant of event_enqueue: a full queue is not noticed.
EnqueueUnbounded(id) ==
  /\ fifo' = Append(fifo, id) /\ rd' = Woken /\ resetSeen' = (resetSeen \/ id = ResetDown)
  /\ UNCHANGED <<inuse, factory>>

\* An interrupt handler or a timer queues an event; a full queue drops it.
event_enqueue(id) ==
  /\ IF Len(fifo) < Cap
     THEN fifo' = Append(fifo, id) /\ rd' = Woken /\ resetSeen' = (resetSeen \/ id = ResetDown)
     ELSE UNCHANGED <<fifo, rd, resetSeen>>
  /\ UNCHANGED <<inuse, factory>>

\* Faulty variant of events_open: the device may be opened twice.
OpenShared(r) ==
  /\ rd[r] = "closed"
  /\ inuse' = TRUE
  /\ rd' = [rd EXCEPT ![r] = "open"]
  /\ UNCHANGED <<fifo, factory, resetSeen>>

\* test_and_set_bit: a second open fails with EBUSY and changes nothing.  A process
\* that inherits the open file of another by fork is not modelled.
events_open(r) ==
  /\ rd[r] = "closed" /\ ~inuse
  /\ inuse' = TRUE
  /\ rd' = [rd EXCEPT ![r] = "open"]
  /\ UNCHANGED <<fifo, factory, resetSeen>>

events_release(r) ==
  /\ rd[r] \in {"open", "polled"}
  /\ inuse' = FALSE
  /\ rd' = [rd EXCEPT ![r] = "closed"]
  /\ UNCHANGED <<fifo, factory, resetSeen>>

\* poll returns POLLIN; on an empty queue the caller keeps waiting.
events_poll(r) ==
  /\ rd[r] = "open" /\ fifo # <<>>
  /\ rd' = [rd EXCEPT ![r] = "polled"]
  /\ UNCHANGED <<fifo, inuse, factory, resetSeen>>

\* read of at least sizeof(id) bytes; a shorter one returns 0 and changes nothing.
events_read(r) ==
  /\ rd[r] \in {"open", "polled"}
  /\ rd' = [rd EXCEPT ![r] = "check"]
  /\ UNCHANGED <<fifo, inuse, factory, resetSeen>>

\* wait_event_interruptible tests kfifo_len with the caller already on the wait
\* queue, so an event queued after the test wakes it.
read_wait(r) ==
  /\ rd[r] = "check"
  /\ rd' = [rd EXCEPT ![r] = IF fifo # <<>> THEN "ready" ELSE "asleep"]
  /\ UNCHANGED <<fifo, inuse, factory, resetSeen>>

\* A signal ends the wait with ERESTARTSYS.
read_interrupted(r) ==
  /\ rd[r] = "asleep"
  /\ rd' = [rd EXCEPT ![r] = "open"]
  /\ UNCHANGED <<fifo, inuse, factory, resetSeen>>

\* kfifo_get and what follows.  Its result is not tested: on an empty queue id is
\* an uninitialized int.
read_get(r) ==
  /\ rd[r] = "ready"
  /\ \E id \in IF fifo # <<>> THEN {Head(fifo)} ELSE EventId :
       factory' = (factory \/ id = ResetDown)
  /\ fifo' = IF fifo # <<>> THEN Tail(fifo) ELSE fifo
  /\ rd' = [rd EXCEPT ![r] = "open"]
  /\ UNCHANGED <<inuse, resetSeen>>

-----------------------------------------------------------------------------
ReaderStep(r) ==
  \/ events_open(r) \/ events_release(r) \/ events_poll(r) \/ events_read(r)
  \/ read_wait(r) \/ read_interrupted(r) \/ read_get(r)

-----------------------------------------------------------------------------
\* Type invariant; the queue never outgrows the kfifo.
EQTypeOK ==
  /\ fifo \in Seq(EventId) /\ Len(fifo) <= Cap
  /\ inuse \in BOOLEAN
  /\ rd \in [Readers -> ReaderState]
  /\ factory \in BOOLEAN /\ resetSeen \in BOOLEAN

\* One open of /dev/events at a time, and inuse says so.  It is a promise about opens:
\* processes that share one open file are not in the model.
SingleReader ==
  /\ \A r, s \in Readers : rd[r] # "closed" /\ rd[s] # "closed" => r = s
  /\ inuse <=> \E r \in Readers : rd[r] # "closed"

\* A process that poll told to read, or that left wait_event, finds an event: the
\* unchecked kfifo_get of events_read never returns an uninitialized id, as long as
\* the process that opened the device does not share the file with another reader.
ReaderFindsEvent ==
  \A r \in Readers : rd[r] \in {"polled", "ready"} => fifo # <<>>

\* The box is reset to factory settings only after the reset button was pressed.
NoSpontaneousReset == factory => resetSeen

\* A press of the reset button that got into the queue resets the box, as long as
\* the daemon reads its events.
ResetHappens == (ResetDown \in {fifo[i] : i \in DOMAIN fifo}) ~> factory

\* Every reset_down still in the queue was queued: with ReaderFindsEvent, what
\* makes NoSpontaneousReset inductive.
QueuedResetSeen == (\E i \in DOMAIN fifo : fifo[i] = ResetDown) => resetSeen
=============================================================================
