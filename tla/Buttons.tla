------------------------------- MODULE Buttons -------------------------------
(***************************************************************************)
(* The buttons of the neufbox 4 (board_neufbox4.c, its gpio_poll.c) and    *)
(* the event queue they feed: two buttons are polled every 20 ms by a      *)
(* hardware timer and debounced, the SES (WPS) and reset buttons raise     *)
(* interrupts.  Interrupt handlers are single steps; timer functions run   *)
(* in softirq, where an interrupt may come between two of their steps;     *)
(* the reader of the queue runs when no softirq does.                      *)
(***************************************************************************)
EXTENDS EventQueue

CONSTANTS
  Polled,    \* the polled buttons: clip and service
  OtherIds,  \* events that other drivers queue
  U32        \* 2^32, the range of the unsigned trigger counter

POLL_TRIGGER == 5

\* The fewest polls that come between two edges.
Apart == 3

ButtonEvent == {"up", "down", "long"}

ASSUME ButtonsAssumption ==
  /\ OtherIds \subseteq EventId
  /\ Polled \X ButtonEvent \subseteq EventId
  /\ {<<"ses", "start">>, <<"ses", "timeout">>} \subseteq EventId
  /\ U32 \in Nat /\ U32 > POLL_TRIGGER + 1

VARIABLES
  trigger,   \* gpio->trigger, a u32
  value,     \* gpio->value: 1 is up, 0 is down
  timer,     \* whether gpio->timer, the long press timer, is pending
  since,     \* history: polls since the last reported edge, counted up to Apart
  sesIrq,    \* the SES interrupt is enabled
  sesTimer,  \* whether board->ses_timeout is pending
  soft,      \* the timer function in progress and its next step
  late       \* history: a button changed between the expiry of its long press timer
             \* and the event

bVars == <<trigger, value, timer, since, sesIrq, sesTimer, soft, late>>
vars == <<eqVars, bVars>>

Idle == <<"none", "none">>
Softs == {Idle, <<"ses", "enable">>, <<"ses", "enqueue">>} \cup (Polled \X {"long"})

\* board_init requests the interrupts and gpio_poll_init starts the polls.
Init ==
  /\ EQInit
  /\ trigger = [b \in Polled |-> POLL_TRIGGER]
  /\ value = [b \in Polled |-> 1]
  /\ timer = [b \in Polled |-> FALSE]
  /\ since = [b \in Polled |-> Apart]
  /\ sesIrq = TRUE /\ sesTimer = FALSE
  /\ soft = Idle /\ late = FALSE

-----------------------------------------------------------------------------
\* ++trigger, capped.
Bumped(b) ==
  LET t == (trigger[b] + 1) % U32 IN IF t > POLL_TRIGGER THEN POLL_TRIGGER ELSE t

Polls(b) == IF since[b] < Apart THEN since[b] + 1 ELSE since[b]

\* The poll sees the level it already reported.
poll_same(b) ==
  /\ trigger' = [trigger EXCEPT ![b] = Bumped(b)]
  /\ since' = [since EXCEPT ![b] = Polls(b)]
  /\ UNCHANGED <<value, timer>> /\ UNCHANGED eqVars

\* The poll sees the other level, not yet often enough.
poll_bounce(b) ==
  /\ (Bumped(b) - 2) % U32 # 0
  /\ trigger' = [trigger EXCEPT ![b] = (Bumped(b) - 2) % U32]
  /\ since' = [since EXCEPT ![b] = Polls(b)]
  /\ UNCHANGED <<value, timer>> /\ UNCHANGED eqVars

\* Faulty variant of poll_edge: trigger is not reset.
EdgeKeepsTrigger(b) ==
  /\ (Bumped(b) - 2) % U32 = 0
  /\ trigger' = [trigger EXCEPT ![b] = 0]
  /\ since' = [since EXCEPT ![b] = 0]
  /\ value' = [value EXCEPT ![b] = 1 - @]
  /\ timer' = [timer EXCEPT ![b] = (value[b] = 1)]
  /\ event_enqueue(<<b, IF value[b] = 1 THEN "down" ELSE "up">>)

\* Faulty variant of poll_edge: the release does not cancel the long press timer.
EdgeKeepsTimer(b) ==
  /\ (Bumped(b) - 2) % U32 = 0
  /\ trigger' = [trigger EXCEPT ![b] = POLL_TRIGGER]
  /\ since' = [since EXCEPT ![b] = 0]
  /\ value' = [value EXCEPT ![b] = 1 - @]
  /\ timer' = [timer EXCEPT ![b] = @ \/ value[b] = 1]
  /\ event_enqueue(<<b, IF value[b] = 1 THEN "down" ELSE "up">>)

\* The other level is established: a press arms the long press timer, a release
\* cancels it, and the edge is queued.
poll_edge(b) ==
  /\ (Bumped(b) - 2) % U32 = 0
  /\ trigger' = [trigger EXCEPT ![b] = POLL_TRIGGER]
  /\ since' = [since EXCEPT ![b] = 0]
  /\ value' = [value EXCEPT ![b] = 1 - @]
  /\ timer' = [timer EXCEPT ![b] = (value[b] = 1)]
  /\ event_enqueue(<<b, IF value[b] = 1 THEN "down" ELSE "up">>)

\* One poll of button b, in the interrupt of its hardware timer, which may come while
\* the softirq that took the long press timer off its list has not called its function.
gpio_poll(b) ==
  /\ poll_same(b) \/ poll_bounce(b) \/ poll_edge(b)
  /\ late' = (late \/ (soft = <<b, "long">> /\ value'[b] # value[b]))
  /\ UNCHANGED <<sesIrq, sesTimer, soft>>

\* Four seconds after the press the softirq takes the timer off its list ...
long_expires(b) ==
  /\ soft = Idle /\ timer[b]
  /\ timer' = [timer EXCEPT ![b] = FALSE]
  /\ soft' = <<b, "long">>
  /\ UNCHANGED <<trigger, value, since, sesIrq, sesTimer, late>> /\ UNCHANGED eqVars

\* ... and calls trigger_clip_long or trigger_service_long.
trigger_long(b) ==
  /\ soft = <<b, "long">>
  /\ event_enqueue(<<b, "long">>)
  /\ soft' = Idle /\ late' = FALSE
  /\ UNCHANGED <<trigger, value, timer, since, sesIrq, sesTimer>>

-----------------------------------------------------------------------------
\* Faulty variant of switch_ses_handler: the interrupt stays enabled.
SesKeepsIrq ==
  /\ sesIrq
  /\ sesTimer' = TRUE
  /\ event_enqueue(<<"ses", "start">>)
  /\ UNCHANGED <<trigger, value, timer, since, sesIrq, soft, late>>

switch_ses_handler ==
  /\ sesIrq
  /\ sesTimer' = TRUE
  /\ event_enqueue(<<"ses", "start">>)
  /\ sesIrq' = FALSE
  /\ UNCHANGED <<trigger, value, timer, since, soft, late>>

ses_expires ==
  /\ soft = Idle /\ sesTimer
  /\ sesTimer' = FALSE
  /\ soft' = <<"ses", "enable">>
  /\ UNCHANGED <<trigger, value, timer, since, sesIrq, late>> /\ UNCHANGED eqVars

\* Faulty variant of ses_enable: enable_irq is forgotten.
SesStaysOff ==
  /\ soft = <<"ses", "enable">>
  /\ soft' = <<"ses", "enqueue">>
  /\ UNCHANGED <<trigger, value, timer, since, sesIrq, sesTimer, late>> /\ UNCHANGED eqVars

\* switch_ses_timeout up to enable_irq: the button works again ...
ses_enable ==
  /\ soft = <<"ses", "enable">>
  /\ sesIrq' = TRUE
  /\ soft' = <<"ses", "enqueue">>
  /\ UNCHANGED <<trigger, value, timer, since, sesTimer, late>> /\ UNCHANGED eqVars

\* ... before the timeout of its last use is queued.
ses_enqueue ==
  /\ soft = <<"ses", "enqueue">>
  /\ event_enqueue(<<"ses", "timeout">>)
  /\ soft' = Idle
  /\ UNCHANGED <<trigger, value, timer, since, sesIrq, sesTimer, late>>

switch_reset_handler == event_enqueue(ResetDown) /\ UNCHANGED bVars

other_driver == (\E id \in OtherIds : event_enqueue(id)) /\ UNCHANGED bVars

Reader(r) == soft = Idle /\ ReaderStep(r) /\ UNCHANGED bVars

-----------------------------------------------------------------------------
SoftStep ==
  \/ \E b \in Polled : long_expires(b) \/ trigger_long(b)
  \/ ses_expires \/ ses_enable \/ ses_enqueue

Next ==
  \/ \E b \in Polled : gpio_poll(b)
  \/ switch_ses_handler \/ switch_reset_handler \/ other_driver
  \/ SoftStep
  \/ \E r \in Readers : Reader(r)

Spec == Init /\ [][Next]_vars

\* Timers expire and softirqs run to their end; some process opens the device when
\* it can and calls read again and again, and inside the driver nothing but an
\* empty queue holds it up.  Nobody is obliged to press a button.
Fairness ==
  /\ WF_vars(SoftStep)
  /\ SF_vars(ses_expires)
  /\ SF_vars(\E r \in Readers : Reader(r) /\ events_open(r))
  /\ SF_vars(\E r \in Readers : Reader(r) /\ events_read(r))
  /\ SF_vars(\E r \in Readers : Reader(r) /\ read_wait(r))
  /\ SF_vars(\E r \in Readers : Reader(r) /\ read_get(r))

FairSpec == Spec /\ Fairness

-----------------------------------------------------------------------------
\* Type invariant.
TypeOK ==
  /\ EQTypeOK
  /\ trigger \in [Polled -> 0 .. U32 - 1]
  /\ value \in [Polled -> {0, 1}]
  /\ timer \in [Polled -> BOOLEAN]
  /\ since \in [Polled -> 0 .. Apart]
  /\ sesIrq \in BOOLEAN /\ sesTimer \in BOOLEAN
  /\ soft \in Softs /\ late \in BOOLEAN

\* The unsigned trigger counter never wraps below zero: the test "trigger <= 0" of
\* gpio_poll is met exactly at zero, whatever the button bounces.
TriggerInRange == \A b \in Polled : trigger[b] \in 1 .. POLL_TRIGGER

\* The long press timer is pending only while its button is down, so that add_timer is
\* never called on a pending timer, and its function runs only for a button that was down
\* when the timer expired: unless the button changed since then (late), it is still down.
\* A release that comes between the expiry and the function does get its long press,
\* after the "up".
LongOnlyWhileDown ==
  \A b \in Polled : /\ timer[b] => value[b] = 0
                    /\ soft = <<b, "long">> => value[b] = 0 \/ late

\* While the SES interrupt is off, its timer is pending or about to turn it on again,
\* and never otherwise: switch_ses_handler never initializes a timer that is on the
\* kernel's list, and no SES session is left without the end that revives the button.
SesTimerOwned ==
  /\ sesIrq <=> ~sesTimer /\ soft # <<"ses", "enable">>
  /\ ~(sesTimer /\ soft = <<"ses", "enable">>)

\* Two edges of a button are at least four polls apart, however it bounces.
EdgesApart ==
  [][\A b \in Polled : value'[b] # value[b] => since[b] >= Apart]_vars

\* How far trigger can have dropped since the last edge: what makes EdgesApart follow
\* from one state.
TriggerDrop ==
  \A b \in Polled :
    /\ since[b] = 0 => trigger[b] = POLL_TRIGGER
    /\ since[b] = 1 => trigger[b] >= 3
    /\ since[b] = 2 => trigger[b] >= 2

\* The SES button is on again and again: a SES start never leaves it off.
SesComesBack == []<>sesIrq
=============================================================================
