------------------------------ MODULE Watchdog ------------------------------
(***************************************************************************)
(* The watchdog driver of the BCM63xx (bcm63xx_wdt.c) with the hardware    *)
(* counter it drives.  The driver is built in, so that its probe is over   *)
(* before the first process runs and Init is the state it leaves.  The     *)
(* kernel preempts no system call between two sleeping points: an          *)
(* operation is one step, except a write, which may sleep on each byte it  *)
(* fetches from the caller.  Processes may share the one open file.        *)
(***************************************************************************)
EXTENDS Integers

CONSTANTS
  Procs,       \* processes that use /dev/watchdog
  Timeouts,    \* the arguments processes give to WDIOC_SETTIMEOUT
  MaxRunning   \* bound on the count of starts

WDT_INTERVAL == 40
MIN_TIMEOUT == 5
MAX_TIMEOUT == 40

ASSUME WatchdogAssumption ==
  /\ Timeouts \subseteq Int
  /\ MaxRunning \in Nat \ {0}

VARIABLES
  inuse,         \* bit 0 of inuse: the device is open
  running,       \* the driver's count of starts
  expect_close,  \* a 'V' was written
  pc,            \* each process: has the file closed, open, or is in a write
  counting,      \* hardware: the counter runs
  left,          \* hardware: seconds before it expires
  defval,        \* hardware: seconds it is loaded with when started
  nowayout,      \* the module parameter; nothing changes it after the load
  panicked,      \* the watchdog interrupt called panic
  quiet          \* history: seconds since the counter was last started

drv == <<inuse, running, expect_close, pc>>
hw == <<counting, left, defval, quiet>>
vars == <<drv, hw, nowayout, panicked>>

\* bcm63xx_wdt_probe: nothing is open when it sets the interval and starts.
Init ==
  /\ inuse = FALSE /\ running = 1 /\ expect_close = FALSE
  /\ pc = [p \in Procs |-> "closed"]
  /\ counting = TRUE /\ left = WDT_INTERVAL /\ defval = WDT_INTERVAL
  /\ panicked = FALSE /\ quiet = 0
  /\ nowayout \in BOOLEAN

-----------------------------------------------------------------------------
\* The counter starts, or starts again, from its default value.
bcm63xx_wdt_toggle == counting' = TRUE /\ left' = defval' /\ quiet' = 0

bcm63xx_wdt_set(new_timeout) == defval' = new_timeout

\* The counter is started only when the device is closed.
bcm63xx_wdt_start ==
  /\ running < MaxRunning
  /\ running' = running + 1
  /\ UNCHANGED defval
  /\ IF inuse THEN UNCHANGED <<counting, left, quiet>> ELSE bcm63xx_wdt_toggle

bcm63xx_wdt_stop ==
  /\ running' = 0
  /\ counting' = IF running > 0 THEN FALSE ELSE counting
  /\ UNCHANGED <<left, defval, quiet>>

\* Opening a device in use fails with -EBUSY.
bcm63xx_wdt_open(p) ==
  /\ pc[p] = "closed" /\ ~inuse
  /\ inuse' = TRUE
  /\ pc' = [pc EXCEPT ![p] = "open"]
  /\ UNCHANGED <<running, expect_close>> /\ UNCHANGED hw

\* A process inherits the open file of another.
fork(p, q) ==
  /\ pc[p] = "open" /\ pc[q] = "closed"
  /\ pc' = [pc EXCEPT ![q] = "open"]
  /\ UNCHANGED <<inuse, running, expect_close>> /\ UNCHANGED hw

Last(p) == \A q \in Procs \ {p} : pc[q] = "closed"

\* Faulty variant of bcm63xx_wdt_release: a stop leaves the device in use.
ReleaseLeaks(p) ==
  /\ pc[p] = "open"
  /\ pc' = [pc EXCEPT ![p] = "closed"]
  /\ UNCHANGED expect_close
  /\ IF ~Last(p) THEN UNCHANGED <<inuse, running>> /\ UNCHANGED hw
     ELSE IF expect_close /\ ~nowayout
       THEN bcm63xx_wdt_stop /\ UNCHANGED inuse
       ELSE inuse' = FALSE /\ UNCHANGED running /\ UNCHANGED hw

\* Faulty variant of bcm63xx_wdt_release: expect_close is not tested.
ReleaseStops(p) ==
  /\ pc[p] = "open"
  /\ pc' = [pc EXCEPT ![p] = "closed"]
  /\ UNCHANGED expect_close
  /\ IF ~Last(p) THEN UNCHANGED <<inuse, running>> /\ UNCHANGED hw
     ELSE inuse' = FALSE /\ bcm63xx_wdt_stop

\* close(2), or the death of the process: the last one releases the device.
bcm63xx_wdt_release(p) ==
  /\ pc[p] = "open"
  /\ pc' = [pc EXCEPT ![p] = "closed"]
  /\ UNCHANGED expect_close
  /\ IF ~Last(p) THEN UNCHANGED <<inuse, running>> /\ UNCHANGED hw
     ELSE /\ inuse' = FALSE
          /\ IF expect_close /\ ~nowayout THEN bcm63xx_wdt_stop
             ELSE UNCHANGED running /\ UNCHANGED hw

\* A write of at least one byte first forgets the 'V' of an earlier write, then
\* fetches its bytes one by one.
write_begin(p) ==
  /\ pc[p] = "open" /\ ~nowayout
  /\ pc' = [pc EXCEPT ![p] = "write"]
  /\ expect_close' = FALSE
  /\ UNCHANGED <<inuse, running>> /\ UNCHANGED hw

write_magic(p) ==
  /\ pc[p] = "write"
  /\ expect_close' = TRUE
  /\ UNCHANGED <<inuse, running, pc>> /\ UNCHANGED hw

\* A byte that cannot be fetched: -EFAULT, and the counter is not restarted.
write_fault(p) ==
  /\ pc[p] = "write"
  /\ pc' = [pc EXCEPT ![p] = "open"]
  /\ UNCHANGED <<inuse, running, expect_close>> /\ UNCHANGED hw

\* With nowayout the bytes are not looked at.
write_end(p) ==
  /\ pc[p] = IF nowayout THEN "open" ELSE "write"
  /\ pc' = [pc EXCEPT ![p] = "open"]
  /\ UNCHANGED <<inuse, running, expect_close, defval>>
  /\ bcm63xx_wdt_toggle

keepalive(p) ==
  /\ pc[p] = "open"
  /\ UNCHANGED drv /\ UNCHANGED defval
  /\ bcm63xx_wdt_toggle

\* WDIOC_SETOPTIONS.
enablecard(p) ==
  /\ pc[p] = "open"
  /\ bcm63xx_wdt_start
  /\ UNCHANGED <<inuse, expect_close, pc>>

disablecard(p) ==
  /\ pc[p] = "open"
  /\ bcm63xx_wdt_stop
  /\ UNCHANGED <<inuse, expect_close, pc>>

\* Faulty variant of settimeout: the lower limit is not tested.
SetAnyTimeout(p, t) ==
  /\ pc[p] = "open"
  /\ 0 < t /\ t <= MAX_TIMEOUT
  /\ bcm63xx_wdt_set(t)
  /\ bcm63xx_wdt_toggle
  /\ UNCHANGED drv

\* WDIOC_SETTIMEOUT: -EINVAL outside the limits; the new value is loaded.
settimeout(p, t) ==
  /\ pc[p] = "open"
  /\ MIN_TIMEOUT <= t /\ t <= MAX_TIMEOUT
  /\ bcm63xx_wdt_set(t)
  /\ bcm63xx_wdt_toggle
  /\ UNCHANGED drv

\* One second of the hardware counter.
second ==
  /\ counting /\ left > 0
  /\ left' = left - 1
  /\ quiet' = quiet + 1
  /\ UNCHANGED <<counting, defval>> /\ UNCHANGED drv

\* Faulty variant of bcm63xx_wdt_interrupt: it shows the registers and returns.
InterruptReturns ==
  /\ counting /\ left = 0
  /\ UNCHANGED <<drv, hw, panicked>>

bcm63xx_wdt_interrupt ==
  /\ counting /\ left = 0
  /\ panicked' = TRUE
  /\ UNCHANGED drv /\ UNCHANGED hw

User(p) ==
  \/ bcm63xx_wdt_open(p) \/ bcm63xx_wdt_release(p)
  \/ \E q \in Procs : fork(p, q)
  \/ write_begin(p) \/ write_magic(p) \/ write_fault(p) \/ write_end(p)
  \/ keepalive(p) \/ enablecard(p) \/ disablecard(p)
  \/ \E t \in Timeouts : settimeout(p, t)

\* Nothing runs after the panic.
Next ==
  /\ ~panicked /\ UNCHANGED nowayout
  /\ \/ (\E p \in Procs : User(p)) /\ UNCHANGED panicked
     \/ second /\ UNCHANGED panicked
     \/ bcm63xx_wdt_interrupt

Spec == Init /\ [][Next]_vars

\* The counter and its interrupt are hardware: neither waits for software.
FairSpec ==
  Spec /\ WF_vars(~panicked /\ second /\ UNCHANGED <<nowayout, panicked>>)
       /\ WF_vars(~panicked /\ bcm63xx_wdt_interrupt /\ UNCHANGED nowayout)

-----------------------------------------------------------------------------
\* Type invariant; the counter is only ever loaded with a timeout between the
\* limits of WDIOC_SETTIMEOUT.
TypeOK ==
  /\ inuse \in BOOLEAN /\ expect_close \in BOOLEAN
  /\ counting \in BOOLEAN /\ panicked \in BOOLEAN /\ nowayout \in BOOLEAN
  /\ running \in 0..MaxRunning
  /\ pc \in [Procs -> {"closed", "open", "write"}]
  /\ left \in 0..MAX_TIMEOUT /\ quiet \in 0..MAX_TIMEOUT
  /\ defval \in MIN_TIMEOUT..MAX_TIMEOUT

\* inuse is set exactly while some process has the device open: opens that
\* find it set fail, so a leak of the bit would lock every process out.
InuseIsOpen == inuse <=> \E p \in Procs : pc[p] # "closed"

\* The box panics only after MIN_TIMEOUT seconds without a restart of the
\* counter, whatever timeouts were set meanwhile.
FiresOnlyOnSilence == panicked => quiet >= MIN_TIMEOUT

\* What the counter has left and what has elapsed make a timeout that the
\* driver accepted: the strengthening that makes FiresOnlyOnSilence inductive.
CountsDown ==
  /\ left + quiet \in MIN_TIMEOUT..MAX_TIMEOUT
  /\ panicked => left = 0

\* With nowayout only WDIOS_DISABLECARD stops the counter: closing the device,
\* or dying with it open, never does.
OnlyDisableStops ==
  [][(nowayout /\ counting /\ ~counting') => \E p \in Procs : disablecard(p)]_vars

\* Either the watchdog fires, or the counter is restarted again and again, or
\* it is stopped: a box whose software hangs is reset.
GuardsTheBox == <>panicked \/ []<>(quiet = 0 \/ ~counting)

=============================================================================
