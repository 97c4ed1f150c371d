--------------------------- MODULE WatchdogProofs ---------------------------
(***************************************************************************)
(* For every set of processes, timeouts asked for and value of nowayout:   *)
(* the watchdog never fires early.  FiresOnlyOnSilence alone is not        *)
(* inductive, since it says nothing before the panic; CountsDown ties the  *)
(* seconds left to the seconds elapsed since the counter was started.      *)
(***************************************************************************)
EXTENDS Watchdog, TLAPS

Inv == TypeOK /\ InuseIsOpen /\ CountsDown

\* The invariant holds once the driver is loaded.
LEMMA InitInv == Init => Inv
<1>. SUFFICES ASSUME Init PROVE Inv
  OBVIOUS
<1>1. InuseIsOpen
  BY DEF Init, InuseIsOpen
<1>2. /\ running \in 0..MaxRunning /\ pc \in [Procs -> {"closed", "open", "write"}]
      /\ left \in 0..MAX_TIMEOUT /\ quiet \in 0..MAX_TIMEOUT
      /\ defval \in MIN_TIMEOUT..MAX_TIMEOUT /\ CountsDown
  BY WatchdogAssumption DEF Init, CountsDown, WDT_INTERVAL, MIN_TIMEOUT, MAX_TIMEOUT
<1>3. /\ inuse \in BOOLEAN /\ expect_close \in BOOLEAN
      /\ counting \in BOOLEAN /\ panicked \in BOOLEAN /\ nowayout \in BOOLEAN
  BY Zenon DEF Init
<1>. QED BY <1>1, <1>2, <1>3 DEF Inv, TypeOK

\* A step of the driver leaves the counter alone, stops it, or starts it
\* with a default value within the limits.
LEMMA UserKeepsCounter ==
  ASSUME Inv, ~panicked, NEW p \in Procs, User(p), UNCHANGED panicked
  PROVE  /\ left' \in 0..MAX_TIMEOUT /\ quiet' \in 0..MAX_TIMEOUT
         /\ defval' \in MIN_TIMEOUT..MAX_TIMEOUT /\ counting' \in BOOLEAN
         /\ CountsDown'
<1>. USE DEF Inv, TypeOK, CountsDown, MIN_TIMEOUT, MAX_TIMEOUT, hw
<1>1. CASE UNCHANGED hw
  BY <1>1
<1>2. CASE bcm63xx_wdt_stop
  BY <1>2, Zenon DEF bcm63xx_wdt_stop
<1>3. CASE bcm63xx_wdt_toggle /\ UNCHANGED defval
  BY <1>3 DEF bcm63xx_wdt_toggle
<1>4. ASSUME NEW t \in Timeouts, settimeout(p, t)
      PROVE  /\ left' \in 0..MAX_TIMEOUT /\ quiet' \in 0..MAX_TIMEOUT
             /\ defval' \in MIN_TIMEOUT..MAX_TIMEOUT /\ counting' \in BOOLEAN
             /\ CountsDown'
  BY <1>4, WatchdogAssumption DEF settimeout, bcm63xx_wdt_set, bcm63xx_wdt_toggle
<1>5. \/ UNCHANGED hw \/ bcm63xx_wdt_stop \/ (bcm63xx_wdt_toggle /\ UNCHANGED defval)
      \/ \E t \in Timeouts : settimeout(p, t)
  <2>1. CASE bcm63xx_wdt_open(p) BY <2>1 DEF bcm63xx_wdt_open
  <2>2. CASE bcm63xx_wdt_release(p) BY <2>2, Zenon DEF bcm63xx_wdt_release
  <2>3. ASSUME NEW q \in Procs, fork(p, q) PROVE UNCHANGED hw BY <2>3 DEF fork
  <2>4. CASE write_begin(p) BY <2>4 DEF write_begin
  <2>5. CASE write_magic(p) BY <2>5 DEF write_magic
  <2>6. CASE write_fault(p) BY <2>6 DEF write_fault
  <2>7. CASE write_end(p) BY <2>7 DEF write_end
  <2>8. CASE keepalive(p) BY <2>8 DEF keepalive
  <2>9. CASE enablecard(p) BY <2>9, Zenon DEF enablecard, bcm63xx_wdt_start
  <2>10. CASE disablecard(p) BY <2>10 DEF disablecard
  <2>. QED BY User(p), <2>1, <2>2, <2>3, <2>4, <2>5, <2>6, <2>7, <2>8, <2>9, <2>10, Zenon DEF User
<1>. QED BY <1>1, <1>2, <1>3, <1>4, <1>5

\* A step of the driver keeps inuse true to the processes that have it open.
LEMMA UserKeepsDriver ==
  ASSUME Inv, NEW p \in Procs, User(p)
  PROVE  /\ inuse' \in BOOLEAN /\ expect_close' \in BOOLEAN
         /\ running' \in 0..MaxRunning
         /\ pc' \in [Procs -> {"closed", "open", "write"}]
         /\ InuseIsOpen'
<1>. USE WatchdogAssumption DEF Inv, TypeOK, InuseIsOpen
<1>1. CASE bcm63xx_wdt_open(p) BY <1>1 DEF bcm63xx_wdt_open
<1>2. CASE bcm63xx_wdt_release(p)
  <2>1. CASE Last(p)
    <3>1. inuse' = FALSE /\ expect_close' = expect_close
      BY <1>2, <2>1, Zenon DEF bcm63xx_wdt_release
    <3>2. running' = running \/ running' = 0
      BY <1>2, <2>1, Zenon DEF bcm63xx_wdt_release, bcm63xx_wdt_stop
    <3>3. pc' = [pc EXCEPT ![p] = "closed"]
      BY <1>2 DEF bcm63xx_wdt_release
    <3>4. \A q \in Procs : pc'[q] = "closed"
      BY <2>1, <3>3 DEF Last
    <3>5. InuseIsOpen'
      BY <3>1, <3>4
    <3>6. inuse' \in BOOLEAN
      BY <3>1, Zenon
    <3>. QED BY <3>1, <3>2, <3>3, <3>5, <3>6
  <2>2. CASE ~Last(p)
    BY <1>2, <2>2 DEF bcm63xx_wdt_release, Last
  <2>. QED BY <2>1, <2>2
<1>3. CASE \E q \in Procs : fork(p, q) BY <1>3 DEF fork
<1>4. CASE write_begin(p) BY <1>4, Zenon DEF write_begin
<1>5. CASE write_magic(p) BY <1>5 DEF write_magic
<1>6. CASE write_fault(p) BY <1>6 DEF write_fault
<1>7. CASE write_end(p) BY <1>7 DEF write_end
<1>8. CASE keepalive(p) BY <1>8 DEF keepalive, drv
<1>9. CASE enablecard(p) BY <1>9 DEF enablecard, bcm63xx_wdt_start
<1>10. CASE disablecard(p) BY <1>10 DEF disablecard, bcm63xx_wdt_stop
<1>11. CASE \E t \in Timeouts : settimeout(p, t) BY <1>11 DEF settimeout, drv
<1>. QED BY User(p), <1>1, <1>2, <1>3, <1>4, <1>5, <1>6, <1>7, <1>8, <1>9, <1>10, <1>11 DEF User

\* Every step keeps the driver, the counter and the parameter together.
LEMMA NextInv == Inv /\ [Next]_vars => Inv'
<1>. SUFFICES ASSUME Inv, [Next]_vars PROVE Inv'
  OBVIOUS
<1>0. UNCHANGED nowayout
  BY DEF Next, vars
<1>1. ASSUME ~panicked, NEW p \in Procs, User(p), UNCHANGED panicked PROVE Inv'
  BY <1>0, <1>1, UserKeepsCounter, UserKeepsDriver DEF Inv, TypeOK
<1>2. CASE ~panicked /\ second /\ UNCHANGED panicked
  BY <1>0, <1>2 DEF Inv, TypeOK, InuseIsOpen, CountsDown, second, drv, MIN_TIMEOUT, MAX_TIMEOUT
<1>3. CASE bcm63xx_wdt_interrupt
  BY <1>0, <1>3 DEF Inv, TypeOK, InuseIsOpen, CountsDown, bcm63xx_wdt_interrupt, drv, hw
<1>4. CASE UNCHANGED vars
  BY <1>4 DEF Inv, TypeOK, InuseIsOpen, CountsDown, vars, drv, hw
<1>. QED BY <1>1, <1>2, <1>3, <1>4 DEF Next

\* The inductive invariant holds for every number of processes and every sequence of
\* operations.
THEOREM InvHolds == Spec => []Inv
  BY InitInv, NextInv, PTL DEF Spec

\* The device is in use exactly while some process has it open: a fault inside a
\* write or a shared descriptor never leaks the bit.
THEOREM OpenBitKept == Spec => []InuseIsOpen
<1>1. Inv => InuseIsOpen
  BY DEF Inv
<1>. QED BY <1>1, InvHolds, PTL

\* The counter, the seconds of silence and the timeout stay together, so a restart
\* is never forgotten and a timeout never counts more than it was set to.
THEOREM CounterKept == Spec => []CountsDown
<1>1. Inv => CountsDown
  BY DEF Inv
<1>. QED BY <1>1, InvHolds, PTL

\* The watchdog fires only when the counter was not restarted for at least
\* MIN_TIMEOUT seconds.
THEOREM WatchdogSafe == Spec => []FiresOnlyOnSilence
<1>1. Inv => FiresOnlyOnSilence
  BY DEF Inv, TypeOK, CountsDown, FiresOnlyOnSilence, MIN_TIMEOUT, MAX_TIMEOUT
<1>. QED BY <1>1, InvHolds, PTL

\* With nowayout, only WDIOS_DISABLECARD stops the counter.
LEMMA StopIsDisable ==
  ASSUME Next, nowayout, counting, ~counting'
  PROVE  \E p \in Procs : disablecard(p)
<1>1. ~ second
  BY Zenon DEF second
<1>2. ~ bcm63xx_wdt_interrupt
  BY Zenon DEF bcm63xx_wdt_interrupt, hw
<1>3. PICK p \in Procs : User(p)
  BY <1>1, <1>2, Zenon DEF Next
<1>4. ~ bcm63xx_wdt_open(p) BY Zenon DEF bcm63xx_wdt_open, hw
<1>5. ~ bcm63xx_wdt_release(p) BY Zenon DEF bcm63xx_wdt_release, hw
<1>6. ~ \E q \in Procs : fork(p, q) BY Zenon DEF fork, hw
<1>7. ~ (write_begin(p) \/ write_magic(p) \/ write_fault(p))
  BY Zenon DEF write_begin, write_magic, write_fault, hw
<1>8. ~ (write_end(p) \/ keepalive(p) \/ \E t \in Timeouts : settimeout(p, t))
  BY DEF write_end, keepalive, settimeout, bcm63xx_wdt_toggle
<1>9. ~ enablecard(p)
  BY Zenon DEF enablecard, bcm63xx_wdt_start, bcm63xx_wdt_toggle
<1>. QED BY <1>3, <1>4, <1>5, <1>6, <1>7, <1>8, <1>9 DEF User

\* Closing the device or dying with it open never stops a watchdog loaded
\* with nowayout, for every number of processes.
THEOREM NoWayOutHolds == Spec => OnlyDisableStops
<1>1. [Next]_vars => [(nowayout /\ counting /\ ~counting') => \E p \in Procs : disablecard(p)]_vars
  BY StopIsDisable DEF vars, hw
<1>. QED BY <1>1, PTL DEF Spec, OnlyDisableStops

=============================================================================
