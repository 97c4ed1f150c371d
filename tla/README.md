# Verification of the neufbox firmware (2.1.5)

The repository builds the firmware of the *neufbox 4*, an ADSL router: an OpenWrt
tree with a Linux 2.6.21 kernel, drivers of its own for the Broadcom 63xx board,
and efixo's shell scripts on top. This directory holds TLA+ models of the parts of
it that run concurrently, the TLC configurations that check them on small
instances, and proofs that TLAPS checks for every instance.

## 1. Inventory

| Part | Source | State | Operations | What makes it hard |
|---|---|---|---|---|
| Log rings | `generic-2.6/files-2.6.21/drivers/char/neufbox-ring-buffer.c` | bytes, `in`, `out`, one shared `pos` | open, read, write, llseek, clear through /proc | readers overtaken by writers, unsigned arithmetic, a position shared by all files |
| Event queue | `.../drivers/char/neufbox-eventqueue.c` | kfifo, `inuse`, wait queue | enqueue (interrupts), open, poll, read, release | sleep and wake-up, a full queue, an unchecked `kfifo_get`, a factory reset as side effect of a read |
| Buttons | `brcm63xx/files-2.6.21/arch/mips/bcm63xx/boards/board_neufbox4.c`, `board_neufbox4-gpio_poll.c` | debounce counters, long press timers, SES timer and interrupt | polls, interrupts, timer functions | interrupts inside softirqs, an unsigned counter tested with `<= 0` |
| Watchdog | `brcm63xx/files-2.6.21/drivers/char/watchdog/bcm63xx_wdt.c` | `inuse`, `running`, `expect_close`, hardware counter | open, write, ioctls, release, interrupt | three flags that must agree with the hardware, writes that fault half way |
| Leds | `generic-2.6/files-2.6.21/drivers/leds/leds-neufbox.c`, `generic-2.6/files/drivers/gpio/nxp_74hc164.c` | mode, commands, states, levels, shift register | timer function, mode change, commands | the timer interrupts the mode change anywhere; compare-and-exchange protocols |
| Shell mutex | `efixo-base-files/files/common/usr/lib/functions.sh` | a lock file | `mutex_lock`, `mutex_unlock` | creation and content of the file are two steps; take-over from dead owners |
| 3G dongle | `efixo-base-files/files/backup-3g/etc/hotplug.d/tty/30-tty-3gDongle` | links, device state, backup3g | one add and one remove script per tty | all scripts run at once; work continues after the mutex is released |
| Hardware timers | `arch/mips/bcm63xx/timer.c` | callbacks, enable bits | register, set, enable, dispatch | shared by buttons and watchdog |
| Rescue upgrade | `nb4-rescue/etc/init.d/upgrade`, `nb4-rescue/etc/dhcp/dhcpc.script` | a marker file | two scripts that may both launch the upgrade | a check long before the act |
| 3G backup service | `common/etc/init.d/backup_3g` | VoIP settings and their saved copy | start, stop | a second start saves the settings of the first |
| ADSL transport | `brcm63xx/files-2.6.21/drivers/net/bcmxtmrt.c` | transmit rings and their shares, receive queues, socket buffer headers, poll list | send, reclaim, timer, link and queue requests; interrupt, poll, return of buffers | rings shared by devices and with the DMA engine; softirqs inside a request; an interrupt inside a softirq |
| Ethernet | `brcm63xx/files/drivers/net/bcm63xx_enet.c` | descriptor rings | transmit, receive, timers | rings shared with hardware |
| IGMP snooping | `net/bridge/br_igmp.c` | membership tables | reports, timers | compiled in no configuration |
| Interrupts, flash map | `irq.c`, `neufbox4-flash.c` | masks; partitions | mask, unmask; set-up | below the handlers modelled here; sequential |
| Settings and flash tools | `openwrt/package/{mtd,nvram}` | flash contents | write, commit | power loss |
| efixo libraries, daemons | `efixo/efixo-{libnbd,libnbu,rcc}`, `neufbox/` | - | - | only makefiles and headers are in the repository |
| Build system, third-party packages | `openwrt`, `packages`, `tools`, `config` | - | - | no run-time state of this repository |

The first seven and the ADSL transport are modelled. How they interact: interrupts
and polls put events in the queue, a daemon reads them; drivers and daemons give
commands to the led driver; hotplug scripts meet in the shell mutex; the two
directions of the ADSL driver share the interrupt and the timer but no data, so that
each has a module of its own. The kernel configuration
(`config/nb4/main-kernel.config`) fixes the concurrency: one processor, no
preemption inside the kernel except at sleeping points, so that a hard interrupt
may interrupt everything, a softirq (timer function) may interrupt processes only,
and a system call is atomic towards other processes between two points where it
may sleep. `CONFIG_WATCHDOG_NOWAYOUT=y` is set there.

## 2. How the project is built

Each component has a module. `Buttons` extends `EventQueue` and `Dongle` extends
`ShellMutex`: what one component promises the other is checked in their composition.
`LogTail` is the abstract specification of a ring. `MC*.tla` and `*.cfg` are the
instances for TLC. `*Proofs.tla` and `XtmTxCounts` hold theorems and proofs; the modules
use no RECURSIVE operator, so that all of them can be proved about.

Operators marked "Faulty variant" are not part of any specification: each is a
plausible mistake in the definition it precedes, used to confirm that a property
notices it.

## 3. Modules

**RingBuffer** (abstract: **LogTail**). Each operation holds the semaphore, so it is
one action; `llseek` takes the semaphore twice and is two (`llseek_move`,
`llseek_tell`). The `f_pos` of a file is changed after the semaphore is released,
but only its own process uses it. `in`, `out` and `pos` are 64 bits wide in the
code and exact here; their differences are cast to `size_t` and reduced modulo
`SizeT` here. Bytes beyond the buffer, which an overtaken reader can be given, are
the value `Outside`. Faults of the copies to and from user space are not modelled:
the code ignores them. Nor is the size of the inode, which a write sets (217) and no
operation of the driver reads.

**EventQueue** and **Buttons**. `Buttons` extends the queue, since its handlers call
`event_enqueue`. A read is `events_read`, `read_wait`, `read_get`; a read of an empty
queue would deliver an uninitialized `id`, modelled as any event. Interrupt handlers
are single actions. Timer functions are split at the points where an interrupt
matters (`long_expires`/`trigger_long`, `ses_expires`/`ses_enable`/`ses_enqueue`) and
`soft` says which one is running. `resetSeen`, `since` and `late` are history variables.
Every reader opens the device itself: that "one at a time" has it open is shown of opens.
A process that inherits the open file by `fork` could read beside the one that opened it
(the watchdog model has such processes); the event queue's daemon is not in the
repository, and the model takes it not to share the file.

**Watchdog**. Each operation is one action except a write, which may sleep on every
byte it fetches. `fork` and `second` are external: an inherited file and the
hardware counter. The parameter `nowayout` is a variable that Init chooses and no step
changes. The hardware is taken to raise its interrupt when the loaded
time has elapsed; `quiet` counts the seconds since the last start.

**Leds**. `leds_process_control` is split into the read of a command, its exchange
and the action on it, for each led, since `leds_control` may be called by a driver in
between. `leds_set_mode` is split at every memory access that the timer can see. The
patterns of the other modes are drawn in one action. Levels are modelled as lit or
not; polarity only matters for the levels after `leds_init`. The start takes the shift
register to show 0 at power-on: `leds_init` writes its bits 0 over 0, which does not make
the register dirty, so its flush (`leds-neufbox.c:606`) sends nothing. The number of front leds
is a constant, and the patterns are written for any number; with 6, `K2000` and
`DemoFront` are the tables of the code. The colours are those of the main system.

**ShellMutex** and **Dongle**. One action per command. `cat` of a missing or empty file
expands to nothing; then `test -n` without an argument is true and `kill -0` without
one fails. The second `cat` alone decides, as `test -n` is true in either case.
`ls -l` is taken to print one line per link and no heading, which is what the script's
comparison of its line count with 4 and 0 expects; the BusyBox that prints it is not
in the repository. A script counts as dead when it ends; the
`hotplug` process that runs it ends a little later, which only delays a take-over.
Process numbers are not reused. One dongle is plugged once and unplugged once. The
scripts' other early exits are assumed away: nbd runs (22-24), the dongle is one of the
kinds the script knows (66-69), and each of its ttys has an interface number of that kind,
so that none is linked as `ttyDOE` (73-85).

**XtmTx**, the transmit side of `bcmxtmrt.c`. A ring is a record with the indices of
the driver (`head`, `curr`), of the DMA engine (`tail`), its count and its slots; a slot
is empty, holds a packet, or holds a packet that was freed and not yet cleared. Sending
(`bcmxtmrt_xmit`) and the timer run with softirqs off and are single actions. Link down
and the sending of a cell reclaim in process context; that loop lets softirqs in while
it frees a packet (lines 734-736), so it is split into `loop_free` and `loop_null`, and
`Loop` is what happens between. Link up, link down and the queue requests are split
where a softirq sees an intermediate state. Refused allocations are actions. The
histories `overlap`, `misfreed`, `skewed` and `failed` record the circumstances the
properties make exceptions for; `oops` is a pointer into a freed ring followed, or a
division by zero. With `Follow = FALSE` behaviours end once two contexts have reclaimed
one ring at once. The configuration driver is external: it is taken to give valid
ports and priorities and distinct queues to one device, to bring a link up only when
the device lists no queue, to set queues only on a link that is up, and to make one
request at a time. `netif_stop_queue` is left out, since the PPPoA sender calls
`bcmxtmrt_xmit` without looking at it. Room for a header is always found.

**XtmRx**, its receive side. Descriptors of one kind are told apart by nothing but the
queue they are in, so a queue is a count; `rxTail` is kept because the timer looks at it.
The interrupt handler is one action (`bcmxtmrt_isr`, or `isr_drain` if no device is
open). A poll is `poll_start`, one action per packet or cell, `poll_complete` and
`poll_ack`. The return of a packet by a process is split at the read of `ulQHead`, which
`QueueAdd` makes before it disables interrupts. `netif_rx_schedule`, `dev_open` and
`dev_close` are external: a device that is being closed is not scheduled, and is closed
in the driver when no poll of it is due. The interrupt may come whenever it is enabled,
since several causes share it; the status bits that a poll reads at its start (1117) and
clears at its end (1153) are not modelled, only the mask. Init has the additional header
or not (`spare`): the failure of its allocation goes unnoticed (1762-1767). A packet
without an owner or in a chain is discarded with all its descriptors; chains have two at
most. What follows the last descriptor in the hardware's link may be NULL, and then a
discard at the limit ends the poll (1201, 1333). A packet that a softirq frees is one step
(`free_soft`): what an interrupt inside it could do, it can do inside the steps of a
process.

## 4. Runs

Runs that pass:

| Run | Configuration | Properties | Distinct states |
|---|---|---|---|
| `ring` | 2-byte ring, 2 files, all operations | `StoredFits` `ReadsTheTail` `KeepsTheTail` | 181 340 |
| `ring_follow` | 4-byte ring, 2 files, no seeks | `ReadsTheTail` `FollowerCatchesUp` | 29 552 |
| `buttons` | 1 polled button, 2 readers, queue of 2 | `TypeOK` `TriggerInRange` `LongOnlyWhileDown` `SesTimerOwned` `ReaderFindsEvent` `NoSpontaneousReset` `EdgesApart` `ResetHappens` `SesComesBack` | 246 384 |
| `watchdog` | 2 processes, nowayout on or off | `InuseIsOpen` `FiresOnlyOnSilence` `OnlyDisableStops` `GuardsTheBox` | 6 144 |
| `leds` | 3 front leds, all modes, no commands | `TypeOK` `RegisterShown` `DisabledStaysDark` `OneFrontLit` | 3 195 040 |
| `leds_command` | 2 front leds, commands, control mode | `BlinkInSync` `LastCommandShown` | 65 954 |
| `dongle` | 2 ttys, plugged, unplugged at rest | `PluggedComesUp` `UnpluggedGoesDown` `ProtectedZone` `EveryScriptEnds` | 2 127 |
| `xtm_tx` | 2 devices, 2 rings of 3 slots, one of them shared | `TypeOK` `RingSound` `FreedOnce` `UseExact` `TotalExact` `FairShare` `OopsExplained` `TransmittedIsFreed` | 214 521 |
| `xtm_rx` | 1 device, 2 packet descriptors, 1 cell descriptor, polls of up to 2 | `BdsKept` `HeaderAvailable` `Armed` `CloseEnds` | 278 635 |

Runs that end in a counterexample, each against a line of the repository:

* `ring_unread`: `__ring_buffer_get` says "max len: current unread size". In a 2-byte
  ring, a reader at `pos` 0 after writes of 1 and 2 bytes (`out` 1, `in` 3) is given 3
  bytes although 2 are stored: `pos - out` is negative and the subtraction adds.
* `leds_restore`: a command is given while the leds are disabled. `leds_set_mode`
  loads the old state, a tick obeys the command, and the exchange, finding no command,
  puts the old state back.
* `dongle_race`: the last add script has counted all links and left the mutex; the
  dongle is unplugged and the remove scripts see the device unavailable; then the add
  script makes it available, for good. It needs a script to be suspended between two
  particular commands; the model says that it can happen, not how often.

**Exceptions that properties name.** Some properties hold but for a circumstance that
the code really allows. Each names its exception, so that it says exactly when the code
goes wrong:

* `ProtectedZone`: a script that finds the lock file created and not yet written takes
  its owner for dead and deletes it; only then (`stolen`) are two scripts in the
  "PROTECTED ZONE".
* `RingSound`, `FreedOnce`: a softirq that reclaims a ring inside the window of a
  request's reclaim loop (`bcmxtmrt.c:734-736`, `overlap`) leads to a packet freed twice
  or before it is sent.
* `OopsExplained`: a softirq runs while link down (2216-2230) or a failed link up
  (2175-2188) has freed rings that the device still lists; or a queue is listed before
  the rings are counted, and the reserve is divided by 0 (699); or an allocation
  failed, which leaves the use count incremented (2291), so that a second request
  succeeds without memory.
* `TotalExact`: link down of one device resets the total of all (2235), and a ring that
  is freed with packets on it leaves them in the total. The packets themselves are not
  freed either.
* `FairShare`: between the listing of a second queue and the count of the rings a ring
  may still take 90 % of the buffers.
* `LongOnlyWhileDown`: a button released after its long press timer expired and before
  the function of the timer ran (`late`) gets a long press after its "up".
* `BdsKept`: an AAL5 error at the limit of a poll (1263) and a chain drained by the
  interrupt handler (1093-1097) lose descriptors (`leaked`); `QueueAdd` reads the head
  before it disables interrupts (972), and a handler that fills the queue meanwhile,
  inside the return of a packet by a process or a softirq, makes it stale (`clash`).
* `HeaderAvailable`: "Allocate one additional socket buffer so the socket buffer chain
  is never empty" (1759) holds while at most that one header is away without its data
  (`Away`): kept by a stack that has replaced the data of a packet, or between the two
  calls that return a packet. If the allocation failed none may be away, and a poll
  between those two calls finds the list empty (1219-1221).
* `Armed`: the handler schedules the first open device only (1070-1078). While that one
  is being closed the schedule is refused and the interrupt stays masked (`missed`),
  even if another device is up.
* `CloseEnds`: unless packets or cells arrive for ever. A packet that `blog_init`
  consumes skips the test of the budget (1296), which then wraps.

A property with an exception does not catch the hazard that the exception names; it shows
that nothing else has that effect. The notes of the hazards in `PROJECT.json` say which
part of each is caught. Not caught at all are the silent loss of an event by a full
queue, what a reader beyond the log is given after a clear through /proc, and arrivals
whose status bit a poll clears without having seen them.

Two more disagreements showed while the watchdog was modelled; no run is kept for
them. `WDIOS_DISABLECARD` stops the counter with nowayout set, whose description is
"Watchdog cannot be stopped once started" (`OnlyDisableStops` states what does
hold). And without nowayout, `WDIOS_DISABLECARD` makes `running` 0, a write of `V`
restarts the counter, and the close logs "disabling watchdog timer" while
`bcm63xx_wdt_stop` does nothing.

**Bounds.** `MaxIn` and `MaxPos` let a ring be filled twice, so that `in` and `pos`
wrap and a reader is overtaken by more than the ring. `SizeT` and `U32` are small
powers of two above every legal value, so that a value that wraps is seen (5 in
`xtm_tx`, where no power is needed).
`Cap` makes the queue overflow. `MaxRunning` 2 tells no start, one and more apart.
`MCTimeouts` has both sides of both limits. `Period` is a multiple of every period
that the commands and modes of a run use, so that the counter modulo `Period` loses
nothing; slow blinking (`slowblinks`) is modelled but commanded in no run. The `leds`
run leaves commands out and `leds_command` leaves mode changes out to stay small;
`leds_restore` has both, for one led and two modes. The `dongle` runs have 2 ttys where
the script expects 4: three, with unplugging and liveness, do not finish in minutes.
In `xtm_tx`, three slots make a ring full, wrap and share, and `MaxUse` 2 is the number
of devices. In `xtm_rx` two descriptors make a chain and a free queue that is full or
empty. Larger instances were checked by hand with the same result: `xtm_tx` with
`Follow = TRUE` for safety (3 616 272 states); `xtm_rx` with 2 devices for safety
(2 661 775), 2 devices and `Weight` 1 (924 047), and 3 descriptors (1 393 500), the last
two with liveness.

**Deadlock** is not checked where the system ends: after the watchdog's panic, when all
scripts are done, and where a behaviour of the ADSL driver is not followed further.

**Fairness.** *Ring*: a follower opens the log and calls read again and again; writers
owe nothing. The catch-up is shown for writers that pause, which `MaxIn` makes them
do. *Buttons*: softirqs run to their end and timers expire; the daemon opens, reads
and is scheduled again and again (strong fairness, as interrupts may disable its
steps for a while); nobody has to press a button. *Watchdog*: only the hardware is
fair. *Leds*: the timer rearms itself; a process in `leds_set_mode` gets the
processor between ticks (strong, since each tick suspends it). *Dongle*: every
script that can take a step is scheduled. *XtmTx*: the timer rearms itself and a
request runs to its end; the DMA engine and the senders owe nothing. *XtmRx*: a poll
runs to its end, a process leaves `QueueAdd`, a device on the poll list gets its turn
and `dev_close` looks again and again (strong where interrupts and softirqs hold a
step up); nothing has to arrive.

## 5. Proofs

Every theorem is of `Spec`, for every value of the constants that the named assumption
of its module allows; TLC evaluates those assumptions in the runs. In each module
`InvHolds` (`WindowFits` for the ring) proves the inductive invariant.

* **RingBufferProofs.** `TypeOK` and `StoredFits` are inductive together (`WindowFits`).
  The key facts are that the cast of a difference that fits is exact (`RingLenExact`)
  and that the copy of a write yields a ring (`PutType`). `TailIsRead`: a read in the
  window returns the stored bytes. `RingIsLog`: the ring implements `LogTail`, the whole
  refinement. Both rest on arithmetic modulo the ring's size: two positions of the
  window are in different slots, and those of the bytes a write puts are the ones after
  the window (`SlotAfter`, `GetSlots`, `PutSlots`).
* **ButtonsProofs.** The safety invariants of buttons and queue. Two strengthenings are
  needed: `QueuedResetSeen` (a reset still in the queue was queued), without which
  `NoSpontaneousReset` is not inductive, and `TriggerDrop` (how far the counter fell
  since the last edge), from which `EdgesFarApart` follows. `LongPressOwned` says of the
  long press timer what its property says: never pending for a button that is up, its
  function called only for a button that was down at the expiry. `ButtonsTyped` and
  `OneReader` (the queue is open once) are proved beside them.
* **WatchdogProofs.** `WatchdogSafe`, `OpenBitKept`: the strengthening `CountsDown` says
  that time left and time elapsed add up to a timeout that the driver accepts.
  `NoWayOutHolds`: the action property `OnlyDisableStops`, by cases on the operations.
* **LedsProofs.** `NoFlushLost`, `DarkWhenDisabled`, `BlinkTogether`, `RunningLight`. The
  properties speak of moments when a function has returned; the invariant says what
  holds inside: `FlushDue` names who owes the flush of each led, `DarkSoFar` which leds
  `leds_set_mode` has switched off, `BlinkSoFar` what a tick has drawn, and
  `ModesAgree` which function of the timer can run meanwhile.
* **DongleProofs.** For any number of ttys. `ZoneProtected`: that the script in the zone
  created the lock file (`HolderCreated`) is inductive with `JudgedDead` (who is about to
  delete the file found nobody in it, or a process that has ended), `NamesStarted` and
  `StartedOnce` (such a process never runs again). `ComesUp` and, for a dongle unplugged
  at rest (the constant `Settled`), `GoesDown`: the invariant `UpDown` does not rest on
  mutual exclusion, since the lock may be stolen. It says what each script has done at its
  place and, by `SomeFull`, that once all add scripts have counted the links one of them
  has counted them all: while the dongle is in links are only made, so whoever counts last
  finds every one.
* **XtmRxProofs.** `DescriptorsKept`, `HeaderNeverMissing`, `NeverDeaf`. `Buffers` counts
  descriptors and headers in every place they can be, for as long as no interrupt filled
  the free queue inside a `QueueAdd`; the free headers then exceed the packets in the
  receive queue by the additional one less those that are away. `Control` says that the
  device being polled is on the poll list.
* **XtmTxProofs.** `RingsSound`, `NoDoubleFree`. The invariant is that rings outside
  `overlap` are sound but for the slot a request has freed, that the packet of that slot
  was transmitted (`InWindow`), and `FreedOnce`. Most of the proof is that reclaiming
  the least distance to a slot that stops the loop keeps a ring sound.
* **XtmTxCounts.** The counters of the same driver: `UsesExact`, `TotalsExact`,
  `SharesFair`, `CrashesExplained`, `XtmTxTyped`. The properties speak of rings with memory
  and of rings that no two contexts reclaimed; neither restriction is inductive. The
  invariant `Counts` therefore says of a ring without memory that it is counted more
  often than it is used (the refused allocation is never given back), and of the total that
  it is the sum of the rings' counts *up to the range of the counter*, which also holds of
  rings whose counts have wrapped; `TotalsExact` follows because sound rings together
  hold fewer packets than the range. `RingsCounted` (the number of rings is never too small
  outside of `DoSetTxQueue`) gives `SharesFair`, and with `NeverRefused` (without a refused
  allocation every used ring has memory) `CrashesExplained`. Every step is traffic, for
  which the two action properties are shown, or `Quiet`. That every step keeps `Counts`
  (`NextCounts`) is the second half of `XtmTxProofs`. It takes what it uses of sums over
  the rings and of numbers of users as one hypothesis, `Facts`; `XtmTxCounts` proves that
  hypothesis from the theorems on finite sets (`FactsHold`), so that the library is not in
  scope of the long case analysis, and draws the conclusions. The facts about sums
  are proved without an induction rule with a predicate as parameter: a set of
  counterexamples has a smallest member (`Smallest`).

Assumptions worth naming: in `XtmTx`, the devices and queues are finite sets, there is a
device, the queues of one device are distinct and the range of an unsigned counter is above
the number of queues times the external buffers less one (`MAX_TRANSMIT_QUEUES` rings and
`ulNumExtBufs` buffers against 2^32 in the driver).

Only model-checked: the liveness properties (`FollowerCatchesUp`, `ResetHappens`,
`SesComesBack`, `GuardsTheBox`, `LastCommandShown`, `EveryScriptEnds`,
`TransmittedIsFreed`, `CloseEnds`), since liveness under fairness is out of the prover's
reach. Every invariant and every action property that a passing run checks is proved.

## 6. Not modelled

Of the modelled parts:

* leds: `leds_panic_blink`, which the kernel calls once it has given up, `leds_exit`, the
  colours of the rescue system, the probe of the register;
* ioctls and proc files that only read, and the removal of drivers that are built in;
* `board_neufbox4.c`: serialisation, MAC address, proc files, femtocell pins;
* `bcmxtmrt.c`: creation and deletion of devices, the PPPoA and AAL5 ioctls, cell
  reassembly (another chip), RFC 2684 headers, mirroring, statistics. One observation
  from reading: `AddRfc2684Hdr` may leave no packet (930, 948) and 846 uses it;
* `30-tty-3gDongle`: a second plug. The directory is deleted outside of the mutex (155),
  which a dongle plugged at once could meet;
* `bcm63xx_wdt.c`: what a `V` written in one session means to the next is in the model,
  but no text of the repository says what it should mean.

Of the other parts:

* `bcm63xx_enet.c` is built only into the plain OpenWrt kernel
  (`config/nb4/openwrt-kernel.config`). The main and rescue kernels use Broadcom's
  `bcm_enet`, whose source is not in the repository. Its rings pose the questions
  that `XtmTx` and `XtmRx` answer.
* `br_igmp.c` is compiled with an option that no configuration sets.
* `timer.c` and `irq.c` are register accesses below the handlers modelled here; what they
  offer is state of `Watchdog`, `Buttons` and `XtmRx`.
* The rescue scripts share a marker file that each tests or writes once. If the DHCP
  answer comes after the two minutes of `upgrade:5`, both launch the upgrade; two
  commands make this plain without a model.
* `backup_3g` is sequential around a closed tool, as are the other init scripts. The
  flash and settings tools run alone.
* The daemons and libraries of efixo are not in the repository, and build recipes have
  no state to model.
