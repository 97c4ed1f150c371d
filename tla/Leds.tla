-------------------------------- MODULE Leds --------------------------------
(***************************************************************************)
(* The led driver (leds-neufbox.c) over the shift register that drives     *)
(* some of the leds (nxp_74hc164.c).  A timer function redraws the leds    *)
(* every eighth of a second, in softirq; the ioctl that changes the mode   *)
(* runs in a process, which the timer may interrupt between any two of     *)
(* its memory accesses; leds_control is exported to the drivers and may    *)
(* be called between any two steps of the others.  A led of the shift      *)
(* register is seen lit only after a flush.                                *)
(***************************************************************************)
EXTENDS Integers

CONSTANTS
  NFront,     \* front leds, wan to alarm: 1..NFront
  Shifted,    \* the leds wired to the shift register
  ActiveLow,  \* the leds lit by a low level
  Commanded,  \* the leds that the rest of the system commands
  Commands,   \* the commands it gives
  Modes,      \* the modes that processes ask for
  Period      \* the timer counter is kept modulo Period

red == NFront + 1
green == NFront + 2
blue == NFront + 3
Ids == 1..blue
Front == 1..NFront

LedMode == {"disable", "control", "downloading", "burning", "panic", "demo"}
LedState == {"unchanged", "on", "off", "toggle", "blinkonce", "slowblinks", "blinks"}

\* Period is a multiple of every period that the commands and the modes use.
ASSUME LedsAssumption ==
  /\ NFront \in Nat \ {0, 1}
  /\ Shifted \subseteq Front /\ ActiveLow \subseteq Ids /\ Commanded \subseteq Ids
  /\ Commands \subseteq LedState /\ Modes \subseteq LedMode
  /\ Period \in Nat \ {0}
  /\ "slowblinks" \in Commands => Period % 8 = 0
  /\ ~(Modes \subseteq {"disable", "control"}) =>
       Period % (2 * NFront - 2) = 0 /\ Period % (3 * NFront) = 0

VARIABLES
  mode,     \* dev->mode
  fn,       \* dev->fn_leds_mode_process, named by its mode
  command,  \* dev->command
  state,    \* dev->state
  counter,  \* dev->counter
  lit,      \* the level last given to each led: TRUE is lit
  shown,    \* what each led shows
  dirty,    \* nxp->dirty
  tick,     \* the timer function in progress
  set,      \* the leds_set_mode in progress
  want      \* history: the last command given to each led

pins == <<lit, shown, dirty>>
vars == <<mode, fn, command, state, counter, pins, tick, set, want>>

NoTick == [pc |-> "idle", id |-> 1, st |-> "unchanged", sync |-> "none", blinked |-> {}]
NoSet == [pc |-> "idle", id |-> 1, mode |-> "disable", st |-> "unchanged"]

\* What leds_init leaves: the pins at level 0, the service led yellow.  Bits that are
\* already 0 do not make the shift register dirty, so the flush at the end of leds_init
\* writes nothing: that the register shows 0 is an assumption about power-on.
Init ==
  /\ mode = "control" /\ fn = "control"
  /\ command = [i \in Ids |-> IF i \in {red, green} THEN "on" ELSE "off"]
  /\ state = [i \in Ids |-> "off"]
  /\ counter = 0
  /\ lit = [i \in Ids |-> IF i \in Front THEN i \in ActiveLow ELSE i # blue]
  /\ shown = lit /\ dirty = FALSE
  /\ tick = NoTick /\ set = NoSet
  /\ want = command

-----------------------------------------------------------------------------
(* gpio_set_value: a processor pin follows at once, the shift register     *)
(* becomes dirty when a bit of it changes.                                 *)

\* The pins when f gives the new levels.
SetPins(f) ==
  /\ lit' = f
  /\ shown' = [i \in Ids |-> IF i \in Shifted THEN shown[i] ELSE f[i]]
  /\ dirty' = (dirty \/ \E i \in Shifted : f[i] # lit[i])

Level(i, v) == SetPins([lit EXCEPT ![i] = v])

\* leds_control, from an ioctl or a driver.
leds_control(i, s) ==
  /\ command' = [command EXCEPT ![i] = s]
  /\ want' = [want EXCEPT ![i] = s]
  /\ UNCHANGED <<mode, fn, state, counter, pins, tick, set>>

-----------------------------------------------------------------------------
(* leds_process_control: one led after the other.                          *)

control_read ==
  /\ tick.pc = "read"
  /\ tick' = [tick EXCEPT !.st = command[tick.id], !.pc = "xchg"]
  /\ UNCHANGED <<mode, fn, command, state, counter, pins, set, want>>

\* The command is taken unless it changed since it was read.
control_xchg ==
  /\ tick.pc = "xchg"
  /\ command' = [command EXCEPT ![tick.id] = IF @ = tick.st THEN "unchanged" ELSE @]
  /\ tick' = [tick EXCEPT !.pc = "act"]
  /\ UNCHANGED <<mode, fn, state, counter, pins, set, want>>

\* The command left for the next tick, unless another came meanwhile.
Rearm(st) ==
  CASE st = "blinkonce" -> "toggle"
    [] st \in {"slowblinks", "blinks"} -> st
    [] OTHER -> "unchanged"

\* Faulty variant of Blink: led_toggle answers whether the led is now lit.
BlinkOpposite(i) ==
  IF tick.sync = "none" THEN ~lit[i] ELSE tick.sync = "off"

\* The first blinking led of a tick toggles, the others follow it.
Blink(i) == IF tick.sync = "none" THEN ~lit[i] ELSE tick.sync = "on"

NewLevel(i, st) ==
  CASE st = "on" -> TRUE
    [] st = "off" -> FALSE
    [] st \in {"toggle", "blinkonce"} -> ~lit[i]
    [] st = "slowblinks" -> IF counter % 8 = 0 THEN ~lit[i] ELSE lit[i]
    [] st = "blinks" -> Blink(i)
    [] st = "unchanged" -> lit[i]

\* Faulty variant of control_act: a led without a command is recorded too.
ActRecordsAll ==
  LET i == tick.id  st == tick.st IN
  /\ tick.pc = "act"
  /\ Level(i, NewLevel(i, st))
  /\ command' = [command EXCEPT ![i] = IF @ = "unchanged" THEN Rearm(st) ELSE @]
  /\ state' = [state EXCEPT ![i] = st]
  /\ tick' = [tick EXCEPT
       !.pc = IF i = blue THEN "end" ELSE "read",
       !.id = IF i = blue THEN i ELSE i + 1]
  /\ UNCHANGED <<mode, fn, counter, set, want>>

\* Faulty variant of control_act: a blinking led is rearmed over a newer command.
ActOverwrites ==
  LET i == tick.id  st == tick.st IN
  /\ tick.pc = "act"
  /\ Level(i, NewLevel(i, st))
  /\ command' = [command EXCEPT ![i] = IF Rearm(st) = "unchanged" THEN @ ELSE Rearm(st)]
  /\ state' = [state EXCEPT ![i] = IF st = "unchanged" THEN @ ELSE st]
  /\ tick' = [tick EXCEPT
       !.pc = IF i = blue THEN "end" ELSE "read",
       !.id = IF i = blue THEN i ELSE i + 1,
       !.sync = IF st = "blinks" THEN (IF Blink(i) THEN "on" ELSE "off") ELSE @,
       !.blinked = IF st = "blinks" THEN @ \cup {i} ELSE @]
  /\ UNCHANGED <<mode, fn, counter, set, want>>

control_act ==
  LET i == tick.id  st == tick.st IN
  /\ tick.pc = "act"
  /\ Level(i, NewLevel(i, st))
  /\ command' = [command EXCEPT ![i] = IF @ = "unchanged" THEN Rearm(st) ELSE @]
  /\ state' = [state EXCEPT ![i] = IF st = "unchanged" THEN @ ELSE st]
  /\ tick' = [tick EXCEPT
       !.pc = IF i = blue THEN "end" ELSE "read",
       !.id = IF i = blue THEN i ELSE i + 1,
       !.sync = IF st = "blinks" THEN (IF Blink(i) THEN "on" ELSE "off") ELSE @,
       !.blinked = IF st = "blinks" THEN @ \cup {i} ELSE @]
  /\ UNCHANGED <<mode, fn, counter, set, want>>

-----------------------------------------------------------------------------
(* The other modes draw a pattern; only leds_control can come meanwhile.   *)

\* Faulty variant of K2000: the led turns back one step late.
K2000Late(c) ==
  LET k == c % (2 * NFront - 2) IN IF k <= NFront THEN k + 1 ELSE 2 * NFront - 1 - k

\* The lit led runs from the first to the last and back.
K2000(c) ==
  LET k == c % (2 * NFront - 2) IN IF k < NFront THEN k + 1 ELSE 2 * NFront - 1 - k

\* Two front leds move together and apart, while the colours take turns.
DemoFront(c) == LET k == c % NFront IN {k + 1, NFront - k}
DemoColour(c, i) == IF c % NFront = 0 THEN lit[i] ELSE i - red = (c \div NFront) % 3

Pattern(f, i) ==
  CASE f = "disable" -> lit[i]
    [] f = "downloading" -> i \in {K2000(counter), red, green}
    [] f = "burning" -> i \in {K2000(counter), red}
    [] f = "panic" -> counter % 2 = 1
    [] f = "demo" -> IF i \in Front THEN i \in DemoFront(counter) ELSE DemoColour(counter, i)

\* leds_timer_function calls the function of the mode ...
timer_start ==
  /\ tick.pc = "idle"
  /\ IF fn = "control" THEN UNCHANGED pins /\ tick' = [NoTick EXCEPT !.pc = "read"]
     ELSE SetPins([i \in Ids |-> Pattern(fn, i)]) /\ tick' = [NoTick EXCEPT !.pc = "end"]
  /\ UNCHANGED <<mode, fn, command, state, counter, set, want>>

\* ... which ends with a flush, except leds_process_disable; then it counts and
\* rearms the timer.
timer_end ==
  /\ tick.pc = "end"
  /\ IF fn = "disable" THEN UNCHANGED pins
     ELSE dirty' = FALSE /\ lit' = lit /\ shown' = IF dirty THEN lit ELSE shown
  /\ counter' = (counter + 1) % Period
  /\ tick' = NoTick
  /\ UNCHANGED <<mode, fn, command, state, set, want>>

-----------------------------------------------------------------------------
(* leds_set_mode, in a process that runs when no timer function does.      *)

Process == tick.pc = "idle"

\* Faulty variant of set_fn: the function is not changed.
SetFnMissing(m) ==
  /\ Process /\ set.pc = "idle" /\ m # mode
  /\ set' = [NoSet EXCEPT !.pc = "mode", !.mode = m]
  /\ UNCHANGED <<mode, fn, command, state, counter, pins, tick, want>>

\* A mode that is already set is left alone.
set_fn(m) ==
  /\ Process /\ set.pc = "idle" /\ m # mode
  /\ fn' = m
  /\ set' = [NoSet EXCEPT !.pc = "mode", !.mode = m]
  /\ UNCHANGED <<mode, command, state, counter, pins, tick, want>>

set_mode ==
  /\ Process /\ set.pc = "mode"
  /\ mode' = set.mode
  /\ set' = [set EXCEPT !.pc = IF set.mode = "control" THEN "load" ELSE "off"]
  /\ UNCHANGED <<fn, command, state, counter, pins, tick, want>>

\* In control mode each led without a command gets its last state back: the
\* state is loaded, then exchanged.
restore_load ==
  /\ Process /\ set.pc = "load"
  /\ set' = [set EXCEPT !.st = state[set.id], !.pc = "restore"]
  /\ UNCHANGED <<mode, fn, command, state, counter, pins, tick, want>>

restore_xchg ==
  /\ Process /\ set.pc = "restore"
  /\ command' = [command EXCEPT ![set.id] = IF @ = "unchanged" THEN set.st ELSE @]
  /\ set' = IF set.id = blue THEN NoSet ELSE [set EXCEPT !.id = @ + 1, !.pc = "load"]
  /\ UNCHANGED <<mode, fn, state, counter, pins, tick, want>>

\* In another mode every led is switched off: its bit is cleared ...
off_bit ==
  LET i == set.id IN
  /\ Process /\ set.pc = "off"
  /\ lit' = [lit EXCEPT ![i] = FALSE]
  /\ IF i \in Shifted /\ lit[i]
     THEN shown' = shown /\ set' = [set EXCEPT !.pc = "dirty"]
     ELSE /\ shown' = [shown EXCEPT ![i] = IF i \in Shifted THEN @ ELSE FALSE]
          /\ set' = IF i = blue THEN [set EXCEPT !.pc = "test"]
                    ELSE [set EXCEPT !.id = i + 1]
  /\ UNCHANGED <<mode, fn, command, state, counter, dirty, tick, want>>

\* Faulty variant of off_dirty: the register is not marked.
OffNoMark ==
  /\ Process /\ set.pc = "dirty"
  /\ set' = IF set.id = blue THEN [set EXCEPT !.pc = "test"]
            ELSE [set EXCEPT !.pc = "off", !.id = @ + 1]
  /\ UNCHANGED <<mode, fn, command, state, counter, pins, tick, want>>

\* ... and the register marked, when the bit was set.
off_dirty ==
  /\ Process /\ set.pc = "dirty"
  /\ dirty' = TRUE
  /\ set' = IF set.id = blue THEN [set EXCEPT !.pc = "test"]
            ELSE [set EXCEPT !.pc = "off", !.id = @ + 1]
  /\ UNCHANGED <<mode, fn, command, state, counter, lit, shown, tick, want>>

\* nxp_74hc164_flush: test and clear, then shift the register out.
flush_test ==
  /\ Process /\ set.pc = "test"
  /\ dirty' = FALSE
  /\ set' = IF dirty THEN [set EXCEPT !.pc = "serialize"] ELSE NoSet
  /\ UNCHANGED <<mode, fn, command, state, counter, lit, shown, tick, want>>

flush_serialize ==
  /\ Process /\ set.pc = "serialize"
  /\ shown' = lit
  /\ set' = NoSet
  /\ UNCHANGED <<mode, fn, command, state, counter, lit, dirty, tick, want>>

Timer == timer_start \/ control_read \/ control_xchg \/ control_act \/ timer_end

SetMode ==
  \/ set_mode \/ restore_load \/ restore_xchg
  \/ off_bit \/ off_dirty \/ flush_test \/ flush_serialize

Next ==
  \/ Timer
  \/ \E m \in Modes : set_fn(m)
  \/ SetMode
  \/ \E i \in Commanded, s \in Commands : leds_control(i, s)

Spec == Init /\ [][Next]_vars

\* The timer rearms itself, and between two ticks the processor is free for a
\* process that is in a system call.
FairSpec == Spec /\ WF_vars(Timer) /\ SF_vars(SetMode)

-----------------------------------------------------------------------------
\* Type invariant; dev->state never records led_state_unchanged, which
\* leds_set_mode could not restore.
TypeOK ==
  /\ mode \in LedMode /\ fn \in LedMode
  /\ command \in [Ids -> LedState] /\ want \in [Ids -> LedState]
  /\ state \in [Ids -> LedState \ {"unchanged"}]
  /\ counter \in 0..(Period - 1)
  /\ lit \in [Ids -> BOOLEAN] /\ shown \in [Ids -> BOOLEAN] /\ dirty \in BOOLEAN
  /\ tick \in [pc : {"idle", "read", "xchg", "act", "end"}, id : Ids, st : LedState,
               sync : {"none", "on", "off"}, blinked : SUBSET Ids]
  /\ set \in [pc : {"idle", "mode", "load", "restore", "off", "dirty", "test", "serialize"},
              id : Ids, mode : LedMode, st : LedState]

\* When neither the timer function nor leds_set_mode is running, every led
\* shows the level it was last given: no flush of the shift register is lost
\* although the timer flushes it in the middle of leds_set_mode.
RegisterShown == (tick.pc = "idle" /\ set.pc = "idle") => shown = lit

\* Once leds_set_mode(led_mode_disable) has returned every led is dark and
\* stays so: no tick relights one that it has switched off.
DisabledStaysDark ==
  (mode = "disable" /\ set.pc = "idle") => \A i \in Ids : ~lit[i]

\* The leds that blink in a tick of leds_process_control are lit together or
\* dark together.
BlinkInSync ==
  tick.pc = "end" => \A i, j \in tick.blinked : lit[i] = lit[j]

\* While an upgrade downloads or burns, each tick lights one front led, so
\* that the user sees it run to and fro.
OneFrontLit ==
  (tick.pc = "end" /\ fn \in {"downloading", "burning"}) =>
    \E i \in Front : lit[i] /\ \A j \in Front \ {i} : ~lit[j]

\* A led that was last told to be on, or off, ends up so if the driver stays in
\* control mode: leds_process_control and leds_set_mode mark the accesses to
\* the command as critical regions so as not to lose it.
LastCommandShown ==
  \A i \in Commanded, s \in {"on", "off"} :
    <>[](want[i] = s /\ mode = "control") => <>[](shown[i] = (s = "on"))

=============================================================================
