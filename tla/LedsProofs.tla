----------------------------- MODULE LedsProofs -----------------------------
(***************************************************************************)
(* The leds for any number of front leds, any wiring and any commands.     *)
(* Whether every flush of the shift register comes depends on where        *)
(* leds_set_mode was when the timer interrupted it: FlushDue names who     *)
(* owes the flush of each led.  DarkSoFar says the same of the leds that   *)
(* leds_set_mode has switched off, ModesAgree which timer function can run *)
(* meanwhile, and BlinkSoFar what a tick has drawn so far.                 *)
(***************************************************************************)
EXTENDS Leds, TLAPS

\* The function of the timer is that of the mode, but between the two assignments of
\* leds_set_mode; and a tick that obeys commands runs in control mode to its end.
ModesAgree ==
  /\ set.pc # "mode" => mode = fn
  /\ set.pc # "idle" => set.mode = fn
  /\ set.pc \in {"load", "restore"} => fn = "control"
  /\ tick.pc \in {"read", "xchg", "act"} => fn = "control"

\* A led shows another level than it was given only on the shift register, and while
\* somebody is going to flush it.
FlushDue ==
  /\ \A i \in Ids : shown[i] # lit[i] =>
       /\ i \in Shifted
       /\ dirty \/ (set.pc = "dirty" /\ i = set.id) \/ set.pc = "serialize"
  /\ dirty => \/ set.pc \in {"off", "dirty", "test"}
              \/ tick.pc # "idle" /\ fn # "disable"

\* leds_set_mode(led_mode_disable) switches off one led after the other ...
SwitchedOff(i) ==
  \/ set.pc \in {"idle", "test", "serialize"}
  \/ set.pc = "off" /\ i < set.id
  \/ set.pc = "dirty" /\ i <= set.id

\* ... and each stays dark.
DarkSoFar ==
  /\ set.pc = "mode" => set.id = 1
  /\ fn = "disable" => \A i \in Ids : SwitchedOff(i) => ~lit[i]

\* The leds that have blinked in this tick are behind the one that is looked at, and
\* have the level that the next one will get.
BlinkSoFar ==
  /\ tick.pc = "idle" => tick.blinked = {}
  /\ tick.sync = "none" => tick.blinked = {}
  /\ \A i \in tick.blinked : lit[i] = (tick.sync = "on")
  /\ tick.pc \in {"read", "xchg", "act"} => \A i \in tick.blinked : i < tick.id

Inv == TypeOK /\ ModesAgree /\ FlushDue /\ DarkSoFar /\ BlinkSoFar /\ OneFrontLit

-----------------------------------------------------------------------------
\* The leds are numbered from the first front led to the blue one.
LEMMA LedNumbers ==
  /\ blue \in Nat /\ blue >= 5 /\ red \in Ids /\ green \in Ids /\ blue \in Ids
  /\ \A i \in Ids : i \in Int /\ 1 <= i /\ i <= blue
  /\ \A i \in Ids : i # blue => i + 1 \in Ids
  /\ Front \subseteq Ids /\ Shifted \subseteq Ids /\ 1 \in Ids
  BY LedsAssumption DEF Ids, Front, blue, red, green

\* What leds_process_control gives a led is a level ...
LEMMA NewLevelIs ==
  ASSUME TypeOK, NEW i \in Ids, NEW st \in LedState
  PROVE  NewLevel(i, st) \in BOOLEAN /\ (st = "blinks" => NewLevel(i, st) = Blink(i))
<1>1. lit[i] \in BOOLEAN
  BY DEF TypeOK
<1>2. Blink(i) \in BOOLEAN
  BY <1>1, Zenon DEF Blink
<1>3. CASE st = "on"  BY <1>3, Zenon DEF NewLevel
<1>4. CASE st = "off"  BY <1>4, Zenon DEF NewLevel
<1>5. CASE st = "toggle"  BY <1>1, <1>5, Zenon DEF NewLevel
<1>6. CASE st = "blinkonce"  BY <1>1, <1>6, Zenon DEF NewLevel
<1>7. CASE st = "slowblinks"  BY <1>1, <1>7, Zenon DEF NewLevel
<1>8. CASE st = "blinks"  BY <1>2, <1>8, Zenon DEF NewLevel
<1>9. CASE st = "unchanged"  BY <1>1, <1>9, Zenon DEF NewLevel
<1>. QED BY <1>3, <1>4, <1>5, <1>6, <1>7, <1>8, <1>9, Zenon DEF LedState

\* ... and so is what the other modes draw; leds_process_disable draws nothing.
LEMMA PatternIs ==
  ASSUME TypeOK, NEW i \in Ids, fn # "control"
  PROVE  /\ Pattern(fn, i) \in BOOLEAN
         /\ fn = "disable" => Pattern(fn, i) = lit[i]
<1>1. lit[i] \in BOOLEAN /\ fn \in LedMode
  BY DEF TypeOK
<1>2. DemoColour(counter, i) \in BOOLEAN
  BY <1>1, Zenon DEF DemoColour
<1>3. CASE fn = "disable"  BY <1>1, <1>3, Zenon DEF Pattern
<1>4. CASE fn = "downloading"
  <2>1. Pattern(fn, i) = (i \in {K2000(counter), red, green})  BY <1>4, Zenon DEF Pattern
  <2>2. (i \in {K2000(counter), red, green}) \in BOOLEAN  OBVIOUS
  <2>. QED BY <1>4, <2>1, <2>2, Zenon
<1>5. CASE fn = "burning"
  <2>1. Pattern(fn, i) = (i \in {K2000(counter), red})  BY <1>5, Zenon DEF Pattern
  <2>2. (i \in {K2000(counter), red}) \in BOOLEAN  OBVIOUS
  <2>. QED BY <1>5, <2>1, <2>2, Zenon
<1>6. CASE fn = "panic"  BY <1>6, Zenon DEF Pattern
<1>7. CASE fn = "demo"
  <2>1. Pattern(fn, i) = IF i \in Front THEN i \in DemoFront(counter) ELSE DemoColour(counter, i)
    BY <1>7, Zenon DEF Pattern
  <2>2. (i \in DemoFront(counter)) \in BOOLEAN
    OBVIOUS
  <2>. QED BY <1>2, <1>7, <2>1, <2>2, Zenon
<1>. QED BY <1>1, <1>3, <1>4, <1>5, <1>6, <1>7, Zenon DEF LedMode

\* New levels are levels, and mark the shift register when one of its leds changes.
LEMMA PinsSet ==
  ASSUME TypeOK, NEW f \in [Ids -> BOOLEAN], SetPins(f)
  PROVE  /\ lit' = f /\ shown' \in [Ids -> BOOLEAN] /\ dirty' \in BOOLEAN
         /\ dirty => dirty'
         /\ \A i \in Ids : shown'[i] = IF i \in Shifted THEN shown[i] ELSE f[i]
         /\ \A i \in Shifted : f[i] # lit[i] => dirty'
         /\ dirty' => dirty \/ \E i \in Shifted : f[i] # lit[i]
<1>1. /\ lit' = f /\ dirty' = (dirty \/ \E i \in Shifted : f[i] # lit[i])
      /\ shown' = [i \in Ids |-> IF i \in Shifted THEN shown[i] ELSE f[i]]
  BY DEF SetPins
<1>2. shown \in [Ids -> BOOLEAN] /\ dirty \in BOOLEAN
  BY DEF TypeOK
<1>3. ASSUME NEW i \in Ids
      PROVE  (IF i \in Shifted THEN shown[i] ELSE f[i]) \in BOOLEAN
  BY <1>2, Zenon
<1>. QED BY <1>1, <1>2, <1>3, Zenon

\* What one turn of leds_process_control does.
LEMMA Act ==
  ASSUME TypeOK, control_act
  PROVE  /\ lit' = [lit EXCEPT ![tick.id] = NewLevel(tick.id, tick.st)]
         /\ [lit EXCEPT ![tick.id] = NewLevel(tick.id, tick.st)] \in [Ids -> BOOLEAN]
         /\ SetPins([lit EXCEPT ![tick.id] = NewLevel(tick.id, tick.st)])
         /\ tick.id \in Ids /\ tick.st \in LedState /\ tick.pc = "act"
         /\ UNCHANGED <<mode, fn, counter, set, want>>
<1>1. tick.id \in Ids /\ tick.st \in LedState
  BY DEF TypeOK
<1>2. NewLevel(tick.id, tick.st) \in BOOLEAN
  BY <1>1, NewLevelIs
<1>3. SetPins([lit EXCEPT ![tick.id] = NewLevel(tick.id, tick.st)])
  BY Zenon DEF control_act, Level
<1>4. [lit EXCEPT ![tick.id] = NewLevel(tick.id, tick.st)] \in [Ids -> BOOLEAN]
  BY <1>1, <1>2 DEF TypeOK
<1>5. tick.pc = "act" /\ UNCHANGED <<mode, fn, counter, set, want>>
  BY Zenon DEF control_act
<1>. QED BY <1>1, <1>3, <1>4, <1>5, Zenon DEF SetPins

\* The state of a tick, of leds_set_mode and of the pins.
Ticks == [pc : {"idle", "read", "xchg", "act", "end"}, id : Ids, st : LedState,
          sync : {"none", "on", "off"}, blinked : SUBSET Ids]
Sets == [pc : {"idle", "mode", "load", "restore", "off", "dirty", "test", "serialize"},
         id : Ids, mode : LedMode, st : LedState]
Pins == lit \in [Ids -> BOOLEAN] /\ shown \in [Ids -> BOOLEAN] /\ dirty \in BOOLEAN

\* How it ends, and what it says of the leds that blink.
LEMMA ActTick ==
  ASSUME TypeOK, control_act
  PROVE  /\ tick' \in Ticks
         /\ tick'.pc = (IF tick.id = blue THEN "end" ELSE "read")
         /\ tick'.id = (IF tick.id = blue THEN tick.id ELSE tick.id + 1)
         /\ tick'.sync = (IF tick.st = "blinks"
                          THEN (IF Blink(tick.id) THEN "on" ELSE "off") ELSE tick.sync)
         /\ tick'.blinked = (IF tick.st = "blinks" THEN tick.blinked \cup {tick.id}
                             ELSE tick.blinked)
<1>. DEFINE p == IF tick.id = blue THEN "end" ELSE "read"
            n == IF tick.id = blue THEN tick.id ELSE tick.id + 1
            y == IF tick.st = "blinks" THEN (IF Blink(tick.id) THEN "on" ELSE "off")
                 ELSE tick.sync
            b == IF tick.st = "blinks" THEN tick.blinked \cup {tick.id} ELSE tick.blinked
<1>1. tick \in Ticks
  BY Zenon DEF TypeOK, Ticks
<1>2. tick' = [tick EXCEPT !.pc = p, !.id = n, !.sync = y, !.blinked = b]
  BY Zenon DEF control_act
<1>3. p \in {"end", "read"} /\ y \in {"none", "on", "off"} /\ b \in SUBSET Ids
  BY <1>1 DEF Ticks
<1>4. n \in Ids
  BY <1>1, LedNumbers, Zenon DEF Ticks
<1>. HIDE DEF p, n, y, b
<1>5. tick' \in Ticks /\ tick'.pc = p /\ tick'.id = n /\ tick'.sync = y /\ tick'.blinked = b
  BY <1>1, <1>2, <1>3, <1>4, Zenon DEF Ticks
<1>. QED BY <1>5, Zenon DEF p, n, y, b

-----------------------------------------------------------------------------
\* The record of a tick stays what it is ...
LEMMA KeepsTick == ASSUME TypeOK, Next PROVE tick' \in Ticks
<1>1. tick \in Ticks /\ command \in [Ids -> LedState]
  BY Zenon DEF TypeOK, Ticks
<1>2. CASE timer_start
  <2>1. tick' = [NoTick EXCEPT !.pc = "read"] \/ tick' = [NoTick EXCEPT !.pc = "end"]
    BY <1>2, Zenon DEF timer_start
  <2>. QED BY <2>1, LedNumbers DEF NoTick, Ticks, LedState
<1>3. CASE control_read
  BY <1>1, <1>3, Zenon DEF control_read, Ticks
<1>4. CASE control_xchg
  BY <1>1, <1>4 DEF control_xchg, Ticks
<1>5. CASE control_act
  BY <1>5, ActTick
<1>6. CASE timer_end
  BY <1>6, LedNumbers DEF timer_end, NoTick, Ticks, LedState
<1>7. ASSUME \/ \E m \in Modes : set_fn(m)
             \/ SetMode
             \/ \E i \in Commanded, s \in Commands : leds_control(i, s)
      PROVE  UNCHANGED tick
  BY <1>7, Zenon DEF set_fn, SetMode, set_mode, restore_load, restore_xchg, off_bit, off_dirty,
       flush_test, flush_serialize, leds_control
<1>. QED BY <1>1, <1>2, <1>3, <1>4, <1>5, <1>6, <1>7, Zenon DEF Next, Timer

\* ... and so does that of leds_set_mode ...
LEMMA KeepsSet == ASSUME TypeOK, Next PROVE set' \in Sets
<1>1. set \in Sets /\ state \in [Ids -> LedState]
  BY DEF TypeOK, Sets
<1>2. NoSet \in Sets
  BY LedNumbers DEF NoSet, Sets, LedMode, LedState
<1>3. ASSUME Timer \/ \E i \in Commanded, s \in Commands : leds_control(i, s)
      PROVE  UNCHANGED set
  BY <1>3, Zenon DEF Timer, timer_start, control_read, control_xchg, control_act, timer_end,
       leds_control
<1>4. ASSUME NEW m \in Modes, set_fn(m) PROVE set' \in Sets
  BY <1>2, <1>4, LedsAssumption, Zenon DEF set_fn, Sets
<1>5. CASE set_mode
  <2>1. \/ set' = [set EXCEPT !.pc = "load"] \/ set' = [set EXCEPT !.pc = "off"]
    BY <1>5, Zenon DEF set_mode
  <2>. QED BY <1>1, <2>1 DEF Sets
<1>6. CASE restore_load
  BY <1>1, <1>6, Zenon DEF restore_load, Sets
<1>7. CASE restore_xchg
  <2>1. set' = IF set.id = blue THEN NoSet ELSE [set EXCEPT !.id = set.id + 1, !.pc = "load"]
    BY <1>7, Zenon DEF restore_xchg
  <2>. QED BY <1>1, <1>2, <2>1, LedNumbers, Zenon DEF Sets
<1>8. CASE off_bit
  <2>1. \/ set' = [set EXCEPT !.pc = "dirty"]
        \/ set' = [set EXCEPT !.pc = "test"]
        \/ set.id # blue /\ set' = [set EXCEPT !.id = set.id + 1]
    BY <1>8, Zenon DEF off_bit
  <2>. QED BY <1>1, <2>1, LedNumbers DEF Sets
<1>9. CASE off_dirty
  <2>1. \/ set' = [set EXCEPT !.pc = "test"]
        \/ set.id # blue /\ set' = [set EXCEPT !.pc = "off", !.id = set.id + 1]
    BY <1>9, Zenon DEF off_dirty
  <2>. QED BY <1>1, <2>1, LedNumbers, Zenon DEF Sets
<1>10. CASE flush_test
  <2>1. set' = [set EXCEPT !.pc = "serialize"] \/ set' = NoSet
    BY <1>10, Zenon DEF flush_test
  <2>. QED BY <1>1, <1>2, <2>1 DEF Sets
<1>11. CASE flush_serialize
  BY <1>2, <1>11 DEF flush_serialize
<1>. QED BY <1>1, <1>3, <1>4, <1>5, <1>6, <1>7, <1>8, <1>9, <1>10, <1>11, Zenon DEF Next, SetMode

\* ... the levels are levels ...
LEMMA KeepsPins == ASSUME TypeOK, Next PROVE Pins'
<1>. USE DEF Pins
<1>1. Pins /\ set.id \in Ids
  BY DEF TypeOK
<1>2. CASE timer_start /\ fn # "control"
  <2>1. SetPins([i \in Ids |-> Pattern(fn, i)])
    BY <1>2, Zenon DEF timer_start
  <2>2. [i \in Ids |-> Pattern(fn, i)] \in [Ids -> BOOLEAN]
    BY <1>2, PatternIs
  <2>. QED BY <2>1, <2>2, PinsSet
<1>3. CASE control_act
  BY <1>3, Act, PinsSet, Zenon
<1>4. CASE timer_end
  <2>1. \/ UNCHANGED <<lit, shown, dirty>>
        \/ dirty' = FALSE /\ lit' = lit /\ (shown' = lit \/ shown' = shown)
    BY <1>4, Zenon DEF timer_end, pins
  <2>. QED BY <1>1, <2>1, Zenon
<1>5. CASE off_bit
  <2>1. lit' = [lit EXCEPT ![set.id] = FALSE] /\ dirty' = dirty
    BY <1>5, Zenon DEF off_bit
  <2>2. \/ shown' = shown
        \/ shown' = [shown EXCEPT ![set.id] = IF set.id \in Shifted THEN shown[set.id] ELSE FALSE]
    BY <1>5, Zenon DEF off_bit
  <2>3. lit' \in [Ids -> BOOLEAN]
    BY <1>1, <2>1
  <2>4. shown' \in [Ids -> BOOLEAN]
    <3>1. (IF set.id \in Shifted THEN shown[set.id] ELSE FALSE) \in BOOLEAN
      BY <1>1, Zenon
    <3>. QED BY <1>1, <2>2, <3>1, Zenon
  <2>. QED BY <1>1, <2>1, <2>3, <2>4, Zenon
<1>6. CASE off_dirty
  BY <1>1, <1>6, Zenon DEF off_dirty
<1>7. CASE flush_test
  BY <1>1, <1>7, Zenon DEF flush_test
<1>8. CASE flush_serialize
  BY <1>1, <1>8, Zenon DEF flush_serialize
<1>9. ASSUME \/ timer_start /\ fn = "control"
             \/ control_read \/ control_xchg
             \/ \E m \in Modes : set_fn(m)
             \/ set_mode \/ restore_load \/ restore_xchg
             \/ \E i \in Commanded, s \in Commands : leds_control(i, s)
      PROVE  UNCHANGED <<lit, shown, dirty>>
  BY <1>9, Zenon DEF timer_start, control_read, control_xchg, set_fn, set_mode, restore_load,
       restore_xchg, leds_control, pins
<1>. QED BY <1>1, <1>2, <1>3, <1>4, <1>5, <1>6, <1>7, <1>8, <1>9, Zenon DEF Next, Timer, SetMode

\* ... and the commands and states are led states.
LEMMA KeepsCommands ==
  ASSUME TypeOK, Next
  PROVE  /\ command' \in [Ids -> LedState] /\ want' \in [Ids -> LedState]
         /\ state' \in [Ids -> LedState \ {"unchanged"}]
<1>1. /\ command \in [Ids -> LedState] /\ want \in [Ids -> LedState]
      /\ state \in [Ids -> LedState \ {"unchanged"}]
      /\ tick.id \in Ids /\ tick.st \in LedState /\ set.id \in Ids /\ set.st \in LedState
  BY DEF TypeOK
<1>2. "unchanged" \in LedState /\ "toggle" \in LedState
  BY DEF LedState
<1>3. CASE control_xchg
  <2>1. /\ UNCHANGED <<state, want>>
        /\ \/ command' = command
           \/ command' = [command EXCEPT ![tick.id] = "unchanged"]
    <3>1. /\ UNCHANGED <<state, want>>
          /\ command' = [command EXCEPT ![tick.id] = IF command[tick.id] = tick.st
                                                     THEN "unchanged" ELSE command[tick.id]]
      BY <1>3, Zenon DEF control_xchg
    <3>. QED BY <1>1, <3>1, Zenon
  <2>. QED BY <1>1, <1>2, <2>1
<1>4. CASE control_act
  <2>. DEFINE r == IF command[tick.id] = "unchanged" THEN Rearm(tick.st) ELSE command[tick.id]
              t == IF tick.st = "unchanged" THEN state[tick.id] ELSE tick.st
  <2>1. /\ command' = [command EXCEPT ![tick.id] = r]
        /\ state' = [state EXCEPT ![tick.id] = t] /\ want' = want
    BY <1>4, Zenon DEF control_act
  <2>2. Rearm(tick.st) \in LedState
    BY <1>1, <1>2, Zenon DEF Rearm
  <2>3. r \in LedState /\ t \in LedState \ {"unchanged"}
    BY <1>1, <2>2
  <2>. HIDE DEF r, t
  <2>. QED BY <1>1, <2>1, <2>3
<1>5. CASE restore_xchg
  <2>1. /\ UNCHANGED <<state, want>>
        /\ command' = [command EXCEPT ![set.id] = IF command[set.id] = "unchanged"
                                                  THEN set.st ELSE command[set.id]]
    BY <1>5, Zenon DEF restore_xchg
  <2>. QED BY <1>1, <2>1
<1>6. ASSUME NEW i \in Commanded, NEW s \in Commands, leds_control(i, s)
      PROVE  /\ command' = [command EXCEPT ![i] = s] /\ want' = [want EXCEPT ![i] = s]
             /\ state' = state /\ i \in Ids /\ s \in LedState
  BY <1>6, LedsAssumption DEF leds_control
<1>7. ASSUME \/ timer_start \/ control_read \/ timer_end
             \/ \E m \in Modes : set_fn(m)
             \/ set_mode \/ restore_load \/ off_bit \/ off_dirty
             \/ flush_test \/ flush_serialize
      PROVE  UNCHANGED <<command, state, want>>
  BY <1>7, Zenon DEF timer_start, control_read, timer_end, set_fn, set_mode, restore_load,
       off_bit, off_dirty, flush_test, flush_serialize
<1>8. CASE \E i \in Commanded, s \in Commands : leds_control(i, s)
  BY <1>1, <1>6, <1>8
<1>9. CASE UNCHANGED <<command, state, want>>
  BY <1>1, <1>9
<1>. QED BY <1>3, <1>4, <1>5, <1>7, <1>8, <1>9, Zenon DEF Next, Timer, SetMode

\* So the types are kept.
LEMMA KeepsType == ASSUME TypeOK, Next PROVE TypeOK'
<1>1. mode' \in LedMode /\ fn' \in LedMode
  <2>1. ASSUME NEW m \in Modes, set_fn(m) PROVE fn' = m /\ mode' = mode
    BY <2>1 DEF set_fn
  <2>2. ASSUME \/ Timer \/ restore_load \/ restore_xchg \/ off_bit \/ off_dirty
               \/ flush_test \/ flush_serialize
               \/ \E i \in Commanded, s \in Commands : leds_control(i, s)
        PROVE  UNCHANGED <<mode, fn>>
    BY <2>2, Zenon DEF Timer, timer_start, control_read, control_xchg, control_act, timer_end,
         restore_load, restore_xchg, off_bit, off_dirty, flush_test, flush_serialize,
         leds_control
  <2>3. mode \in LedMode /\ fn \in LedMode /\ set.mode \in LedMode /\ Modes \subseteq LedMode
    BY LedsAssumption DEF TypeOK
  <2>4. CASE set_mode
    BY <2>3, <2>4, Zenon DEF set_mode
  <2>5. CASE \E m \in Modes : set_fn(m)
    BY <2>1, <2>3, <2>5
  <2>6. CASE UNCHANGED <<mode, fn>>
    BY <2>3, <2>6
  <2>. QED BY <2>2, <2>4, <2>5, <2>6, Zenon DEF Next, SetMode
<1>2. counter' \in 0..(Period - 1)
  <2>1. counter' = counter \/ counter' = (counter + 1) % Period
    BY Zenon DEF Next, Timer, SetMode, timer_start, control_read, control_xchg, control_act,
         timer_end, set_fn, set_mode, restore_load, restore_xchg, off_bit, off_dirty,
         flush_test, flush_serialize, leds_control
  <2>. QED BY <2>1, LedsAssumption DEF TypeOK
<1>3. tick' \in Ticks /\ set' \in Sets /\ Pins'
  BY KeepsTick, KeepsSet, KeepsPins
<1>. QED BY <1>1, <1>2, <1>3, KeepsCommands, Zenon DEF TypeOK, Ticks, Sets, Pins

-----------------------------------------------------------------------------
\* What leds_set_mode does to its own state, after the mode is set.
LEMMA SetSteps ==
  ASSUME TypeOK, SetMode, ~set_mode
  PROVE  /\ Process /\ set.pc \notin {"idle", "mode"} /\ UNCHANGED <<mode, fn, tick, counter>>
         /\ \/ set' = NoSet
            \/ /\ set'.mode = set.mode
               /\ set'.pc \in (IF set.pc \in {"load", "restore"} THEN {"load", "restore"}
                               ELSE {"off", "dirty", "test", "serialize"})
<1>1. set \in Sets
  BY DEF TypeOK, Sets
<1>2. CASE restore_load
  <2>1. /\ Process /\ set.pc = "load" /\ UNCHANGED <<mode, fn, tick, counter>>
        /\ set' = [set EXCEPT !.st = state[set.id], !.pc = "restore"]
    BY <1>2, Zenon DEF restore_load
  <2>. QED BY <1>1, <2>1 DEF Sets
<1>3. CASE restore_xchg
  <2>1. /\ Process /\ set.pc = "restore" /\ UNCHANGED <<mode, fn, tick, counter>>
        /\ set' = NoSet \/ set' = [set EXCEPT !.id = set.id + 1, !.pc = "load"]
    BY <1>3, Zenon DEF restore_xchg
  <2>. QED BY <1>1, <2>1, Zenon DEF Sets
<1>4. CASE off_bit
  <2>1. /\ Process /\ set.pc = "off" /\ UNCHANGED <<mode, fn, tick, counter>>
        /\ \/ set' = [set EXCEPT !.pc = "dirty"] \/ set' = [set EXCEPT !.pc = "test"]
           \/ set' = [set EXCEPT !.id = set.id + 1]
    BY <1>4, Zenon DEF off_bit
  <2>. QED BY <1>1, <2>1 DEF Sets
<1>5. CASE off_dirty
  <2>1. /\ Process /\ set.pc = "dirty" /\ UNCHANGED <<mode, fn, tick, counter>>
        /\ \/ set' = [set EXCEPT !.pc = "test"]
           \/ set' = [set EXCEPT !.pc = "off", !.id = set.id + 1]
    BY <1>5, Zenon DEF off_dirty
  <2>. QED BY <1>1, <2>1, Zenon DEF Sets
<1>6. CASE flush_test
  <2>1. /\ Process /\ set.pc = "test" /\ UNCHANGED <<mode, fn, tick, counter>>
        /\ set' = NoSet \/ set' = [set EXCEPT !.pc = "serialize"]
    BY <1>6, Zenon DEF flush_test
  <2>. QED BY <1>1, <2>1 DEF Sets
<1>7. CASE flush_serialize
  BY <1>7, Zenon DEF flush_serialize
<1>. QED BY <1>2, <1>3, <1>4, <1>5, <1>6, <1>7, Zenon DEF SetMode

\* What a tick does to its own state.
LEMMA TimerSteps ==
  ASSUME TypeOK, Timer
  PROVE  /\ UNCHANGED <<mode, fn, set>>
         /\ \/ tick.pc = "idle" /\ tick'.pc = (IF fn = "control" THEN "read" ELSE "end")
            \/ tick.pc \in {"read", "xchg", "act"} /\ tick'.pc \in {"read", "xchg", "act", "end"}
            \/ tick.pc = "end" /\ tick' = NoTick /\ timer_end
<1>1. tick \in Ticks
  BY Zenon DEF TypeOK, Ticks
<1>2. CASE timer_start
  <2>1. /\ tick.pc = "idle" /\ UNCHANGED <<mode, fn, set>>
        /\ IF fn = "control" THEN tick' = [NoTick EXCEPT !.pc = "read"]
           ELSE tick' = [NoTick EXCEPT !.pc = "end"]
    BY <1>2, Zenon DEF timer_start
  <2>. QED BY <2>1 DEF NoTick
<1>3. CASE control_read
  BY <1>1, <1>3 DEF control_read, Ticks
<1>4. CASE control_xchg
  BY <1>1, <1>4 DEF control_xchg, Ticks
<1>5. CASE control_act
  <2>1. tick.pc = "act" /\ UNCHANGED <<mode, fn, set>>
    BY <1>5, Act
  <2>2. tick'.pc = IF tick.id = blue THEN "end" ELSE "read"
    BY <1>5, ActTick
  <2>. QED BY <2>1, <2>2
<1>6. CASE timer_end
  BY <1>6, Zenon DEF timer_end
<1>. QED BY <1>2, <1>3, <1>4, <1>5, <1>6, Zenon DEF Timer

\* The mode and the timer function agree.
LEMMA KeepsModes == ASSUME Inv, Next PROVE ModesAgree'
<1>1. TypeOK /\ ModesAgree
  BY Zenon DEF Inv
<1>2. CASE Timer
  <2>1. UNCHANGED <<mode, fn, set>>
    BY <1>1, <1>2, TimerSteps
  <2>2. tick'.pc \in {"read", "xchg", "act"} => fn = "control"
    BY <1>1, <1>2, TimerSteps DEF ModesAgree, NoTick
  <2>. QED BY <1>1, <2>1, <2>2 DEF ModesAgree
<1>3. ASSUME NEW m \in Modes, set_fn(m) PROVE ModesAgree'
  <2>1. /\ fn' = m /\ tick' = tick /\ tick.pc = "idle"
        /\ set' = [NoSet EXCEPT !.pc = "mode", !.mode = m]
    BY <1>3 DEF set_fn, Process
  <2>2. set'.pc = "mode" /\ set'.mode = m
    BY <2>1 DEF NoSet
  <2>. QED BY <2>1, <2>2 DEF ModesAgree
<1>4. CASE set_mode
  <2>1. /\ mode' = set.mode /\ set.pc = "mode" /\ UNCHANGED <<fn, tick>>
        /\ set' = [set EXCEPT !.pc = IF set.mode = "control" THEN "load" ELSE "off"]
    BY <1>4, Zenon DEF set_mode
  <2>2. set'.mode = set.mode /\ set'.pc = IF set.mode = "control" THEN "load" ELSE "off"
    BY <1>1, <2>1 DEF TypeOK
  <2>. QED BY <1>1, <2>1, <2>2 DEF ModesAgree
<1>5. CASE SetMode /\ ~set_mode
  <2>1. NoSet.pc = "idle"
    BY DEF NoSet
  <2>. QED BY <1>1, <1>5, <2>1, SetSteps DEF ModesAgree
<1>6. CASE \E i \in Commanded, s \in Commands : leds_control(i, s)
  <2>1. UNCHANGED <<mode, fn, tick, set>>
    BY <1>6, Zenon DEF leds_control
  <2>. QED BY <1>1, <2>1 DEF ModesAgree
<1>. QED BY <1>2, <1>3, <1>4, <1>5, <1>6 DEF Next

-----------------------------------------------------------------------------
\* New levels drawn by a tick leave a flush due to it.
LEMMA DrawsDue ==
  ASSUME TypeOK, FlushDue, NEW f \in [Ids -> BOOLEAN], SetPins(f), UNCHANGED <<fn, set>>,
         tick'.pc # "idle", fn # "disable" \/ f = lit,
         dirty => set.pc \in {"off", "dirty", "test"} \/ fn # "disable"
  PROVE  FlushDue'
<1>1. /\ lit' = f /\ (dirty => dirty')
      /\ \A i \in Ids : shown'[i] = IF i \in Shifted THEN shown[i] ELSE f[i]
      /\ \A i \in Shifted : f[i] # lit[i] => dirty'
      /\ dirty' => dirty \/ \E i \in Shifted : f[i] # lit[i]
  BY PinsSet
<1>2. ASSUME NEW i \in Ids, shown'[i] # lit'[i]
      PROVE  /\ i \in Shifted
             /\ dirty' \/ (set'.pc = "dirty" /\ i = set'.id) \/ set'.pc = "serialize"
  <2>1. i \in Shifted /\ shown'[i] = shown[i]
    BY <1>1, <1>2, Zenon
  <2>2. CASE f[i] # lit[i]
    BY <1>1, <2>1, <2>2, Zenon
  <2>3. CASE f[i] = lit[i]
    <3>1. shown[i] # lit[i]
      BY <1>1, <1>2, <2>1, <2>3, Zenon
    <3>. QED BY <1>1, <2>1, <3>1, Zenon DEF FlushDue
  <2>. QED BY <2>2, <2>3, Zenon
<1>3. dirty' => \/ set'.pc \in {"off", "dirty", "test"}
                \/ tick'.pc # "idle" /\ fn' # "disable"
  <2>1. CASE fn # "disable"
    BY <2>1, Zenon
  <2>2. CASE fn = "disable"
    BY <1>1, <2>2, Zenon
  <2>. QED BY <2>1, <2>2, Zenon
<1>. QED BY <1>2, <1>3, Zenon DEF FlushDue

\* In every step a led that lags behind still has a flush coming.
LEMMA KeepsDue == ASSUME Inv, Next PROVE FlushDue'
<1>1. TypeOK /\ ModesAgree /\ FlushDue
  BY Zenon DEF Inv
<1>2. lit \in [Ids -> BOOLEAN] /\ shown \in [Ids -> BOOLEAN] /\ dirty \in BOOLEAN /\ set \in Sets
  BY <1>1 DEF TypeOK, Sets
<1>3. CASE timer_start /\ fn # "control"
  <2>. DEFINE f == [i \in Ids |-> Pattern(fn, i)]
  <2>1. SetPins(f) /\ UNCHANGED <<fn, set>> /\ tick.pc = "idle"
    BY <1>3, Zenon DEF timer_start
  <2>2. f \in [Ids -> BOOLEAN] /\ (fn = "disable" => f = lit)
    BY <1>1, <1>2, <1>3, PatternIs
  <2>3. tick'.pc # "idle"
    BY <1>1, <1>3, <2>1, TimerSteps DEF Timer
  <2>. HIDE DEF f
  <2>. QED BY <1>1, <2>1, <2>2, <2>3, DrawsDue, Zenon DEF FlushDue
<1>4. CASE control_act
  <2>1. UNCHANGED <<fn, set>> /\ fn = "control"
    BY <1>1, <1>4, Act DEF ModesAgree
  <2>2. tick'.pc # "idle"
    BY <1>1, <1>4, ActTick
  <2>. QED BY <1>1, <1>4, <2>1, <2>2, Act, DrawsDue, Zenon
<1>5. CASE timer_end
  <2>1. UNCHANGED <<fn, set, lit>>
    BY <1>5, Zenon DEF timer_end, pins
  <2>2. CASE fn = "disable"
    <3>1. UNCHANGED <<shown, dirty>>
      BY <1>5, <2>2, Zenon DEF timer_end, pins
    <3>. QED BY <1>1, <2>1, <2>2, <3>1, Zenon DEF FlushDue
  <2>3. CASE fn # "disable"
    <3>1. dirty' = FALSE /\ shown' = IF dirty THEN lit ELSE shown
      BY <1>5, <2>3, Zenon DEF timer_end
    <3>. QED BY <1>1, <2>1, <3>1, Zenon DEF FlushDue
  <2>. QED BY <2>2, <2>3, Zenon
<1>6. ASSUME \/ timer_start /\ fn = "control"
             \/ control_read \/ control_xchg
      PROVE  FlushDue'
  <2>1. UNCHANGED <<lit, shown, dirty, fn, set>> /\ Timer /\ ~timer_end
    <3>1. UNCHANGED <<lit, shown, dirty, fn, set>> /\ Timer
      BY <1>6, Zenon DEF timer_start, control_read, control_xchg, pins, Timer
    <3>2. tick.pc # "end"
      BY <1>6, Zenon DEF timer_start, control_read, control_xchg
    <3>. QED BY <3>1, <3>2, Zenon DEF timer_end
  <2>2. tick'.pc # "idle"
    BY <1>1, <2>1, TimerSteps
  <2>3. tick.pc # "idle" \/ fn = "control"
    BY <1>6, Zenon DEF control_read, control_xchg
  <2>. QED BY <1>1, <2>1, <2>2, <2>3, Zenon DEF FlushDue
<1>7. ASSUME \/ \E m \in Modes : set_fn(m)
             \/ set_mode \/ restore_load \/ restore_xchg
      PROVE  FlushDue'
  <2>1. /\ UNCHANGED <<lit, shown, dirty>> /\ tick.pc = "idle"
        /\ set.pc \in {"idle", "mode", "load", "restore"}
    BY <1>7, Zenon DEF set_fn, set_mode, restore_load, restore_xchg, pins, Process
  <2>2. ~dirty /\ \A i \in Ids : ~(shown[i] # lit[i])
    BY <1>1, <2>1, Zenon DEF FlushDue
  <2>. QED BY <2>1, <2>2, Zenon DEF FlushDue
<1>8. CASE off_bit
  <2>. DEFINE i == set.id
  <2>1. /\ set.pc = "off" /\ lit' = [lit EXCEPT ![i] = FALSE] /\ dirty' = dirty
        /\ i \in Ids
    BY <1>2, <1>8, Zenon DEF off_bit, Sets
  <2>2. lit'[i] = FALSE /\ \A j \in Ids \ {i} : lit'[j] = lit[j]
    BY <1>2, <2>1, Zenon
  <2>3. \A j \in Ids : shown[j] # lit[j] => j \in Shifted /\ dirty
    BY <1>1, <2>1, Zenon DEF FlushDue
  <2>4. CASE i \in Shifted /\ lit[i]
    <3>1. shown' = shown /\ set' = [set EXCEPT !.pc = "dirty"]
      BY <1>8, <2>4, Zenon DEF off_bit
    <3>2. set'.pc = "dirty" /\ set'.id = i
      BY <1>2, <3>1 DEF Sets
    <3>. QED BY <2>1, <2>2, <2>3, <2>4, <3>1, <3>2, Zenon DEF FlushDue
  <2>5. CASE ~(i \in Shifted /\ lit[i])
    <3>1. /\ shown' = [shown EXCEPT ![i] = IF i \in Shifted THEN shown[i] ELSE FALSE]
          /\ set' = [set EXCEPT !.pc = "test"] \/ set' = [set EXCEPT !.id = i + 1]
      BY <1>8, <2>5, Zenon DEF off_bit
    <3>2. set'.pc \in {"off", "test"}
      BY <1>2, <2>1, <3>1 DEF Sets
    <3>3. /\ shown'[i] = IF i \in Shifted THEN shown[i] ELSE FALSE
          /\ \A j \in Ids \ {i} : shown'[j] = shown[j]
      BY <1>2, <2>1, <3>1, Zenon
    <3>4. lit[i] \in BOOLEAN
      BY <1>2, <2>1
    <3>5. ASSUME NEW j \in Ids, shown'[j] # lit'[j] PROVE shown[j] # lit[j]
      BY <2>1, <2>2, <2>5, <3>3, <3>4, <3>5, Zenon
    <3>. QED BY <2>1, <2>3, <3>2, <3>5, Zenon DEF FlushDue
  <2>. QED BY <2>4, <2>5, Zenon
<1>9. CASE off_dirty
  <2>1. /\ UNCHANGED <<lit, shown>> /\ dirty' = TRUE
        /\ \/ set' = [set EXCEPT !.pc = "test"]
           \/ set' = [set EXCEPT !.pc = "off", !.id = set.id + 1]
    BY <1>9, Zenon DEF off_dirty
  <2>2. set'.pc \in {"off", "test"}
    BY <1>2, <2>1, Zenon DEF Sets
  <2>. QED BY <1>1, <2>1, <2>2, Zenon DEF FlushDue
<1>10. CASE flush_test
  <2>1. /\ UNCHANGED <<lit, shown>> /\ dirty' = FALSE /\ set.pc = "test"
        /\ dirty => set' = [set EXCEPT !.pc = "serialize"]
    BY <1>10, Zenon DEF flush_test
  <2>2. dirty => set'.pc = "serialize"
    BY <1>2, <2>1 DEF Sets
  <2>. QED BY <1>1, <2>1, <2>2, Zenon DEF FlushDue
<1>11. CASE flush_serialize
  <2>1. shown' = lit /\ UNCHANGED <<lit, dirty>> /\ set.pc = "serialize" /\ tick.pc = "idle"
    BY <1>11, Zenon DEF flush_serialize, Process
  <2>. QED BY <1>1, <2>1, Zenon DEF FlushDue
<1>12. CASE \E i \in Commanded, s \in Commands : leds_control(i, s)
  <2>1. UNCHANGED <<lit, shown, dirty, fn, tick, set>>
    BY <1>12, Zenon DEF leds_control, pins
  <2>. QED BY <1>1, <2>1, Zenon DEF FlushDue
<1>. QED BY <1>3, <1>4, <1>5, <1>6, <1>7, <1>8, <1>9, <1>10, <1>11, <1>12, Zenon
         DEF Next, Timer, SetMode

-----------------------------------------------------------------------------
\* A step that leaves the levels and leds_set_mode alone keeps the leds dark.
LEMMA StaysDark == ASSUME DarkSoFar, UNCHANGED <<fn, set, lit>> PROVE DarkSoFar'
  BY Zenon DEF DarkSoFar, SwitchedOff

\* No step lights a led that leds_set_mode(led_mode_disable) has switched off.
LEMMA KeepsDark == ASSUME Inv, Next PROVE DarkSoFar'
<1>1. TypeOK /\ ModesAgree /\ DarkSoFar
  BY Zenon DEF Inv
<1>2. lit \in [Ids -> BOOLEAN] /\ set \in Sets
  BY <1>1 DEF TypeOK, Sets
<1>3. CASE Timer
  <2>1. UNCHANGED <<fn, set>>
    BY <1>1, <1>3, TimerSteps
  <2>2. CASE fn # "disable"
    BY <1>1, <2>1, <2>2, Zenon DEF DarkSoFar
  <2>3. CASE fn = "disable" /\ timer_start
    <3>1. SetPins([i \in Ids |-> Pattern(fn, i)])
      BY <2>3, Zenon DEF timer_start
    <3>2. [i \in Ids |-> Pattern(fn, i)] = lit
      BY <1>1, <1>2, <2>3, PatternIs
    <3>3. lit' = lit
      BY <3>1, <3>2, Zenon DEF SetPins
    <3>. QED BY <1>1, <2>1, <3>3, StaysDark
  <2>4. CASE timer_end
    <3>1. lit' = lit
      BY <2>4, Zenon DEF timer_end, pins
    <3>. QED BY <1>1, <2>1, <3>1, StaysDark
  <2>5. ASSUME control_read \/ control_xchg \/ control_act PROVE fn # "disable"
    <3>1. tick.pc \in {"read", "xchg", "act"}
      BY <2>5, Zenon DEF control_read, control_xchg, control_act
    <3>. QED BY <1>1, <3>1 DEF ModesAgree
  <2>. QED BY <1>3, <2>2, <2>3, <2>4, <2>5, Zenon DEF Timer
<1>4. ASSUME NEW m \in Modes, set_fn(m) PROVE DarkSoFar'
  <2>1. set' = [NoSet EXCEPT !.pc = "mode", !.mode = m]
    BY <1>4 DEF set_fn
  <2>2. set'.pc = "mode" /\ set'.id = 1
    BY <2>1 DEF NoSet
  <2>. QED BY <2>2 DEF DarkSoFar, SwitchedOff
<1>5. CASE set_mode
  <2>1. /\ set.pc = "mode"
        /\ set' = [set EXCEPT !.pc = "load"] \/ set' = [set EXCEPT !.pc = "off"]
    BY <1>5, Zenon DEF set_mode
  <2>2. set'.pc \in {"load", "off"} /\ set'.id = 1
    BY <1>1, <1>2, <2>1 DEF Sets, DarkSoFar
  <2>. QED BY <2>2, LedNumbers DEF DarkSoFar, SwitchedOff
<1>6. ASSUME restore_load \/ restore_xchg PROVE DarkSoFar'
  <2>1. set.pc \in {"load", "restore"} /\ SetMode /\ ~set_mode
    BY <1>6, Zenon DEF restore_load, restore_xchg, SetMode, set_mode
  <2>2. fn' = "control" /\ (set' = NoSet \/ set'.pc \in {"load", "restore"})
    BY <1>1, <2>1, SetSteps DEF ModesAgree
  <2>3. set'.pc # "mode"
    BY <2>2 DEF NoSet
  <2>. QED BY <2>2, <2>3 DEF DarkSoFar
<1>7. CASE off_bit
  <2>. DEFINE k == set.id
  <2>1. /\ set.pc = "off" /\ lit' = [lit EXCEPT ![k] = FALSE] /\ fn' = fn /\ k \in Ids
        /\ \/ set' = [set EXCEPT !.pc = "dirty"]
           \/ k = blue /\ set' = [set EXCEPT !.pc = "test"]
           \/ set' = [set EXCEPT !.id = k + 1]
    BY <1>2, <1>7, Zenon DEF off_bit, Sets
  <2>2. \/ set'.pc = "dirty" /\ set'.id = k
        \/ set'.pc = "test" /\ k = blue
        \/ set'.pc = "off" /\ set'.id = k + 1
    BY <1>2, <2>1 DEF Sets
  <2>3. lit'[k] = FALSE /\ \A j \in Ids \ {k} : lit'[j] = lit[j]
    BY <1>2, <2>1, Zenon
  <2>4. ASSUME NEW j \in Ids, SwitchedOff(j)' PROVE j = k \/ SwitchedOff(j)
    BY <2>1, <2>2, <2>4, LedNumbers DEF SwitchedOff
  <2>5. set'.pc # "mode"
    BY <2>2
  <2>. QED BY <1>1, <2>1, <2>3, <2>4, <2>5, Zenon DEF DarkSoFar
<1>8. CASE off_dirty
  <2>1. /\ set.pc = "dirty" /\ UNCHANGED <<fn, lit>> /\ set.id \in Ids
        /\ \/ set.id = blue /\ set' = [set EXCEPT !.pc = "test"]
           \/ set' = [set EXCEPT !.pc = "off", !.id = set.id + 1]
    BY <1>2, <1>8, Zenon DEF off_dirty, Sets
  <2>2. \/ set'.pc = "test" /\ set.id = blue
        \/ set'.pc = "off" /\ set'.id = set.id + 1
    BY <1>2, <2>1, Zenon DEF Sets
  <2>3. ASSUME NEW j \in Ids, SwitchedOff(j)' PROVE SwitchedOff(j)
    BY <2>1, <2>2, <2>3, LedNumbers DEF SwitchedOff
  <2>4. set'.pc # "mode"
    BY <2>2
  <2>. QED BY <1>1, <2>1, <2>3, <2>4, Zenon DEF DarkSoFar
<1>9. ASSUME flush_test \/ flush_serialize PROVE DarkSoFar'
  <2>1. /\ set.pc \in {"test", "serialize"} /\ UNCHANGED <<fn, lit>>
        /\ set' = NoSet \/ set' = [set EXCEPT !.pc = "serialize"]
    BY <1>9, Zenon DEF flush_test, flush_serialize
  <2>2. set'.pc # "mode"
    BY <1>2, <2>1 DEF NoSet, Sets
  <2>3. \A j \in Ids : SwitchedOff(j)
    BY <2>1 DEF SwitchedOff
  <2>. QED BY <1>1, <2>1, <2>2, <2>3, Zenon DEF DarkSoFar
<1>10. CASE \E i \in Commanded, s \in Commands : leds_control(i, s)
  <2>1. UNCHANGED <<fn, set, lit>>
    BY <1>10, Zenon DEF leds_control, pins
  <2>. QED BY <1>1, <2>1, StaysDark
<1>. QED BY <1>3, <1>4, <1>5, <1>6, <1>7, <1>8, <1>9, <1>10, Zenon DEF Next, SetMode

\* A step outside of a tick, and a command, changes nothing of what the tick drew.
LEMMA NotTimer ==
  ASSUME Next, ~Timer
  PROVE  UNCHANGED tick /\ (tick.pc = "idle" \/ UNCHANGED <<lit, fn>>)
<1>1. ASSUME (\E m \in Modes : set_fn(m)) \/ SetMode PROVE UNCHANGED tick /\ tick.pc = "idle"
  BY <1>1, Zenon DEF set_fn, SetMode, set_mode, restore_load, restore_xchg, off_bit, off_dirty,
       flush_test, flush_serialize, Process
<1>2. ASSUME \E i \in Commanded, s \in Commands : leds_control(i, s)
      PROVE  UNCHANGED <<tick, lit, fn>>
  BY <1>2, Zenon DEF leds_control, pins
<1>. QED BY <1>1, <1>2, Zenon DEF Next

\* The leds that blinked in a tick keep the same level.
LEMMA KeepsBlink == ASSUME Inv, Next PROVE BlinkSoFar'
<1>1. TypeOK /\ BlinkSoFar /\ tick \in Ticks
  BY Zenon DEF Inv, TypeOK, Ticks
<1>2. CASE ~Timer
  BY <1>1, <1>2, NotTimer, Zenon DEF BlinkSoFar
<1>3. ASSUME timer_start \/ timer_end PROVE BlinkSoFar'
  <2>1. \/ tick' = NoTick
        \/ tick' = [NoTick EXCEPT !.pc = "read"] \/ tick' = [NoTick EXCEPT !.pc = "end"]
    BY <1>3, Zenon DEF timer_start, timer_end
  <2>2. tick'.blinked = {}
    BY <2>1 DEF NoTick
  <2>. QED BY <2>2 DEF BlinkSoFar
<1>4. ASSUME control_read \/ control_xchg PROVE BlinkSoFar'
  <2>1. /\ lit' = lit /\ tick.pc \in {"read", "xchg"}
        /\ \/ tick' = [tick EXCEPT !.st = command[tick.id], !.pc = "xchg"]
           \/ tick' = [tick EXCEPT !.pc = "act"]
    BY <1>4, Zenon DEF control_read, control_xchg, pins
  <2>2. /\ tick'.pc \in {"xchg", "act"} /\ tick'.id = tick.id /\ tick'.sync = tick.sync
        /\ tick'.blinked = tick.blinked
    BY <1>1, <2>1, Zenon DEF Ticks
  <2>. QED BY <1>1, <2>1, <2>2, Zenon DEF BlinkSoFar
<1>5. CASE control_act
  <2>. DEFINE k == tick.id
  <2>1. /\ lit' = [lit EXCEPT ![k] = NewLevel(k, tick.st)] /\ k \in Ids /\ tick.pc = "act"
        /\ tick.st \in LedState
    BY <1>1, <1>5, Act
  <2>2. /\ lit'[k] = NewLevel(k, tick.st) /\ \A j \in Ids \ {k} : lit'[j] = lit[j]
        /\ tick.blinked \subseteq Ids
    BY <1>1, <2>1 DEF TypeOK
  <2>3. /\ \A j \in tick.blinked : j \in Ids \ {k}
        /\ \A j \in tick.blinked \cup {k} : j < k + 1
    <3>1. \A j \in tick.blinked : j \in Ids /\ j < k
      BY <1>1, <2>1, <2>2, Zenon DEF BlinkSoFar
    <3>2. k \in Int /\ \A j \in tick.blinked : j \in Int
      BY <2>1, <3>1, LedNumbers, Zenon
    <3>. HIDE DEF k
    <3>3. ASSUME NEW j \in tick.blinked PROVE j # k /\ j < k + 1
      <4>1. j \in Int /\ j < k
        BY <3>1, <3>2, Zenon
      <4>. QED BY <3>2, <4>1
    <3>4. k < k + 1
      BY <3>2
    <3>. QED BY <3>1, <3>3, <3>4, Zenon
  <2>4. \A j \in tick.blinked : lit'[j] = (tick.sync = "on")
    BY <1>1, <2>2, <2>3, Zenon DEF BlinkSoFar
  <2>5. tick'.pc # "idle" /\ (tick'.pc = "read" => tick'.id = k + 1)
    BY <1>1, <1>5, ActTick
  <2>6. CASE tick.st # "blinks"
    <3>1. tick'.sync = tick.sync /\ tick'.blinked = tick.blinked
      BY <1>1, <1>5, <2>6, ActTick
    <3>2. tick'.pc \in {"end", "read"}
      BY <1>1, <1>5, ActTick
    <3>3. tick'.pc = "read" => \A j \in tick'.blinked : j < tick'.id
      BY <2>3, <2>5, <3>1, Zenon
    <3>4. \A j \in tick'.blinked : lit'[j] = (tick'.sync = "on")
      BY <2>4, <3>1, Zenon
    <3>5. tick'.sync = "none" => tick'.blinked = {}
      BY <1>1, <3>1 DEF BlinkSoFar
    <3>. QED BY <3>2, <3>3, <3>4, <3>5, Zenon DEF BlinkSoFar
  <2>7. CASE tick.st = "blinks"
    <3>1. /\ tick'.sync = (IF Blink(k) THEN "on" ELSE "off")
          /\ tick'.blinked = tick.blinked \cup {k}
      BY <1>1, <1>5, <2>7, ActTick
    <3>2. tick'.pc \in {"end", "read"}
      BY <1>1, <1>5, ActTick
    <3>3. tick'.pc = "read" => \A j \in tick'.blinked : j < tick'.id
      BY <2>3, <2>5, <3>1, Zenon
    <3>4. lit'[k] = Blink(k) /\ lit'[k] \in BOOLEAN
      BY <1>1, <2>1, <2>2, <2>7, NewLevelIs
    <3>5. (tick'.sync = "on") = Blink(k) /\ tick'.sync # "none"
      BY <3>1, <3>4, Zenon
    <3>6. tick.blinked # {} => Blink(k) = (tick.sync = "on")
      BY <1>1, Zenon DEF BlinkSoFar, Blink
    <3>7. \A j \in tick'.blinked : lit'[j] = (tick'.sync = "on")
      BY <2>4, <3>1, <3>4, <3>5, <3>6, Zenon
    <3>. QED BY <3>2, <3>3, <3>5, <3>7, Zenon DEF BlinkSoFar
  <2>. QED BY <2>6, <2>7, Zenon
<1>. QED BY <1>2, <1>3, <1>4, <1>5, Zenon DEF Timer

-----------------------------------------------------------------------------
\* The running light is always one of the front leds.
LEMMA K2000Front == ASSUME TypeOK PROVE K2000(counter) \in Front
<1>. DEFINE n == 2 * NFront - 2
            k == counter % n
<1>1. NFront \in Nat /\ NFront >= 2 /\ n \in Nat \ {0} /\ counter \in Int
  BY LedsAssumption DEF TypeOK
<1>. HIDE DEF n
<1>2. k \in 0 .. n - 1
  BY <1>1
<1>3. K2000(counter) = IF k < NFront THEN k + 1 ELSE 2 * NFront - 1 - k
  BY DEF K2000, n
<1>. HIDE DEF k
<1>. QED BY <1>1, <1>2, <1>3 DEF n, Front

\* Each tick of an upgrade lights one front led.
LEMMA KeepsOneFront == ASSUME Inv, Next PROVE OneFrontLit'
<1>1. TypeOK /\ ModesAgree /\ OneFrontLit
  BY Zenon DEF Inv
<1>2. CASE ~Timer
  <2>1. tick' = tick
    BY <1>2, NotTimer
  <2>2. CASE tick.pc = "idle"
    BY <2>1, <2>2, Zenon DEF OneFrontLit
  <2>3. CASE UNCHANGED <<lit, fn>>
    BY <1>1, <2>1, <2>3, Zenon DEF OneFrontLit
  <2>. QED BY <1>2, <2>2, <2>3, NotTimer, Zenon
<1>3. CASE timer_start /\ fn \in {"downloading", "burning"}
  <2>. DEFINE f == [i \in Ids |-> Pattern(fn, i)]
              k == K2000(counter)
  <2>1. lit' = f
    BY <1>3, Zenon DEF timer_start, SetPins
  <2>2. k \in Front /\ red \notin Front /\ green \notin Front
    BY <1>1, K2000Front, LedsAssumption DEF Front, red, green
  <2>3. ASSUME NEW i \in Front PROVE lit'[i] = (i = k)
    <3>1. lit'[i] = Pattern(fn, i)
      BY <2>1, LedNumbers
    <3>2. Pattern(fn, i) = (i \in {k, red, green}) \/ Pattern(fn, i) = (i \in {k, red})
      <4>1. CASE fn = "downloading"  BY <4>1, Zenon DEF Pattern
      <4>2. CASE fn = "burning"  BY <4>2, Zenon DEF Pattern
      <4>. QED BY <1>3, <4>1, <4>2, Zenon
    <3>3. i # red /\ i # green
      BY <2>2
    <3>. HIDE DEF k
    <3>4. (i \in {k, red, green}) = (i = k) /\ (i \in {k, red}) = (i = k)
      BY <3>3
    <3>. QED BY <3>1, <3>2, <3>4, Zenon
  <2>. HIDE DEF f, k
  <2>. QED BY <2>2, <2>3, Zenon DEF OneFrontLit
<1>4. CASE Timer /\ ~(timer_start /\ fn \in {"downloading", "burning"})
  <2>1. fn' = fn /\ (fn \in {"downloading", "burning"} => tick'.pc # "end")
    <3>1. fn' = fn
      BY <1>1, <1>4, TimerSteps
    <3>2. ASSUME fn \in {"downloading", "burning"} PROVE tick'.pc # "end"
      <4>1. tick.pc \notin {"read", "xchg", "act"} /\ fn # "control" /\ ~timer_start
        BY <1>1, <1>4, <3>2 DEF ModesAgree
      <4>2. timer_end
        BY <1>4, <4>1, Zenon DEF Timer, control_read, control_xchg, control_act
      <4>. QED BY <4>2 DEF timer_end, NoTick
    <3>. QED BY <3>1, <3>2
  <2>. QED BY <2>1, Zenon DEF OneFrontLit
<1>. QED BY <1>2, <1>3, <1>4, Zenon DEF Timer

\* The invariant holds after leds_init ...
LEMMA InitInv == Init => Inv
<1>. SUFFICES ASSUME Init PROVE Inv
  OBVIOUS
<1>1. tick = NoTick /\ set = NoSet /\ mode = "control" /\ fn = "control" /\ dirty = FALSE
  BY DEF Init
<1>2. /\ NoTick \in Ticks /\ NoTick.pc = "idle" /\ NoTick.blinked = {}
      /\ NoSet \in Sets /\ NoSet.pc = "idle"
  BY LedNumbers DEF NoTick, NoSet, Ticks, Sets, LedState, LedMode
<1>3. Pins
  <2>1. /\ lit = [i \in Ids |-> IF i \in Front THEN i \in ActiveLow ELSE i # blue]
        /\ shown = lit
    BY DEF Init
  <2>2. ASSUME NEW i \in Ids
        PROVE  (IF i \in Front THEN i \in ActiveLow ELSE i # blue) \in BOOLEAN
    <3>1. (i \in ActiveLow) \in BOOLEAN /\ (i # blue) \in BOOLEAN  OBVIOUS
    <3>. QED BY <3>1, Zenon
  <2>3. lit \in [Ids -> BOOLEAN]
    BY <2>1, <2>2, Zenon
  <2>. QED BY <1>1, <2>1, <2>3, Zenon DEF Pins
<1>4. TypeOK
  <2>1. /\ command \in [Ids -> LedState] /\ want \in [Ids -> LedState]
        /\ state \in [Ids -> LedState \ {"unchanged"}]
    BY DEF Init, LedState
  <2>2. counter \in 0..(Period - 1) /\ mode \in LedMode /\ fn \in LedMode
    BY <1>1, LedsAssumption DEF Init, LedMode
  <2>. QED BY <1>1, <1>2, <1>3, <2>1, <2>2, Zenon DEF TypeOK, Ticks, Sets, Pins
<1>5. shown = lit
  BY DEF Init
<1>6. ModesAgree /\ BlinkSoFar /\ OneFrontLit
  BY <1>1, <1>2 DEF ModesAgree, BlinkSoFar, OneFrontLit
<1>7. FlushDue
  BY <1>1, <1>5, Zenon DEF FlushDue
<1>8. DarkSoFar
  BY <1>1, <1>2 DEF DarkSoFar
<1>. QED BY <1>4, <1>6, <1>7, <1>8, Zenon DEF Inv

\* ... and in every state after it.
THEOREM InvHolds == Spec => []Inv
<1>1. Inv /\ [Next]_vars => Inv'
  <2>1. ASSUME Inv, Next PROVE Inv'
    BY <2>1, KeepsType, KeepsModes, KeepsDue, KeepsDark, KeepsBlink, KeepsOneFront, Zenon
    DEF Inv
  <2>2. ASSUME Inv, UNCHANGED vars PROVE Inv'
    <3>1. TypeOK'
      BY <2>2, Zenon DEF Inv, vars, pins, TypeOK
    <3>2. ModesAgree' /\ FlushDue'
      BY <2>2, Zenon DEF Inv, vars, pins, ModesAgree, FlushDue
    <3>3. DarkSoFar'
      BY <2>2, Zenon DEF Inv, vars, pins, DarkSoFar, SwitchedOff
    <3>4. BlinkSoFar' /\ OneFrontLit'
      BY <2>2, Zenon DEF Inv, vars, pins, BlinkSoFar, OneFrontLit
    <3>. QED BY <3>1, <3>2, <3>3, <3>4, Zenon DEF Inv
  <2>. QED BY <2>1, <2>2, Zenon
<1>. QED BY InitInv, <1>1, PTL DEF Spec

\* The driver's records keep their types; dev->state never becomes led_state_unchanged.
THEOREM LedsTyped == Spec => []TypeOK
<1>1. Inv => TypeOK BY DEF Inv
<1>. QED BY <1>1, InvHolds, PTL

\* Whatever the wiring, no flush of the shift register is lost between the timer and
\* leds_set_mode: at rest every led shows the level it was given.
THEOREM NoFlushLost == Spec => []RegisterShown
<1>1. Inv => RegisterShown
  <2>. SUFFICES ASSUME Inv, tick.pc = "idle", set.pc = "idle" PROVE shown = lit
    BY DEF RegisterShown
  <2>1. \A i \in Ids : shown[i] = lit[i]
    BY Zenon DEF Inv, FlushDue
  <2>2. lit \in [Ids -> BOOLEAN] /\ shown \in [Ids -> BOOLEAN]
    BY Zenon DEF Inv, TypeOK
  <2>. QED BY <2>1, <2>2
<1>. QED BY <1>1, InvHolds, PTL

\* After leds_set_mode(led_mode_disable) all leds are dark, for any number of leds,
\* although the timer ran in the middle of it and commands kept coming.
THEOREM DarkWhenDisabled == Spec => []DisabledStaysDark
<1>1. Inv => DisabledStaysDark
  <2>. SUFFICES ASSUME Inv, mode = "disable", set.pc = "idle" PROVE \A i \in Ids : ~lit[i]
    BY DEF DisabledStaysDark
  <2>1. fn = "disable"
    BY DEF Inv, ModesAgree
  <2>. QED BY <2>1, Zenon DEF Inv, DarkSoFar, SwitchedOff
<1>. QED BY <1>1, InvHolds, PTL

\* Any number of blinking leds blink together, even those commanded during the tick.
THEOREM BlinkTogether == Spec => []BlinkInSync
<1>1. Inv => BlinkInSync
  BY Zenon DEF Inv, BlinkSoFar, BlinkInSync
<1>. QED BY <1>1, InvHolds, PTL

\* The running light of an upgrade is one front led, for any number of front leds.
THEOREM RunningLight == Spec => []OneFrontLit
<1>1. Inv => OneFrontLit BY DEF Inv
<1>. QED BY <1>1, InvHolds, PTL
=============================================================================
