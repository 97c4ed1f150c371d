---------------------------- MODULE DongleProofs ----------------------------
(***************************************************************************)
(* Mutual exclusion of the hotplug scripts, for any number of ttys.  That  *)
(* the script in the zone created the lock file is inductive only together *)
(* with two facts about the scripts that wait: a script about to delete    *)
(* the file found nobody or a process that has ended in it, and a process  *)
(* that has ended never runs again.  Then what the scripts leave when they *)
(* have ended: UpDown follows the links, the counts and the device, and    *)
(* shows that the outcome does not depend on the mutex.                    *)
(***************************************************************************)
EXTENDS Dongle, FiniteSetTheorems, TLAPS

\* A script that holds or has just created the lock file.
Holds(s) == InZone(s) \/ pc[s] = "echo"

Typed ==
  /\ creator \in Scripts \cup {Nobody}
  /\ pc \in [Scripts -> PC]
  /\ seen \in [Scripts -> Scripts \cup {Nobody}]
  /\ plugged \in {"no", "in", "out"}

\* The kernel starts each script once.
StartedOnce ==
  /\ plugged = "no" => \A s \in Adds : pc[s] = "new"
  /\ plugged \in {"no", "in"} => \A s \in Removes : pc[s] = "new"

\* The lock file only names scripts that run or have run.
NamesStarted ==
  /\ creator \in Scripts => pc[creator] \notin {"new", "start"}
  /\ \A s \in Scripts : seen[s] \in Scripts => pc[seen[s]] \notin {"new", "start"}

JudgedDead ==
  \A s \in Scripts : (pc[s] = "rm" /\ seen[s] \in Scripts) => pc[seen[s]] = "done"

HolderCreated == ~stolen => \A s \in Scripts : Holds(s) => creator = s

Inv == Typed /\ StartedOnce /\ NamesStarted /\ JudgedDead /\ HolderCreated

\* A script is either an add or a remove script, and Nobody is neither.
LEMMA Kinds ==
  /\ Nobody \notin Scripts
  /\ Adds \subseteq Scripts /\ Removes \subseteq Scripts
  /\ \A s \in Scripts : (s \in Adds \/ s \in Removes) /\ ~(s \in Adds /\ s \in Removes)
  BY MutexAssumption, DongleAssumption DEF Adds, Removes

\* A command outside of mutex_lock takes its script on and leaves the lock file alone.
LEMMA Command ==
  ASSUME Inv, NEW s \in Scripts, NEW l \in PC \ {"new", "start", "echo", "rm"},
         pc[s] \notin {"new", "done"}, Goto(s, l), UNCHANGED <<creator, seen, stolen, plugged>>,
         InZone(s)' => Holds(s)
  PROVE  Inv'
<1>1. /\ pc' = [pc EXCEPT ![s] = l] /\ UNCHANGED <<creator, seen, stolen, plugged>>
  BY DEF Goto
<1>2. pc'[s] = l /\ \A t \in Scripts \ {s} : pc'[t] = pc[t]
  BY <1>1 DEF Inv, Typed
<1>3. Typed'
  BY <1>1 DEF Inv, Typed
<1>4. StartedOnce' /\ NamesStarted' /\ JudgedDead'
  BY <1>1, <1>2, Kinds DEF Inv, Typed, StartedOnce, NamesStarted, JudgedDead
<1>5. \A t \in Scripts : Holds(t)' => Holds(t)
  BY <1>2 DEF Holds, InZone
<1>. QED BY <1>1, <1>3, <1>4, <1>5 DEF Inv, HolderCreated

\* mutex_lock keeps the invariant; deleting a stale file is the step that needs
\* JudgedDead.
LEMMA LockInv == ASSUME Inv, NEW s \in Scripts, Lock(s) PROVE Inv'
<1>. USE DEF Goto, mVars
<1>1. UNCHANGED plugged
  BY DEF Lock, dVars
<1>2. CASE lock_create(s) /\ creator = Nobody
  <2>1. pc[s] = "lock" /\ creator' = s /\ pc' = [pc EXCEPT ![s] = "echo"]
    BY <1>2 DEF lock_create
  <2>2. UNCHANGED <<seen, stolen>>
    BY <1>2 DEF lock_create
  <2>3. pc'[s] = "echo" /\ \A t \in Scripts \ {s} : pc'[t] = pc[t]
    BY <2>1 DEF Inv, Typed
  <2>4. Typed' /\ StartedOnce' /\ NamesStarted' /\ JudgedDead'
    BY <1>1, <2>1, <2>2, <2>3, Kinds
    DEF Inv, Typed, StartedOnce, NamesStarted, JudgedDead, PC
  <2>5. \A t \in Scripts \ {s} : Holds(t)' => Holds(t)
    BY <2>3 DEF Holds, InZone
  <2>6. HolderCreated'
    BY <1>2, <2>1, <2>2, <2>5, Kinds DEF Inv, HolderCreated
  <2>. QED BY <2>4, <2>6 DEF Inv
<1>3. CASE lock_create(s) /\ creator # Nobody
  BY <1>1, <1>3, Command DEF lock_create, InZone, Holds, PC, Inv, Typed
<1>4. CASE lock_echo(s)
  BY <1>1, <1>4, Command, Zenon DEF lock_echo, Holds, PC
<1>5. CASE lock_cat(s)
  <2>1. /\ pc[s] = "cat" /\ pc' = [pc EXCEPT ![s] = "kill"]
        /\ seen' = [seen EXCEPT ![s] = Owner] /\ UNCHANGED <<creator, stolen>>
    BY <1>5 DEF lock_cat
  <2>2. pc'[s] = "kill" /\ \A t \in Scripts \ {s} : pc'[t] = pc[t]
    BY <2>1 DEF Inv, Typed
  <2>3. /\ Owner \in {creator, Nobody} /\ seen'[s] = Owner
        /\ \A t \in Scripts \ {s} : seen'[t] = seen[t]
    BY <2>1 DEF Inv, Typed, Owner
  <2>4. Typed'
    BY <1>1, <2>1, <2>3 DEF Inv, Typed, PC
  <2>5. StartedOnce' /\ NamesStarted' /\ JudgedDead'
    BY <1>1, <2>1, <2>2, <2>3, Kinds DEF Inv, Typed, StartedOnce, NamesStarted, JudgedDead
  <2>6. \A t \in Scripts : Holds(t)' => Holds(t)
    BY <2>2 DEF Holds, InZone
  <2>. QED BY <2>1, <2>4, <2>5, <2>6 DEF Inv, HolderCreated
<1>6. CASE lock_kill(s)
  <2>1. pc[s] = "kill" /\ UNCHANGED <<creator, stolen>>
    BY <1>6 DEF lock_kill
  <2>2. CASE seen[s] # Nobody /\ Alive(seen[s])
    <3>1. pc' = [pc EXCEPT ![s] = "lock"] /\ seen' = [seen EXCEPT ![s] = Nobody]
      BY <1>6, <2>2 DEF lock_kill, Forget
    <3>2. pc'[s] = "lock" /\ \A t \in Scripts \ {s} : pc'[t] = pc[t]
      BY <3>1 DEF Inv, Typed
    <3>3. Typed' /\ StartedOnce' /\ NamesStarted' /\ JudgedDead'
      BY <1>1, <2>1, <3>1, <3>2, Kinds
      DEF Inv, Typed, StartedOnce, NamesStarted, JudgedDead, PC
    <3>4. \A t \in Scripts : Holds(t)' => Holds(t)
      BY <3>2 DEF Holds, InZone
    <3>. QED BY <2>1, <3>3, <3>4 DEF Inv, HolderCreated
  <2>3. CASE seen[s] = Nobody \/ ~Alive(seen[s])
    <3>1. pc' = [pc EXCEPT ![s] = "rm"] /\ UNCHANGED seen
      BY <1>6, <2>3 DEF lock_kill
    <3>2. pc'[s] = "rm" /\ \A t \in Scripts \ {s} : pc'[t] = pc[t]
      BY <3>1 DEF Inv, Typed
    <3>3. seen[s] \in Scripts => pc[seen[s]] = "done"
      BY <2>3, Kinds DEF Inv, NamesStarted, Alive
    <3>4. Typed' /\ StartedOnce' /\ NamesStarted' /\ JudgedDead'
      BY <1>1, <2>1, <3>1, <3>2, <3>3, Kinds
      DEF Inv, Typed, StartedOnce, NamesStarted, JudgedDead, PC
    <3>5. \A t \in Scripts : Holds(t)' => Holds(t)
      BY <3>2 DEF Holds, InZone
    <3>. QED BY <2>1, <3>4, <3>5 DEF Inv, HolderCreated
  <2>. QED BY <2>2, <2>3
<1>7. CASE lock_rm(s)
  <2>1. /\ pc[s] = "rm" /\ pc' = [pc EXCEPT ![s] = "lock"] /\ creator' = Nobody
        /\ stolen' = (stolen \/ creator \notin {Nobody, seen[s]})
        /\ seen' = [seen EXCEPT ![s] = Nobody]
    BY <1>7 DEF lock_rm, Delete, Forget
  <2>2. pc'[s] = "lock" /\ \A t \in Scripts \ {s} : pc'[t] = pc[t]
    BY <2>1 DEF Inv, Typed
  <2>3. Typed' /\ StartedOnce' /\ NamesStarted' /\ JudgedDead'
    BY <1>1, <2>1, <2>2, Kinds DEF Inv, Typed, StartedOnce, NamesStarted, JudgedDead, PC
  <2>4. \A t \in Scripts : Holds(t)' => Holds(t)
    BY <2>2 DEF Holds, InZone
  <2>5. ASSUME ~stolen', NEW t \in Scripts, Holds(t) PROVE FALSE
    <3>1. ~stolen /\ creator \in {Nobody, seen[s]}
      BY <2>1, <2>5, Zenon
    <3>2. creator = t /\ seen[s] = t
      BY <2>5, <3>1, Kinds DEF Inv, HolderCreated
    <3>3. pc[t] = "done"
      BY <2>1, <3>2 DEF Inv, JudgedDead
    <3>. QED BY <2>5, <3>3 DEF Holds, InZone
  <2>6. HolderCreated'
    BY <2>4, <2>5 DEF HolderCreated
  <2>. QED BY <2>3, <2>6 DEF Inv
<1>. QED BY <1>2, <1>3, <1>4, <1>5, <1>6, <1>7 DEF Lock, mutex_lock

\* mutex_unlock keeps it: the file goes while its creator still holds it.
LEMMA UnlockInv == ASSUME Inv, NEW s \in Scripts, Unlock(s) PROVE Inv'
<1>1. UNCHANGED plugged
  BY DEF Unlock, dVars
<1>2. CASE unlock_test(s)
  <2>1. /\ pc[s] = "unlock" /\ UNCHANGED <<creator, seen, stolen>>
        /\ Goto(s, "unlink") \/ Goto(s, "out")
    BY <1>2 DEF unlock_test, mVars
  <2>2. Holds(s)
    BY <2>1 DEF Holds, InZone
  <2>. QED BY <1>1, <2>1, <2>2, Command DEF PC
<1>3. CASE unlock_rm(s)
  <2>1. /\ pc[s] = "unlink" /\ pc' = [pc EXCEPT ![s] = "out"] /\ creator' = Nobody
        /\ UNCHANGED <<seen, stolen>>
    BY <1>3 DEF unlock_rm, Delete, Goto
  <2>2. pc'[s] = "out" /\ \A t \in Scripts \ {s} : pc'[t] = pc[t]
    BY <2>1 DEF Inv, Typed
  <2>3. Typed' /\ StartedOnce' /\ NamesStarted' /\ JudgedDead'
    BY <1>1, <2>1, <2>2, Kinds DEF Inv, Typed, StartedOnce, NamesStarted, JudgedDead, PC
  <2>4. Holds(s) /\ ~Holds(s)' /\ \A t \in Scripts \ {s} : Holds(t)' => Holds(t)
    BY <2>1, <2>2 DEF Holds, InZone
  <2>5. HolderCreated'
    BY <2>1, <2>4 DEF Inv, HolderCreated
  <2>. QED BY <2>3, <2>5 DEF Inv
<1>. QED BY <1>2, <1>3 DEF Unlock, mutex_unlock

\* The commands of the script itself keep it, inside the zone and after it.
LEMMA CommandInv ==
  ASSUME Inv, NEW s \in Scripts, count(s) \/ AddStep(s) \/ RemoveStep(s)
  PROVE  Inv'
<1>1. UNCHANGED <<creator, seen, stolen, plugged>>
  BY DEF count, AddStep, RemoveStep, add_start, add_mkdir, add_ln, add_last, add_profile,
         add_available, add_run, remove_start, remove_rm, remove_get, remove_unavailable,
         remove_unknown, remove_run, remove_last, Keep, mVars, dVars
<1>2. \E l \in PC \ {"new", "start", "echo", "rm"} :
        /\ pc[s] \notin {"new", "done"} /\ Goto(s, l)
        /\ l \in {"ln", "ls", "get", "unavailable", "unknown", "unlock"}
             => pc[s] \in {"in", "ln", "ls", "get", "unavailable", "unknown"}
        /\ l # "in" /\ l # "unlink"
        /\ l = "run" => s \in Adds \/ pc[s] = "unknown"
  <2>1. CASE count(s)
    <3>1. pc[s] = "ls" /\ (Goto(s, "unlock") \/ Goto(s, "get"))
      BY <2>1 DEF count
    <3>. QED BY <3>1 DEF PC
  <2>2. CASE AddStep(s)
    <3>1. \/ pc[s] = "start" /\ (Goto(s, "lock") \/ Goto(s, "done"))
          \/ pc[s] = "in" /\ Goto(s, "ln")
          \/ pc[s] = "ln" /\ Goto(s, "ls")
          \/ pc[s] = "out" /\ (Goto(s, "profile") \/ Goto(s, "done"))
          \/ pc[s] = "profile" /\ Goto(s, "available")
          \/ s \in Adds /\ pc[s] = "available" /\ Goto(s, "run")
          \/ pc[s] = "run" /\ Goto(s, "done")
      BY <2>2 DEF AddStep, add_start, add_mkdir, add_ln, add_last, add_profile,
                  add_available, add_run
    <3>. QED BY <3>1 DEF PC
  <2>3. CASE RemoveStep(s)
    BY <2>3 DEF RemoveStep, remove_start, remove_rm, remove_get, remove_unavailable,
         remove_unknown, remove_run, remove_last, PC
  <2>. QED BY <2>1, <2>2, <2>3
<1>3. PICK l \in PC \ {"new", "start", "echo", "rm"} :
        /\ pc[s] \notin {"new", "done"} /\ Goto(s, l)
        /\ l \in {"ln", "ls", "get", "unavailable", "unknown", "unlock"}
             => pc[s] \in {"in", "ln", "ls", "get", "unavailable", "unknown"}
        /\ l # "in" /\ l # "unlink"
        /\ l = "run" => s \in Adds \/ pc[s] = "unknown"
  BY <1>2
<1>4. pc'[s] = l
  BY <1>3 DEF Goto, Inv, Typed
<1>5. InZone(s)' => Holds(s)
  BY <1>3, <1>4, Kinds DEF InZone, Holds
<1>. QED BY <1>1, <1>3, <1>5, Command

\* A dongle plugged or unplugged starts scripts that did not run yet.
LEMMA PlugInv == ASSUME Inv, plug \/ unplug PROVE Inv'
<1>1. PICK S \in {Adds, Removes} :
        /\ Spawn(S) /\ \A s \in S : pc[s] = "new"
        /\ \/ S = Adds /\ plugged = "no" /\ plugged' = "in"
           \/ S = Removes /\ plugged = "in" /\ plugged' = "out"
  BY DEF plug, unplug, Inv, StartedOnce
<1>2. UNCHANGED <<creator, seen, stolen>>
  BY DEF plug, unplug, Keep, mVars
<1>3. \A s \in Scripts : pc'[s] = IF s \in S THEN "start" ELSE pc[s]
  BY <1>1 DEF Spawn
<1>4. Typed'
  BY <1>1, <1>2 DEF Spawn, Inv, Typed, PC
<1>5. StartedOnce' /\ NamesStarted' /\ JudgedDead'
  BY <1>1, <1>2, <1>3, Kinds DEF Inv, Typed, StartedOnce, NamesStarted, JudgedDead
<1>6. \A t \in Scripts : Holds(t)' => Holds(t)
  BY <1>3 DEF Holds, InZone
<1>. QED BY <1>2, <1>4, <1>5, <1>6 DEF Inv, HolderCreated

\* The inductive invariant holds in every state of the scripts.
THEOREM InvHolds == Spec => []Inv
<1>1. Init => Inv
  BY Kinds DEF Init, MutexInit, Inv, Typed, StartedOnce, NamesStarted, JudgedDead,
               HolderCreated, Holds, InZone, PC
<1>2. Inv /\ [Next]_vars => Inv'
  <2>1. CASE UNCHANGED vars
    BY <2>1 DEF vars, mVars, dVars, Inv, Typed, StartedOnce, NamesStarted, JudgedDead,
                HolderCreated, Holds, InZone
  <2>. QED BY <2>1, LockInv, UnlockInv, CommandInv, PlugInv DEF Next, Step
<1>. QED BY <1>1, <1>2, PTL DEF Spec

\* However many ttys a dongle has, two scripts are in the protected zone at once only after
\* a waiting script has deleted another lock file than the one it found stale.
THEOREM ZoneProtected == Spec => []ProtectedZone
<1>1. Inv => ProtectedZone
  BY DEF Inv, HolderCreated, Holds, ProtectedZone
<1>. QED BY <1>1, InvHolds, PTL

------------------------------------------------------------------------------
\* What the commands do to the links and the device, which the mutex has no part in.
\* An add script that counts all the ttys ...
Full(s) == nb[s] = Cardinality(Tty)

\* ... has counted ...
Counted == {"unlock", "unlink", "out", "profile", "available", "run", "done"}

\* ... and a script that has not come that far has touched nothing.
Before == {"new", "start", "lock", "echo", "cat", "kill", "rm", "in"}

Recorded ==
  links \subseteq Tty /\ nb \in [Scripts -> Nat] /\ device \in {"available", "unavailable"}

\* Until the dongle is unplugged links are only made: whoever counts last counts all.
Up(s) ==
  /\ pc[s] = "ln" => dir
  /\ pc[s] \in Counted \cup {"ls"} => s[2] \in links
  /\ Full(s) => links = Tty /\ pc[s] \in Counted
  /\ pc[s] \in {"profile", "available", "run"} => Full(s)
  /\ pc[s] \in {"available", "run"} => profile
  /\ pc[s] = "run" => device = "available"
  /\ pc[s] = "done" /\ Full(s) => profile /\ device = "available" /\ backup = "start"

SomeFull ==
  (device = "available" \/ \A s \in Adds : pc[s] \in Counted) => \E s \in Adds : Full(s)

ComingUp == plugged # "out" => SomeFull /\ \A s \in Adds : Up(s)

\* Then, if the add scripts have ended, the links go and the first script that looks finds
\* the device available: one that finds it unavailable leaves the rest to another.
Down(s) ==
  /\ pc[s] \notin Before => s[2] \notin links
  /\ pc[s] \in Counted \cup {"unknown"} => device = "unavailable"

GoingDown ==
  plugged = "out" /\ Settled =>
    /\ Done(Adds) /\ \A s \in Removes : Down(s)
    /\ device = "unavailable" /\ profile => \E s \in Removes : pc[s] = "unknown"
    /\ device = "unavailable" /\ backup # "stop" =>
         \E s \in Removes : pc[s] \in {"unknown", "run"}

UpDown == Recorded /\ ComingUp /\ GoingDown

\* One add and one remove script per tty, and at least one tty.
LEMMA Ttys ==
  /\ \A s \in Scripts : s[2] \in Tty
  /\ \A t \in Tty : /\ \E s \in Adds : s[2] = t
                    /\ \E s \in Removes : s[2] = t
  /\ Adds # {} /\ Removes # {}
<1>1. \A t \in Tty : <<"add", t>> \in Adds /\ <<"remove", t>> \in Removes
  BY DongleAssumption DEF Adds, Removes
<1>2. \A s \in Scripts : s[2] \in Tty
  BY DongleAssumption
<1>3. PICK t : t \in Tty
  BY DongleAssumption
<1>. QED BY <1>1, <1>2, <1>3, Zenon

\* ls | wc -l gives the number of ttys only when all of them are linked.
LEMMA CountsAll ==
  ASSUME NEW S \in SUBSET Tty
  PROVE  /\ Cardinality(S) \in Nat /\ Cardinality(Tty) \in Nat \ {0}
         /\ Cardinality(S) = Cardinality(Tty) <=> S = Tty
<1>1. IsFiniteSet(Tty) /\ Tty # {}
  BY DongleAssumption
<1>2. Cardinality(Tty) # 0
  BY <1>1, FS_EmptySet
<1>. QED BY <1>1, <1>2, FS_Subset, FS_CardinalityType

\* Inside mutex_lock and mutex_unlock a script touches neither links nor device.
LEMMA Aside ==
  ASSUME Inv, UpDown, NEW s \in Scripts, NEW l, Goto(s, l), UNCHANGED dVars,
         \/ pc[s] \in Before /\ l \in Before
         \/ pc[s] \in {"unlock", "unlink"} /\ l \in {"unlink", "out"}
  PROVE  UpDown'
<1>1. pc'[s] = l /\ \A t \in Scripts \ {s} : pc'[t] = pc[t]
  BY DEF Goto, Inv, Typed
<1>2. Recorded'
  BY DEF UpDown, Recorded, dVars
<1>3. \A t \in Scripts : Full(t)' <=> Full(t)
  BY DEF Full, dVars
<1>4. ComingUp'
  <2>. SUFFICES ASSUME plugged # "out" PROVE SomeFull' /\ \A t \in Adds : Up(t)'
    BY DEF ComingUp, dVars
  <2>1. SomeFull'
    <3>1. (\A t \in Adds : pc'[t] \in Counted) => \A t \in Adds : pc[t] \in Counted
      BY <1>1, Kinds DEF Counted, Before
    <3>. QED BY <1>3, <3>1, Kinds DEF UpDown, ComingUp, SomeFull, dVars
  <2>2. ASSUME NEW t \in Adds PROVE Up(t)'
    <3>1. Up(t) /\ t \in Scripts
      BY <2>2, Kinds DEF UpDown, ComingUp
    <3>2. pc'[t] \in Counted \cup {"ls"} => pc[t] \in Counted \cup {"ls"}
      BY <1>1, <3>1 DEF Counted, Before
    <3>3. pc[t] \in Counted => pc'[t] \in Counted
      BY <1>1, <3>1 DEF Counted, Before
    <3>4. pc'[t] \in {"ln", "profile", "available", "run", "done"} => pc[t] = pc'[t]
      BY <1>1, <3>1 DEF Before
    <3>. QED BY <1>3, <3>1, <3>2, <3>3, <3>4 DEF Up, dVars
  <2>. QED BY <2>1, <2>2
<1>5. GoingDown'
  <2>. SUFFICES ASSUME plugged = "out", Settled, GoingDown PROVE GoingDown'
    BY DEF UpDown, GoingDown, dVars
  <2>1. ASSUME NEW t \in Scripts PROVE pc[t] \in {"done", "unknown", "run"} <=> pc'[t] \in {"done", "unknown", "run"}
    BY <1>1 DEF Before
  <2>2. \A t \in Scripts : pc[t] \in {"done", "unknown", "run"} => pc'[t] = pc[t]
    BY <1>1 DEF Before
  <2>3. ASSUME NEW t \in Removes PROVE Down(t)'
    <3>1. Down(t) /\ t \in Scripts
      BY Kinds DEF GoingDown
    <3>2. pc'[t] \in Before <=> pc[t] \in Before
      BY <1>1, <3>1 DEF Before
    <3>3. pc'[t] \in Counted \cup {"unknown"} => pc[t] \in Counted \cup {"unknown"}
      BY <1>1, <3>1 DEF Counted, Before
    <3>. QED BY <3>1, <3>2, <3>3 DEF Down, dVars
  <2>. QED BY <2>1, <2>2, <2>3, Kinds DEF GoingDown, Done, dVars
<1>. QED BY <1>2, <1>4, <1>5 DEF UpDown

\* An add script runs before the end of all add scripts, a remove script after the unplugging.
LEMMA AddsFirst ==
  ASSUME Inv, NEW s \in Scripts, pc[s] \notin {"new", "done"}, UNCHANGED plugged
  PROVE  /\ s \in Adds /\ UpDown => GoingDown'
         /\ s \in Removes => ComingUp' /\ plugged = "out"
<1>1. s \in Adds /\ UpDown => ~(plugged = "out" /\ Settled)
  BY DEF UpDown, GoingDown, Done
<1>2. s \in Removes => plugged = "out"
  BY DEF Inv, Typed, StartedOnce
<1>. QED BY <1>1, <1>2 DEF GoingDown, ComingUp

\* An add script keeps UpDown as long as it makes links and nothing goes.
LEMMA AddKeeps ==
  ASSUME Inv, UpDown, NEW s \in Adds, NEW l, Goto(s, l), pc[s] \notin {"new", "done"},
         UNCHANGED plugged, Recorded', links \subseteq links', dir => dir', profile => profile',
         device = "available" => device' = "available", backup = "start" => backup' = "start",
         \A t \in Scripts \ {s} : nb'[t] = nb[t],
         plugged # "out" =>
           /\ Up(s)' /\ (Full(s) => Full(s)')
           /\ (device' = "available" => device = "available" \/ Full(s)')
           /\ (l \in Counted => pc[s] \in Counted \/ SomeFull')
  PROVE  UpDown'
<1>1. s \in Scripts /\ pc'[s] = l /\ \A t \in Scripts \ {s} : pc'[t] = pc[t]
  BY Kinds DEF Goto, Inv, Typed
<1>2. GoingDown'
  BY <1>1, AddsFirst
<1>3. \A t \in Scripts \ {s} : Full(t)' <=> Full(t)
  BY DEF Full
<1>4. ComingUp'
  <2>. SUFFICES ASSUME plugged # "out" PROVE SomeFull' /\ \A t \in Adds : Up(t)'
    BY DEF ComingUp
  <2>1. SomeFull'
    <3>1. ASSUME ~SomeFull' PROVE FALSE
      <4>1. /\ device' = "available" \/ \A t \in Adds : pc'[t] \in Counted
            /\ \A t \in Adds : ~Full(t)'
        BY <3>1 DEF SomeFull
      <4>2. \A t \in Adds : ~Full(t)
        BY <1>3, <4>1, Kinds
      <4>3. device = "available" \/ \A t \in Adds : pc[t] \in Counted
        BY <1>1, <3>1, <4>1, Kinds
      <4>. QED BY <4>2, <4>3 DEF UpDown, ComingUp, SomeFull
    <3>. QED BY <3>1
  <2>2. ASSUME NEW t \in Adds, t # s PROVE Up(t)'
    <3>1. Up(t) /\ t \in Scripts \ {s}
      BY <2>2, Kinds DEF UpDown, ComingUp
    <3>2. links \subseteq Tty /\ links' \subseteq Tty
      BY DEF UpDown, Recorded
    <3>. QED BY <1>1, <1>3, <3>1, <3>2 DEF Up
  <2>. QED BY <2>1, <2>2
<1>. QED BY <1>2, <1>4 DEF UpDown

\* The commands of an add script: the one that counts last finds every link.
LEMMA AddUpDown ==
  ASSUME Inv, UpDown, NEW s \in Adds, count(s) \/ AddStep(s)
  PROVE  UpDown'
<1>0. s \in Scripts /\ s[2] \in Tty /\ s \notin Removes
  BY Kinds, Ttys
<1>1. Recorded /\ (plugged # "out" => Up(s) /\ SomeFull)
  BY DEF UpDown, ComingUp
<1>2. Cardinality(Tty) \in Nat \ {0} /\ Cardinality(links) \in Nat
      /\ (Cardinality(links) = Cardinality(Tty) <=> links = Tty)
  BY <1>1, CountsAll DEF Recorded
<1>3. \A l : Goto(s, l) => pc'[s] = l
  BY <1>0 DEF Goto, Inv, Typed
<1>4. CASE add_start(s)
  <2>1. /\ pc[s] = "start" /\ UNCHANGED dVars
        /\ \/ Goto(s, "lock")
           \/ device = "available" /\ Goto(s, "done")
    BY <1>1, <1>4 DEF add_start, Recorded
  <2>2. CASE Goto(s, "lock")
    BY <1>0, <2>1, <2>2, Aside DEF Before
  <2>3. CASE device = "available" /\ Goto(s, "done")
    <3>1. plugged # "out" => ~Full(s)
      BY <1>1, <2>1 DEF Up, Counted
    <3>2. plugged # "out" => SomeFull' /\ links = Tty
      <4>1. ASSUME plugged # "out" PROVE \E t \in Adds : Full(t) /\ Up(t)
        BY <1>1, <2>3, <4>1 DEF SomeFull, UpDown, ComingUp
      <4>. QED BY <2>1, <4>1 DEF SomeFull, Full, Up, dVars
    <3>3. plugged # "out" => Up(s)'
      BY <1>0, <1>3, <2>1, <2>3, <3>1, <3>2 DEF Up, Full, dVars, Counted
    <3>. QED BY <1>1, <2>1, <2>3, <3>1, <3>2, <3>3, AddKeeps DEF dVars, Recorded
  <2>. QED BY <2>1, <2>2, <2>3
<1>5. CASE add_mkdir(s)
  <2>1. /\ pc[s] = "in" /\ Goto(s, "ln") /\ dir'
        /\ UNCHANGED <<plugged, links, nb, device, profile, backup>>
    BY <1>5 DEF add_mkdir
  <2>2. plugged # "out" => ~Full(s) /\ Up(s)'
    BY <1>1, <1>3, <2>1 DEF Up, Full, Counted
  <2>. QED BY <1>1, <2>1, <2>2, AddKeeps DEF Recorded, Counted
<1>6. CASE add_ln(s)
  <2>1. /\ pc[s] = "ln" /\ Goto(s, "ls") /\ links' = IF dir THEN links \cup {s[2]} ELSE links
        /\ UNCHANGED <<plugged, dir, nb, device, profile, backup>>
    BY <1>6 DEF add_ln
  <2>2. plugged # "out" => ~Full(s) /\ Up(s)'
    BY <1>1, <1>3, <2>1 DEF Up, Full, Counted
  <2>3. Recorded'
    BY <1>0, <1>1, <2>1 DEF Recorded
  <2>. QED BY <1>1, <2>1, <2>2, <2>3, AddKeeps DEF Counted
<1>7. CASE count(s)
  <2>1. /\ pc[s] = "ls" /\ Goto(s, "unlock") /\ nb' = [nb EXCEPT ![s] = Cardinality(links)]
        /\ UNCHANGED <<plugged, dir, links, device, profile, backup>>
    BY <1>7 DEF count
  <2>2. /\ nb'[s] = Cardinality(links) /\ \A t \in Scripts \ {s} : nb'[t] = nb[t]
        /\ Recorded'
    BY <1>0, <1>1, <1>2, <2>1 DEF Recorded
  <2>3. plugged # "out" => ~Full(s) /\ Up(s)'
    BY <1>1, <1>2, <1>3, <2>1, <2>2 DEF Up, Full, Counted
  <2>4. plugged # "out" => SomeFull'
    <3>. SUFFICES ASSUME plugged # "out",
                         device' = "available" \/ \A t \in Adds : pc'[t] \in Counted
                  PROVE  \E t \in Adds : Full(t)'
      BY DEF SomeFull
    <3>1. CASE device' = "available"
      <4>1. PICK t \in Adds : Full(t)
        BY <1>1, <2>1, <3>1 DEF SomeFull
      <4>. QED BY <2>2, <2>3, <4>1, Kinds DEF Full
    <3>2. CASE \A t \in Adds : pc'[t] \in Counted
      <4>1. \A t \in Adds : t[2] \in links
        <5>1. ASSUME NEW t \in Adds PROVE pc[t] \in Counted \cup {"ls"}
          BY <1>0, <2>1, <3>2, Kinds DEF Goto, Inv, Typed
        <5>. QED BY <5>1 DEF UpDown, ComingUp, Up
      <4>2. links = Tty
        BY <1>1, <4>1, Ttys, Zenon DEF Recorded
      <4>. QED BY <2>2, <4>2 DEF Full
    <3>. QED BY <3>1, <3>2
  <2>. QED BY <1>1, <2>1, <2>2, <2>3, <2>4, AddKeeps
<1>8. CASE add_last(s)
  <2>1. /\ pc[s] = "out" /\ UNCHANGED dVars
        /\ \/ Goto(s, "profile") /\ Full(s)
           \/ Goto(s, "done") /\ ~Full(s)
    BY <1>8 DEF add_last, Full
  <2>2. plugged # "out" => Up(s)'
    BY <1>1, <1>3, <2>1 DEF Up, Full, Counted, dVars
  <2>. QED BY <1>1, <2>1, <2>2, AddKeeps DEF Recorded, dVars, Full, Counted
<1>9. CASE add_profile(s)
  <2>1. /\ pc[s] = "profile" /\ Goto(s, "available") /\ profile'
        /\ UNCHANGED <<plugged, dir, links, nb, device, backup>>
    BY <1>9 DEF add_profile
  <2>2. plugged # "out" => Up(s)'
    BY <1>1, <1>3, <2>1 DEF Up, Full, Counted
  <2>. QED BY <1>1, <2>1, <2>2, AddKeeps DEF Recorded, Full, Counted
<1>10. CASE add_available(s)
  <2>1. /\ pc[s] = "available" /\ Goto(s, "run") /\ device' = "available"
        /\ UNCHANGED <<plugged, dir, links, nb, profile, backup>>
    BY <1>10 DEF add_available
  <2>2. plugged # "out" => Up(s)' /\ Full(s)'
    BY <1>1, <1>3, <2>1 DEF Up, Full, Counted
  <2>. QED BY <1>1, <2>1, <2>2, AddKeeps DEF Recorded, Counted
<1>11. CASE add_run(s)
  <2>1. /\ pc[s] = "run" /\ Goto(s, "done") /\ backup' = "start"
        /\ UNCHANGED <<plugged, dir, links, nb, device, profile>>
    BY <1>11 DEF add_run
  <2>2. plugged # "out" => Up(s)'
    BY <1>1, <1>3, <2>1 DEF Up, Full, Counted
  <2>. QED BY <1>1, <2>1, <2>2, AddKeeps DEF Recorded, Full, Counted
<1>. QED BY <1>4, <1>5, <1>6, <1>7, <1>8, <1>9, <1>10, <1>11 DEF AddStep

\* A remove script keeps UpDown as long as no link is made and the device stays unavailable.
LEMMA RemoveKeeps ==
  ASSUME Inv, UpDown, NEW s \in Removes, NEW l, Goto(s, l), pc[s] \notin {"new", "done"},
         UNCHANGED plugged, Recorded', links' \subseteq links,
         device = "unavailable" => device' = "unavailable",
         plugged = "out" /\ Settled =>
           /\ Down(s)'
           /\ device' = "unavailable" /\ profile' =>
                pc'[s] = "unknown" \/ (device = "unavailable" /\ profile /\ pc[s] # "unknown")
           /\ device' = "unavailable" /\ backup' # "stop" =>
                \/ pc'[s] \in {"unknown", "run"}
                \/ device = "unavailable" /\ backup # "stop" /\ pc[s] \notin {"unknown", "run"}
  PROVE  UpDown'
<1>1. s \in Scripts /\ s \notin Adds /\ pc'[s] = l /\ \A t \in Scripts \ {s} : pc'[t] = pc[t]
  BY Kinds DEF Goto, Inv, Typed
<1>2. ComingUp'
  BY <1>1, AddsFirst
<1>3. GoingDown'
  <2>. SUFFICES ASSUME plugged = "out", Settled PROVE GoingDown'
    BY DEF GoingDown
  <2>1. Done(Adds)'
    BY <1>1, Kinds DEF UpDown, GoingDown, Done
  <2>2. ASSUME NEW t \in Removes, t # s PROVE Down(t)'
    <3>1. Down(t) /\ t \in Scripts \ {s}
      BY <2>2, Kinds DEF UpDown, GoingDown
    <3>. QED BY <1>1, <3>1 DEF Down
  <2>3. device' = "unavailable" /\ profile' => \E t \in Removes : pc'[t] = "unknown"
    BY <1>1, Kinds DEF UpDown, GoingDown
  <2>4. device' = "unavailable" /\ backup' # "stop" =>
          \E t \in Removes : pc'[t] \in {"unknown", "run"}
    BY <1>1, Kinds DEF UpDown, GoingDown
  <2>. QED BY <2>1, <2>2, <2>3, <2>4 DEF GoingDown
<1>. QED BY <1>2, <1>3 DEF UpDown

\* The commands of a remove script.
LEMMA RemoveUpDown ==
  ASSUME Inv, UpDown, NEW s \in Removes, count(s) \/ RemoveStep(s)
  PROVE  UpDown'
<1>0. s \in Scripts /\ s[2] \in Tty /\ s \notin Adds
  BY Kinds, Ttys
<1>1. Recorded /\ (plugged = "out" /\ Settled => Down(s))
  BY DEF UpDown, GoingDown
<1>2. Cardinality(links) \in Nat
  BY <1>1, CountsAll DEF Recorded
<1>3. \A l : Goto(s, l) => pc'[s] = l
  BY <1>0 DEF Goto, Inv, Typed
<1>4. CASE remove_start(s)
  BY <1>0, <1>4, Aside DEF remove_start, Before
<1>5. CASE remove_rm(s)
  <2>1. /\ pc[s] = "in" /\ Goto(s, "ls") /\ links' = links \ {s[2]}
        /\ UNCHANGED <<plugged, dir, nb, device, profile, backup>>
    BY <1>5 DEF remove_rm
  <2>2. Recorded' /\ Down(s)'
    BY <1>1, <1>3, <2>1 DEF Recorded, Down, Counted
  <2>. QED BY <1>3, <2>1, <2>2, RemoveKeeps
<1>6. CASE count(s)
  <2>1. /\ pc[s] = "ls" /\ Goto(s, "get") /\ nb' = [nb EXCEPT ![s] = Cardinality(links)]
        /\ UNCHANGED <<plugged, dir, links, device, profile, backup>>
    BY <1>0, <1>6 DEF count
  <2>2. Recorded' /\ (plugged = "out" /\ Settled => Down(s)')
    BY <1>1, <1>2, <1>3, <2>1, Zenon DEF Recorded, Down, Counted, Before
  <2>. QED BY <1>3, <2>1, <2>2, RemoveKeeps
<1>7. CASE remove_get(s)
  <2>1. /\ pc[s] = "get" /\ UNCHANGED dVars
        /\ \/ Goto(s, "unavailable")
           \/ device = "unavailable" /\ Goto(s, "unlock")
    BY <1>1, <1>7 DEF remove_get, Recorded
  <2>2. Recorded' /\ (plugged = "out" /\ Settled => Down(s)')
    BY <1>1, <1>3, <2>1 DEF Recorded, Down, Counted, Before, dVars
  <2>. QED BY <1>3, <2>1, <2>2, RemoveKeeps DEF dVars
<1>8. CASE remove_unavailable(s)
  <2>1. /\ pc[s] = "unavailable" /\ Goto(s, "unknown") /\ device' = "unavailable"
        /\ UNCHANGED <<plugged, dir, links, nb, profile, backup>>
    BY <1>8 DEF remove_unavailable
  <2>2. Recorded' /\ (plugged = "out" /\ Settled => Down(s)')
    BY <1>1, <1>3, <2>1 DEF Recorded, Down, Counted, Before
  <2>. QED BY <1>3, <2>1, <2>2, RemoveKeeps
<1>9. CASE remove_unknown(s)
  <2>1. /\ pc[s] = "unknown" /\ Goto(s, "run") /\ profile' = FALSE
        /\ UNCHANGED <<plugged, dir, links, nb, device, backup>>
    BY <1>9 DEF remove_unknown
  <2>2. Recorded' /\ (plugged = "out" /\ Settled => Down(s)')
    BY <1>1, <1>3, <2>1 DEF Recorded, Down, Counted, Before
  <2>. QED BY <1>3, <2>1, <2>2, RemoveKeeps
<1>10. CASE remove_run(s)
  <2>1. /\ pc[s] = "run" /\ Goto(s, "done") /\ backup' = "stop"
        /\ UNCHANGED <<plugged, dir, links, nb, device, profile>>
    BY <1>10 DEF remove_run
  <2>2. Recorded' /\ (plugged = "out" /\ Settled => Down(s)')
    BY <1>1, <1>3, <2>1 DEF Recorded, Down, Counted, Before
  <2>. QED BY <1>3, <2>1, <2>2, RemoveKeeps
<1>11. CASE remove_last(s)
  <2>1. /\ pc[s] = "out" /\ Goto(s, "done") /\ links' \subseteq links
        /\ UNCHANGED <<plugged, nb, device, profile, backup>>
    BY <1>11 DEF remove_last
  <2>2. Recorded' /\ (plugged = "out" /\ Settled => Down(s)')
    BY <1>1, <1>3, <2>1 DEF Recorded, Down, Counted, Before
  <2>. QED BY <1>3, <2>1, <2>2, RemoveKeeps
<1>. QED BY <1>4, <1>5, <1>6, <1>7, <1>8, <1>9, <1>10, <1>11 DEF RemoveStep

\* What UpDown says of a dongle that is in, its add scripts having ended.
LEMMA UpAtRest == ASSUME UpDown PROVE PluggedComesUp
<1>. SUFFICES ASSUME plugged = "in", Done(Adds)
             PROVE  device = "available" /\ profile /\ backup = "start"
  BY DEF PluggedComesUp
<1>1. SomeFull /\ \A s \in Adds : Up(s)
  BY DEF UpDown, ComingUp
<1>2. \A s \in Adds : pc[s] \in Counted
  BY DEF Done, Counted
<1>3. PICK s \in Adds : Full(s)
  BY <1>1, <1>2 DEF SomeFull
<1>. QED BY <1>1, <1>3 DEF Done, Up

\* The dongle plugged or unplugged.
LEMMA PlugUpDown == ASSUME Inv, UpDown, plug \/ unplug PROVE UpDown'
<1>0. UNCHANGED <<dir, links, nb, device, profile, backup>>
  BY DEF plug, unplug
<1>1. Recorded'
  BY <1>0 DEF UpDown, Recorded
<1>2. CASE plug
  <2>1. /\ plugged = "no" /\ plugged' = "in"
        /\ \A s \in Adds : pc[s] = "new" /\ pc'[s] = "start"
    BY <1>2, Kinds DEF plug, Spawn, Inv, StartedOnce
  <2>2. \A s \in Adds : Up(s) /\ ~Full(s)
    BY <2>1 DEF UpDown, ComingUp, Up, Counted
  <2>3. \A s \in Adds : Up(s)'
    BY <1>0, <2>1, <2>2 DEF Up, Counted, Full
  <2>4. SomeFull'
    BY <1>0, <2>1, <2>2, Ttys DEF UpDown, ComingUp, SomeFull, Counted, Full
  <2>. QED BY <1>1, <2>1, <2>3, <2>4 DEF UpDown, ComingUp, GoingDown
<1>3. CASE unplug
  <2>1. /\ plugged = "in" /\ plugged' = "out" /\ (Settled => Done(Adds))
        /\ \A s \in Adds : pc'[s] = pc[s]
        /\ \A s \in Removes : pc'[s] = "start"
    BY <1>3, Kinds DEF unplug, Spawn
  <2>2. Settled => device = "available"
    BY <2>1, UpAtRest DEF PluggedComesUp
  <2>3. \A s \in Removes : Down(s)'
    BY <2>1 DEF Down, Before, Counted
  <2>4. GoingDown'
    BY <1>0, <2>1, <2>2, <2>3 DEF GoingDown, Done
  <2>. QED BY <1>1, <2>1, <2>4 DEF UpDown, ComingUp
<1>. QED BY <1>2, <1>3

\* UpDown holds in every state of the scripts.
THEOREM UpDownHolds == Spec => []UpDown
<1>1. Init => UpDown
  <2>. SUFFICES ASSUME Init PROVE UpDown
    OBVIOUS
  <2>1. Cardinality(Tty) \in Nat \ {0}
    BY CountsAll
  <2>2. \A s \in Adds : pc[s] = "new" /\ ~Full(s)
    BY <2>1, Kinds DEF Init, Full
  <2>3. \A s \in Adds : Up(s)
    BY <2>2 DEF Up, Counted
  <2>4. SomeFull
    BY <2>2, Ttys DEF SomeFull, Init, Counted
  <2>. QED BY <2>3, <2>4 DEF UpDown, Recorded, ComingUp, GoingDown, Init
<1>2. Inv /\ UpDown /\ [Next]_vars => UpDown'
  <2>. SUFFICES ASSUME Inv, UpDown, [Next]_vars PROVE UpDown'
    OBVIOUS
  <2>1. CASE UNCHANGED vars
    <3>1. UNCHANGED <<pc, plugged, dir, links, nb, device, profile, backup>>
      BY <2>1 DEF vars, dVars
    <3>2. \A s \in Scripts : (Full(s)' <=> Full(s)) /\ (Up(s)' <=> Up(s)) /\ (Down(s)' <=> Down(s))
      BY <3>1 DEF Full, Up, Down
    <3>. QED BY <3>1, <3>2, Kinds DEF UpDown, Recorded, ComingUp, SomeFull, GoingDown, Done
  <2>2. ASSUME NEW s \in Scripts, Lock(s) \/ Unlock(s) PROVE UpDown'
    <3>1. UNCHANGED dVars
      BY <2>2 DEF Lock, Unlock
    <3>2. \E l : /\ Goto(s, l)
                 /\ \/ pc[s] \in Before /\ l \in Before
                    \/ pc[s] \in {"unlock", "unlink"} /\ l \in {"unlink", "out"}
      <4>1. Lock(s) => /\ pc[s] \in Before
                       /\ \/ Goto(s, "echo") \/ Goto(s, "cat") \/ Goto(s, "in") \/ Goto(s, "kill")
                          \/ Goto(s, "rm") \/ Goto(s, "lock")
        BY DEF Lock, mutex_lock, lock_create, lock_echo, lock_cat, lock_kill, lock_rm, Before
      <4>2. Unlock(s) => /\ pc[s] \in {"unlock", "unlink"}
                         /\ Goto(s, "unlink") \/ Goto(s, "out")
        BY DEF Unlock, mutex_unlock, unlock_test, unlock_rm
      <4>. QED BY <2>2, <4>1, <4>2 DEF Before
    <3>. QED BY <3>1, <3>2, Aside
  <2>3. ASSUME NEW s \in Scripts, count(s) \/ AddStep(s) \/ RemoveStep(s) PROVE UpDown'
    <3>1. (AddStep(s) => s \in Adds) /\ (RemoveStep(s) => s \in Removes)
      BY DEF AddStep, RemoveStep, add_start, add_mkdir, add_ln, add_last, add_profile,
             add_available, add_run, remove_start, remove_rm, remove_get, remove_unavailable,
             remove_unknown, remove_run, remove_last
    <3>. QED BY <2>3, <3>1, Kinds, AddUpDown, RemoveUpDown
  <2>. QED BY <2>1, <2>2, <2>3, PlugUpDown DEF Next, Step
<1>. QED BY <1>1, <1>2, InvHolds, PTL DEF Spec

\* However many ttys a dongle has and in whatever order their add scripts run, even when one
\* steals the lock of another, the device is available and backup3g was started once they
\* have all ended.
THEOREM ComesUp == Spec => []PluggedComesUp
<1>1. UpDown => PluggedComesUp
  BY UpAtRest
<1>. QED BY <1>1, UpDownHolds, PTL

\* However many ttys a dongle that is unplugged at rest has, its remove scripts leave no link
\* and no device and stop backup3g: that some of them leave without looking at the device
\* any further loses nothing.
THEOREM GoesDown == Settled => (Spec => []UnpluggedGoesDown)
<1>1. UpDown /\ Settled => UnpluggedGoesDown
  <2>. SUFFICES ASSUME UpDown, Settled, plugged = "out", Done(Removes)
               PROVE  links = {} /\ device = "unavailable" /\ ~profile /\ backup = "stop"
    BY DEF UnpluggedGoesDown
  <2>1. \A s \in Removes : pc[s] = "done" /\ s[2] \notin links /\ device = "unavailable"
    BY DEF UpDown, GoingDown, Down, Done, Before, Counted
  <2>2. links = {}
    BY <2>1, Ttys DEF UpDown, Recorded
  <2>. QED BY <2>1, <2>2, Ttys DEF UpDown, GoingDown
<1>2. ASSUME Settled PROVE Spec => []UnpluggedGoesDown
  <2>1. UpDown => UnpluggedGoesDown
    BY <1>1, <1>2
  <2>. QED BY <2>1, UpDownHolds, PTL
<1>. QED BY <1>2
=============================================================================
