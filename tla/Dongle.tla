------------------------------- MODULE Dongle -------------------------------
(***************************************************************************)
(* The hotplug script of the 3G dongle (hotplug.d/tty/30-tty-3gDongle).    *)
(* The kernel starts one process per tty and event and does not wait for   *)
(* it, so that the scripts of a dongle's ttys run together.  An add script *)
(* links its tty in /var/backup3g and the one that finds all the links     *)
(* makes the device available and starts backup3g; a remove script         *)
(* deletes its link and, if the device is available, makes it unavailable, *)
(* stops backup3g and exits with the mutex locked.                         *)
(***************************************************************************)
EXTENDS ShellMutex

CONSTANTS
  Tty,      \* the ttys of a dongle: as many as NB_MAX_TTY
  Settled   \* whether a dongle is only unplugged after its add scripts ended

ASSUME DongleAssumption ==
  /\ IsFiniteSet(Tty) /\ Tty # {}
  /\ Scripts = {"add", "remove"} \X Tty
  /\ Settled \in BOOLEAN

Adds == {s \in Scripts : s[1] = "add"}
Removes == {s \in Scripts : s[1] = "remove"}

VARIABLES
  plugged,   \* the dongle: "no", "in" or "out"
  dir,       \* /var/backup3g exists
  links,     \* the ttys linked in it
  nb,        \* NB_TTY of each script
  device,    \* gprs_device_state
  profile,   \* gprs_device_profile is set
  backup     \* the last request made to backup3g

dVars == <<plugged, dir, links, nb, device, profile, backup>>
vars == <<mVars, pc, dVars>>

Init ==
  /\ MutexInit
  /\ pc = [s \in Scripts |-> "new"]
  /\ plugged = "no"
  /\ dir = FALSE /\ links = {} /\ nb = [s \in Scripts |-> 0]
  /\ device = "unavailable" /\ profile = FALSE /\ backup = "none"

Keep == UNCHANGED mVars

-----------------------------------------------------------------------------
Done(S) == \A s \in S : pc[s] = "done"

\* Wakes the scripts of S: the kernel starts /sbin/hotplug for each tty.
Spawn(S) == pc' = [s \in Scripts |-> IF s \in S THEN "start" ELSE pc[s]]

plug ==
  /\ plugged = "no" /\ plugged' = "in"
  /\ Spawn(Adds)
  /\ Keep /\ UNCHANGED <<dir, links, nb, device, profile, backup>>

unplug ==
  /\ plugged = "in" /\ plugged' = "out"
  /\ Settled => Done(Adds)
  /\ Spawn(Removes)
  /\ Keep /\ UNCHANGED <<dir, links, nb, device, profile, backup>>

\* An add script leaves when there already is a device.  nbd is taken to run (its socket
\* exists), the dongle to be one that the script knows, and its ttys to have the four
\* interface numbers of its kind: so no script leaves for lack of them, and no tty is
\* linked as ttyDOE.
add_start(s) ==
  /\ s \in Adds /\ pc[s] = "start"
  /\ Goto(s, IF device = "unavailable" THEN "lock" ELSE "done")
  /\ Keep /\ UNCHANGED dVars

add_mkdir(s) ==
  /\ s \in Adds /\ pc[s] = "in"
  /\ dir' = TRUE /\ Goto(s, "ln")
  /\ Keep /\ UNCHANGED <<plugged, links, nb, device, profile, backup>>

\* Faulty variant of add_ln: the link is not made.
LnMissing(s) ==
  /\ s \in Adds /\ pc[s] = "ln"
  /\ Goto(s, "ls")
  /\ Keep /\ UNCHANGED dVars

\* ln fails when the directory was deleted meanwhile.
add_ln(s) ==
  /\ s \in Adds /\ pc[s] = "ln"
  /\ links' = IF dir THEN links \cup {s[2]} ELSE links
  /\ Goto(s, "ls")
  /\ Keep /\ UNCHANGED <<plugged, dir, nb, device, profile, backup>>

\* NB_TTY=`ls -l /var/backup3g/ | wc -l`, then the device's state for a remove.
count(s) ==
  /\ pc[s] = "ls"
  /\ nb' = [nb EXCEPT ![s] = Cardinality(links)]
  /\ Goto(s, IF s \in Adds THEN "unlock" ELSE "get")
  /\ Keep /\ UNCHANGED <<plugged, dir, links, device, profile, backup>>

add_last(s) ==
  /\ s \in Adds /\ pc[s] = "out"
  /\ Goto(s, IF nb[s] = Cardinality(Tty) THEN "profile" ELSE "done")
  /\ Keep /\ UNCHANGED dVars

add_profile(s) ==
  /\ s \in Adds /\ pc[s] = "profile"
  /\ profile' = TRUE /\ Goto(s, "available")
  /\ Keep /\ UNCHANGED <<plugged, dir, links, nb, device, backup>>

add_available(s) ==
  /\ s \in Adds /\ pc[s] = "available"
  /\ device' = "available" /\ Goto(s, "run")
  /\ Keep /\ UNCHANGED <<plugged, dir, links, nb, profile, backup>>

\* After a sleep of one second.
add_run(s) ==
  /\ s \in Adds /\ pc[s] = "run"
  /\ backup' = "start" /\ Goto(s, "done")
  /\ Keep /\ UNCHANGED <<plugged, dir, links, nb, device, profile>>

-----------------------------------------------------------------------------
remove_start(s) ==
  /\ s \in Removes /\ pc[s] = "start"
  /\ Goto(s, "lock")
  /\ Keep /\ UNCHANGED dVars

remove_rm(s) ==
  /\ s \in Removes /\ pc[s] = "in"
  /\ links' = links \ {s[2]} /\ Goto(s, "ls")
  /\ Keep /\ UNCHANGED <<plugged, dir, nb, device, profile, backup>>

remove_get(s) ==
  /\ s \in Removes /\ pc[s] = "get"
  /\ Goto(s, IF device = "available" THEN "unavailable" ELSE "unlock")
  /\ Keep /\ UNCHANGED dVars

\* Faulty variant of remove_unavailable: only the profile is reset.
KeepsAvailable(s) ==
  /\ s \in Removes /\ pc[s] = "unavailable"
  /\ Goto(s, "unknown")
  /\ Keep /\ UNCHANGED dVars

remove_unavailable(s) ==
  /\ s \in Removes /\ pc[s] = "unavailable"
  /\ device' = "unavailable" /\ Goto(s, "unknown")
  /\ Keep /\ UNCHANGED <<plugged, dir, links, nb, profile, backup>>

remove_unknown(s) ==
  /\ s \in Removes /\ pc[s] = "unknown"
  /\ profile' = FALSE /\ Goto(s, "run")
  /\ Keep /\ UNCHANGED <<plugged, dir, links, nb, device, backup>>

\* exit 0, before mutex_unlock.
remove_run(s) ==
  /\ s \in Removes /\ pc[s] = "run"
  /\ backup' = "stop" /\ Goto(s, "done")
  /\ Keep /\ UNCHANGED <<plugged, dir, links, nb, device, profile>>

\* The script that leaves no link deletes the directory, outside of the mutex.
remove_last(s) ==
  /\ s \in Removes /\ pc[s] = "out"
  /\ Goto(s, "done")
  /\ IF nb[s] = 0 THEN dir' = FALSE /\ links' = {} ELSE UNCHANGED <<dir, links>>
  /\ Keep /\ UNCHANGED <<plugged, nb, device, profile, backup>>

Lock(s) == mutex_lock(s) /\ UNCHANGED dVars
Unlock(s) == mutex_unlock(s) /\ UNCHANGED dVars

AddStep(s) ==
  \/ add_start(s) \/ add_mkdir(s) \/ add_ln(s) \/ add_last(s)
  \/ add_profile(s) \/ add_available(s) \/ add_run(s)

RemoveStep(s) ==
  \/ remove_start(s) \/ remove_rm(s) \/ remove_get(s) \/ remove_unavailable(s)
  \/ remove_unknown(s) \/ remove_run(s) \/ remove_last(s)

Step(s) == Lock(s) \/ Unlock(s) \/ count(s) \/ AddStep(s) \/ RemoveStep(s)

\* When every script is done nothing happens before another dongle comes.
Next == plug \/ unplug \/ \E s \in Scripts : Step(s)

Spec == Init /\ [][Next]_vars

\* The scheduler runs every script that has not ended.
FairSpec == Spec /\ \A s \in Scripts : WF_vars(Step(s))

-----------------------------------------------------------------------------
\* Where a script can be: before its next command.
PC == {"new", "start", "lock", "echo", "cat", "kill", "rm", "in", "ln", "ls", "get", "unlock",
       "unlink", "out", "profile", "available", "unavailable", "unknown", "run", "done"}

\* Once a dongle is in and its add scripts have ended, whatever their order,
\* the device is available and backup3g was started: the script that makes
\* the last link counts all of them.
PluggedComesUp ==
  (plugged = "in" /\ Done(Adds)) => (device = "available" /\ profile /\ backup = "start")

\* A dongle unplugged at rest leaves no link, no device and backup3g stopped
\* when its remove scripts have ended.
UnpluggedGoesDown ==
  (plugged = "out" /\ Done(Adds) /\ Done(Removes)) =>
    (links = {} /\ device = "unavailable" /\ ~profile /\ backup = "stop")

\* Every script ends, although a remove script exits with the mutex locked:
\* those that wait for it take the lock of a dead process away.
EveryScriptEnds == \A s \in Scripts : (pc[s] = "start") ~> (pc[s] = "done")

InZone(s) ==
  pc[s] \in {"in", "ln", "ls", "get", "unavailable", "unknown", "unlock", "unlink"}
  \/ (s \in Removes /\ pc[s] = "run")

\* The commands that the scripts mark as a protected zone are run by one script at a
\* time, also when a script that holds the mutex exits, as long as no waiting script
\* deletes another lock file than the one it found stale: one that was still empty when
\* it looked, or one created since.
ProtectedZone == ~stolen => \A s, t \in Scripts : InZone(s) /\ InZone(t) => s = t

\* When all scripts have ended and no tty is linked, "there are no 3g dongle
\* anymore": the device is not available.
NoDongleNoDevice ==
  (plugged = "out" /\ Done(Adds) /\ Done(Removes) /\ links = {}) => device = "unavailable"

=============================================================================
