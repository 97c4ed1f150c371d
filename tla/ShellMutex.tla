----------------------------- MODULE ShellMutex -----------------------------
(***************************************************************************)
(* The lock file that shell scripts use as a mutex (usr/lib/functions.sh): *)
(* mutex_lock creates the file, with the noclobber option, and writes its  *)
(* process number in it; one that finds the file deletes it when the       *)
(* process it names is dead, sleeps and tries again.  Each command of a    *)
(* script is a step of its own.  A file that is missing or still empty     *)
(* names nobody: `cat` expands to nothing, "test -n" without an argument   *)
(* is true and "kill -0" without one fails, so that the file is deleted.   *)
(* Process numbers are not reused while a script waits.                    *)
(***************************************************************************)
EXTENDS Naturals, FiniteSets

CONSTANTS
  Scripts,   \* the processes that run scripts, each of which locks once
  Nobody

ASSUME MutexAssumption == Nobody \notin Scripts

VARIABLES
  creator,   \* the script that created the lock file, Nobody if there is none
  written,   \* whether its process number is in the file
  pc,        \* the next command of each script
  seen,      \* the process number that a script read from the file
  stolen     \* history: a file was deleted that is not the one found stale

mVars == <<creator, written, seen, stolen>>

MutexInit ==
  creator = Nobody /\ written = FALSE /\ seen = [s \in Scripts |-> Nobody] /\ stolen = FALSE

Goto(s, l) == pc' = [pc EXCEPT ![s] = l]

Alive(s) == pc[s] \notin {"new", "done"}

\* The number is only an argument of kill: nothing of it outlives the turn.
Forget(s) == seen' = [seen EXCEPT ![s] = Nobody]

\* cat "$mutex"
Owner == IF written THEN creator ELSE Nobody

-----------------------------------------------------------------------------
\* set -C; ... > "$mutex" creates the file or fails.
lock_create(s) ==
  /\ pc[s] = "lock"
  /\ IF creator = Nobody THEN creator' = s /\ written' = FALSE /\ Goto(s, "echo")
     ELSE UNCHANGED <<creator, written>> /\ Goto(s, "cat")
  /\ UNCHANGED <<seen, stolen>>

\* echo $$ goes to the file that was created, even if it was deleted since.
lock_echo(s) ==
  /\ pc[s] = "echo"
  /\ written' = (written \/ creator = s)
  /\ Goto(s, "in") /\ UNCHANGED <<creator, seen, stolen>>

lock_cat(s) ==
  /\ pc[s] = "cat"
  /\ seen' = [seen EXCEPT ![s] = Owner]
  /\ Goto(s, "kill") /\ UNCHANGED <<creator, written, stolen>>

\* Faulty variant of lock_kill: a dead owner is taken for a live one.
KillTrusts(s) ==
  /\ pc[s] = "kill"
  /\ Goto(s, IF seen[s] = Nobody THEN "rm" ELSE "lock")
  /\ UNCHANGED mVars

\* Faulty variant of lock_kill: the owner is not asked whether it lives.
KillAssumes(s) ==
  /\ pc[s] = "kill"
  /\ Goto(s, "rm")
  /\ UNCHANGED mVars

\* kill -0: nobody, or a dead process, does not answer.
lock_kill(s) ==
  /\ pc[s] = "kill"
  /\ IF seen[s] = Nobody \/ ~Alive(seen[s]) THEN Goto(s, "rm") /\ UNCHANGED seen
     ELSE Goto(s, "lock") /\ Forget(s)
  /\ UNCHANGED <<creator, written, stolen>>

Delete == creator' = Nobody /\ written' = FALSE

lock_rm(s) ==
  /\ pc[s] = "rm"
  /\ Delete /\ stolen' = (stolen \/ creator \notin {Nobody, seen[s]})
  /\ Goto(s, "lock") /\ Forget(s)

mutex_lock(s) ==
  lock_create(s) \/ lock_echo(s) \/ lock_cat(s) \/ lock_kill(s) \/ lock_rm(s)

\* mutex_unlock deletes the file only if it names the script.
unlock_test(s) ==
  /\ pc[s] = "unlock"
  /\ Goto(s, IF Owner = s THEN "unlink" ELSE "out")
  /\ UNCHANGED mVars

unlock_rm(s) ==
  /\ pc[s] = "unlink"
  /\ Delete
  /\ Goto(s, "out") /\ UNCHANGED <<seen, stolen>>

mutex_unlock(s) == unlock_test(s) \/ unlock_rm(s)

=============================================================================
