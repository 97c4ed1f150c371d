----------------------------- MODULE MCWatchdog -----------------------------
(***************************************************************************)
(* Two processes, which may share the device, and timeouts on both sides   *)
(* of each limit.                                                          *)
(***************************************************************************)
EXTENDS Watchdog

MCTimeouts == {4, 5, 40, 41}

=============================================================================
