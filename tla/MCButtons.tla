------------------------------ MODULE MCButtons ------------------------------
(***************************************************************************)
(* One polled button beside SES, reset and another driver, two processes   *)
(* that want /dev/events and a queue of two events: it overflows, and each *)
(* race of an interrupt with a softirq or with the reader is reached.      *)
(***************************************************************************)
EXTENDS Buttons

MCPolled == {"clip"}
MCOtherIds == {<<"eth0", "up">>}
MCResetDown == <<"reset", "down">>
MCEventId ==
  (MCPolled \X ButtonEvent) \cup MCOtherIds
    \cup {MCResetDown, <<"ses", "start">>, <<"ses", "timeout">>}
=============================================================================
