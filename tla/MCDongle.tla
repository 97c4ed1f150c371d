------------------------------ MODULE MCDongle ------------------------------
(***************************************************************************)
(* A dongle that is plugged and unplugged once.                            *)
(***************************************************************************)
EXTENDS Dongle

MCPlugUnplug == {"add", "remove"} \X Tty

=============================================================================
