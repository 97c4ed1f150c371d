------------------------------- MODULE MCXtmTx -------------------------------
(***************************************************************************)
(* Two devices, the first with two queues, one of them shared with the     *)
(* second device; three external buffers, so that one queue may hold two   *)
(* of them, one of several queues one, and the rings wrap.                 *)
(***************************************************************************)
EXTENDS XtmTx

MCDevs == {"nas0", "nas1"}
MCQueues == {1, 2}
MCQueuesOf == [d \in MCDevs |-> IF d = "nas0" THEN <<1, 2>> ELSE <<2>>]
=============================================================================
