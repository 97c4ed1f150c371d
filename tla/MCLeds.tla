------------------------------- MODULE MCLeds -------------------------------
(***************************************************************************)
(* Front leds 1 and up: the first one is on the shift register, like wan,  *)
(* and the second on a pin of the processor, like traffic.                 *)
(***************************************************************************)
EXTENDS Leds

MCWan == {1}
MCTraffic == {2}
MCBoth == {1, 2}
MCSteady == {"on", "off"}
MCBlinking == {"on", "off", "blinkonce", "blinks"}

=============================================================================
