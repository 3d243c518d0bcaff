--------------------------- MODULE MCGeminiBreaker ---------------------------
(* Two keys, three calls on two permits, delays of one to three seconds in *)
(* place of 10, 30 and the provider's own: enough for two cooldowns to     *)
(* overlap and for one to expire while a call is in flight.                *)
EXTENDS GeminiBreaker
=============================================================================
