---------------------------- MODULE MCLlmClient ----------------------------
(* Two attempts per call (the default and the most the settings allow), a   *)
(* budget of one tick, attempts that take none or one: a call can run out   *)
(* of attempts first, or of time first, or be answered after its deadline.  *)
EXTENDS LlmClient
=============================================================================
