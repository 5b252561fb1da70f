------------------------------ MODULE MCReadApi ------------------------------
(* One reader beside the poller, for TLC. *)
EXTENDS MCGpPoller, ReadApi

CONSTANTS c1

MCClient == {c1}
=============================================================================
