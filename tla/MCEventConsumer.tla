--------------------------- MODULE MCEventConsumer ---------------------------
(***************************************************************************)
(* EventConsumer with few entries, one of them malformed, in small batches *)
(* and a short stream.                                                     *)
(***************************************************************************)
EXTENDS EventConsumer

MCMalformed == {2}
=============================================================================
