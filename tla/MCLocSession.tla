--------------------------- MODULE MCLocSession ---------------------------
(* LocSession with two position modes, one of them the default.  The       *)
(* framework makes at most MaxCall calls in a behaviour.                   *)
EXTENDS LocSession
===========================================================================
