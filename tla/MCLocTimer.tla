----------------------------- MODULE MCLocTimer -----------------------------
(* Two timers, started three times between them for one or two ticks of     *)
(* half a second (or of a second).                                          *)
EXTENDS LocTimer

MCClients == {"t1", "t2"}
MCDelays == {1, 2}
=============================================================================
