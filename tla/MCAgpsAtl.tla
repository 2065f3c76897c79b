---------------------------- MODULE MCAgpsAtl ----------------------------
(* agnss_nif or internet_nif: ATL handles of the modem and the BIT daemon   *)
(* share the machine, subscribers leave the list at once, and a modem       *)
(* restart drops them.                                                      *)
EXTENDS AgpsStateMachine

Atl1 == "atl1"
MCClients == {Atl1, "atl2", "bit"}
MCModemClients == {Atl1, "atl2"}
===========================================================================
