---------------------------- MODULE MCAgpsWifi ---------------------------
(* wifi_nif: two daemons (QuIPC and MSAPM), one subscriber at a time, which *)
(* stays in the list until the framework confirms the close.                *)
EXTENDS AgpsStateMachine

MCClients == {"quipc", "msapm"}
MCModemClients == {}
===========================================================================
