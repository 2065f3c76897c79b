-------------------------- MODULE MCDataServices --------------------------
(* Two emergency sessions and a data service that may be busy.             *)
EXTENDS DataServices

MCClients == {"es1", "es2"}
===========================================================================
