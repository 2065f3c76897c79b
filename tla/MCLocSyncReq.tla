---------------------------- MODULE MCLocSyncReq ---------------------------
(* Two threads, two slots, one indication ID.                              *)
EXTENDS LocSyncReq

One == {1}
Two == {"t1", "t2"}
===========================================================================
