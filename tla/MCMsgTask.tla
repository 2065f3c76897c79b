----------------------------- MODULE MCMsgTask ------------------------------
(* A task, joinable or detached, that gets four messages from any threads   *)
(* and may be destroyed at any time.                                        *)
EXTENDS MsgTask
=============================================================================
