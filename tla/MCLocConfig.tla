----------------------------- MODULE MCLocConfig -----------------------------
(* One parameter that the carrier sets and one that it can only set for the *)
(* time of the call; a C2K server, whose name may not be resolved, with two *)
(* addresses that have neither host nor port in common.                     *)
EXTENDS LocConfig, TLC

MCParams == <<"SUPL_VER", "XTRA_VERSION_CHECK">>
MCConfigs ==
    {"SUPL_VER" :> "1", "SUPL_VER" :> "0" @@ "XTRA_VERSION_CHECK" :> "1"}
MCCarrier == <<"SUPL_VER">>
MCAddresses ==
    [supl |-> {}, c2k |-> {[host |-> "h1", port |-> "p1"], [host |-> "h2", port |-> "p2"]}]
=============================================================================
