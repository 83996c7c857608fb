---------------------------- MODULE MCIpcServer -----------------------------
(* Small instances of IpcServer: three clients for two places, or one client *)
(* that sends several lines, and buffers of a few bytes.                     *)
EXTENDS IpcServer, TLC

CONSTANTS c1, c2, c3, aucun

MCClients  == {c1, c2, c3}
MCSeul     == {c1}
MCSymetrie == Permutations(MCClients)
=============================================================================
