----------------------------- MODULE MCZmqQueue -----------------------------
(***************************************************************************)
(* Instance of ZmqQueue for TLC: two clients, one identity nobody expects, *)
(* one payload beside the marker, one place per client and one beyond it   *)
(* for a marker, and deaths of one client or of both.                      *)
(***************************************************************************)
EXTENDS ZmqQueue

MCPeers == 0 .. NClients
MCItems == {"chunk"}
=============================================================================
