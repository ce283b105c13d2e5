--------------------------- MODULE MCPeerProgress ---------------------------
(* Constants of the runs of PeerProgress: logs.                            *)
EXTENDS PeerProgress

MCOldLog == <<1, 2>>
MCPeerLogs == {<<1>>, <<1, 1, 1>>}
=============================================================================
