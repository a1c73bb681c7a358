-------------------- MODULE MCByzantineReliableBroadcast --------------------
(* ByzantineReliableBroadcast for TLC.                                       *)
EXTENDS ByzantineReliableBroadcast

MessageTypes == {"SEND", "ECHO", "READY"}
=============================================================================
