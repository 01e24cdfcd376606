---------------------------- MODULE MCRelayHub ----------------------------
(* RelayHub with two peers, a channel of one payload and three broadcasts: *)
(* one in the hand of a writer that is stuck, one in its channel, and one  *)
(* that finds the channel full.                                            *)
EXTENDS RelayHub, TLC
===========================================================================
