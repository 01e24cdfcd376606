------------------------- MODULE MCServerPipeline -------------------------
(* ServerPipeline with an event of each provider, a channel that two of    *)
(* them fill, and one restart.                                             *)
EXTENDS ServerPipeline, TLC
===========================================================================
