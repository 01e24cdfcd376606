------------------------ MODULE MCSubtitleManager ------------------------
(* SubtitleManager with two workers, every kind of fault and one restart. *)
EXTENDS SubtitleManager, TLC
==========================================================================
