----------------------------- MODULE MCGapLink ------------------------------
(* GapLink with four handles, any of which may be used again. *)
EXTENDS GapLink
=============================================================================
