----------------------------- MODULE MCTimeSync ------------------------------
(* TimeSync, small.                                                          *)
EXTENDS TimeSync
=============================================================================
