------------------------------ MODULE MCGpsFeed ------------------------------
(* GpsFeed for TLC: nothing to define, the cfg bounds the signals.          *)
EXTENDS GpsFeed
=============================================================================
