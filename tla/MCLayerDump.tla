----------------------------- MODULE MCLayerDump -----------------------------
(***************************************************************************)
(* The instances of LayerDump that TLC checks: a primary display, alone or *)
(* with an external one.                                                   *)
(***************************************************************************)
EXTENDS LayerDump

CONSTANTS pri, ext

=============================================================================
