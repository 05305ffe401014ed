----------------------------- MODULE MCRTSPSession -----------------------------
(***************************************************************************)
(* Instances of RTSPSession for TLC.                                       *)
(***************************************************************************)
EXTENDS RTSPSession

=============================================================================
