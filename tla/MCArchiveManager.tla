--------------------------- MODULE MCArchiveManager ---------------------------
(***************************************************************************)
(* Instances of ArchiveManager for TLC.                                    *)
(***************************************************************************)
EXTENDS ArchiveManager, TLC

CONSTANTS d1, d2, s1, s2, c1, c2

MCDrives == {d1, d2}
MCStreams == {s1, s2}
MCClients == {c1, c2}
MCSymmetry == Permutations(MCDrives) \cup Permutations(MCClients) \cup Permutations(MCStreams)
=============================================================================
