-------------------------- MODULE MCArchiveWorker --------------------------
(***************************************************************************)
(* Instances of the threads of the drives for TLC.                         *)
(***************************************************************************)
EXTENDS ArchiveWorker, TLC

AnyClient == Permutations(Clients)
AnyDrive == Permutations(Drives)
AnyStream == Permutations(Streams)
Alike == AnyClient \cup AnyDrive \cup AnyStream
=============================================================================
