--------------------------- MODULE MCRecordReader ---------------------------
(***************************************************************************)
(* Instances of the reader for TLC.                                        *)
(***************************************************************************)
EXTENDS RecordReader

Frame(time, kind) == [time |-> time, kind |-> kind]

\* Three chunks in one hour, the second of two groups of pictures; one after an empty hour.
FourChunks ==
  << <<Frame(20, "I"), Frame(21, "audio"), Frame(23, "P")>>,
     <<Frame(25, "I"), Frame(26, "I"), Frame(27, "P"), Frame(28, "audio")>>,
     <<Frame(29, "I")>>,
     <<Frame(49, "I"), Frame(50, "P")>> >>
=============================================================================
