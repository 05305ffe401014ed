---------------------------- MODULE MCIOWorker ----------------------------
(***************************************************************************)
(* Instances of the write pipeline for TLC: frames of one to four cells    *)
(* against buffers of two to five.                                         *)
(***************************************************************************)
EXTENDS IOWorker

Video(n) == [kind |-> "video", size |-> n]
Audio(n) == [kind |-> "audio", size |-> n]

MixedShapes == {<<Video(1), Audio(1)>>, <<Video(4)>>}
OneShape == {<<Video(1)>>}
TwoFrames == {<<Video(4), Audio(1)>>}
=============================================================================
