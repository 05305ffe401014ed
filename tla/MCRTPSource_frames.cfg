\* rtp_frames: six packets, any of which may be lost, late or (once) twice; 16-bit numbers with a
\* range of six, so that they wrap around; a frame buffer of three pieces.
SPECIFICATION Spec
CONSTANTS
  MaxNumber = 6
  Half = 3
  Reach = 2
  MaxExtra = 1
  Streams <- MCStreams
  FrameSize = 4
INVARIANTS IntactUnitComesOut FramesRight TimeIsOwn LossReported
CHECK_DEADLOCK FALSE
