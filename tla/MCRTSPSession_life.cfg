\* session_life: two tracks, two packets of two pieces, two keep-alives; opened once, closed at
\* any time.
SPECIFICATION Spec
CONSTANTS
  LastTrack = 2
  PacketSize = 2
  MaxPackets = 2
  MaxKeepAlives = 2
INVARIANTS AnswersMatch  DeletedNotUsed 
 
\* The session is closed in the end, and the program is gone after a misuse.
CHECK_DEADLOCK FALSE
