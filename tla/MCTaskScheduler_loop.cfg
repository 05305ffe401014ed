\* event_loop: two sockets, two event threads (a start that overlaps a stop can leave two),
\* two calls of playURL and one of closeURL before the client is destroyed.
SPECIFICATION LoopSpec
CONSTANTS
  Sockets = {s1, s2}
  Workers = {w1, w2}
  MaxPlays = 2
  MaxCloses = 1
INVARIANTS NoStrayHandler
PROPERTIES CloseReturns ReadableServed
\* The client is destroyed in the end.
CHECK_DEADLOCK FALSE
