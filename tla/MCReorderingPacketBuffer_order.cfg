CONSTANTS
  Packets = {p1, p2, p3, p4}
  Half = 4
  Reach = 3
  MaxNumber = 10
SPECIFICATION Spec
SYMMETRY Alike
INVARIANTS PacketsOwned RefusedRightly TailIsLast
PROPERTIES DeliversInOrder
\* the stream ends
CHECK_DEADLOCK FALSE
