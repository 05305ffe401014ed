----------------------- MODULE MCReorderingPacketBuffer -----------------------
EXTENDS ReorderingPacketBuffer, TLC
Alike == Permutations(Packets)
=============================================================================
