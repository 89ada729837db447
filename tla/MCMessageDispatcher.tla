------------------------ MODULE MCMessageDispatcher ------------------------
EXTENDS MessageDispatcher, TLC

Symmetry == Permutations(Calls) \cup Permutations(Copies)

=============================================================================
