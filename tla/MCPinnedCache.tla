---------------------------- MODULE MCPinnedCache ----------------------------
EXTENDS PinnedCache, TLC

MCSymmetry == Permutations(Thread) \cup Permutations(Value)
==============================================================================
