--------------------------- MODULE MCPrivacyMode ----------------------------
EXTENDS PrivacyMode, TLC

Symmetric == Permutations(Conns) \cup Permutations(Threads)
=============================================================================
