-------------------------- MODULE MCDirectoryPaging -------------------------
EXTENDS DirectoryPaging, TLC

Symmetry == Permutations(Peer)
=============================================================================
