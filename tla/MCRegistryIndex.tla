--------------------------- MODULE MCRegistryIndex ---------------------------
EXTENDS RegistryIndex, TLC

\* The contents of the files and the names of processes are interchangeable.
Symmetry == Permutations(Text) \cup Permutations(Manifest) \cup Permutations(Process)
            \cup Permutations(Image)
=============================================================================
