---------------------------- MODULE MCSessions ----------------------------
\* Two processes, two directories, two sessions, two seconds.
EXTENDS Sessions, TLC

Symmetry == Permutations(Procs) \cup Permutations(Dirs)
=============================================================================
