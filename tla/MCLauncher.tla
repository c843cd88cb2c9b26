----------------------------- MODULE MCLauncher -----------------------------
EXTENDS Launcher, TLC
Symmetry == Permutations(Worker) \cup Permutations(Backend) \cup Permutations(Db)
=============================================================================
