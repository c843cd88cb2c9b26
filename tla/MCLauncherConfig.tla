-------------------------- MODULE MCLauncherConfig --------------------------
(***************************************************************************)
(* Instances of LauncherConfig.                                            *)
(***************************************************************************)
EXTENDS LauncherConfig, TLC

ConfigSymmetry == Permutations(Worker) \cup Permutations(Backend) \cup Permutations(Db)
=============================================================================
