------------------------------ MODULE MCDaemon ------------------------------
(* Instances of Daemon for TLC: the processes are interchangeable.           *)
EXTENDS Daemon, TLC

Symmetry == Permutations(Daemon)
=============================================================================
