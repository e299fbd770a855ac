------------------------------ MODULE MCDaemon ------------------------------
(* Daemon with the symmetry its safety run uses, since commands and process *)
(* ids are interchangeable, ports are not (one is preferred), and with the  *)
(* bound that keeps the run small: the third command and the second crash   *)
(* come only where nothing else disturbs the commands.                      *)
EXTENDS Daemon, TLC

Symmetry == Permutations(Clis) \cup Permutations(Daemons)

WithinBounds == calls > 3 \/ crashes > 1 => Undisturbed /\ busy = {}
=============================================================================
