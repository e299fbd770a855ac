----------------------------- MODULE MCPeriphery ----------------------------
(***************************************************************************)
(* TLC instance of Periphery; its processes are interchangeable.  The same *)
(* ones are the agents of every component.                                 *)
(***************************************************************************)
EXTENDS Periphery, TLC

Symmetry == Permutations(Procs)

\* A release, and two prereleases of the next: rc before rc.2.
MCReleases == {[core |-> 1, pre |-> <<>>],
               [core |-> 2, pre |-> << <<1, 1>> >>],
               [core |-> 2, pre |-> << <<1, 1>>, <<0, 2>> >>]}
=============================================================================
