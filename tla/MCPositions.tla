------------------------------ MODULE MCPositions ------------------------------
(***************************************************************************)
(* Two fills and a seed, with two subscribers of small channels.           *)
(***************************************************************************)
EXTENDS Positions, TLC

MCSeedQtys == {-3}

Symmetric == Permutations(Watchers)
=============================================================================
