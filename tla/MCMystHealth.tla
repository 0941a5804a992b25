---------------------------- MODULE MCMystHealth ----------------------------
(***************************************************************************)
(* Values of the constants of MystHealth for TLC.                          *)
(***************************************************************************)
EXTENDS MystHealth, TLC

CONSTANTS p1, p2, p3

MCProcs == {p1, p2, p3}

(* Processes are interchangeable.                                          *)
MCSymmetry == Permutations(Procs)
=============================================================================
