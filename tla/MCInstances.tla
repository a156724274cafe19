---------------------------- MODULE MCInstances ----------------------------
(***************************************************************************)
(* Two processes, interchangeable, and one value: what can be lost or      *)
(* renamed is lost or renamed with one.                                    *)
(***************************************************************************)
EXTENDS Instances, TLC

MCSymmetry == Permutations(Daemon)
=============================================================================
