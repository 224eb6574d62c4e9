---- MODULE MCHomePage ----
(* HomePage on a small instance. *)
EXTENDS HomePage, TLC

CallSymmetry == Permutations(Slots)
====
