---- MODULE MCUsers ----
(* Users on a small instance. *)
EXTENDS Users, TLC

UsersSymmetry == Permutations(UserThreads)
    \cup Permutations(LoginIds) \cup Permutations(Passwords)
====
