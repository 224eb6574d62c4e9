---- MODULE MCMailSync ----
(* MailSync on small instances. *)
EXTENDS MailSync, TLC

SyncSymmetry == Permutations(SyncThreads) \cup Permutations(Addresses)
====
