---- MODULE MCMailActions ----
(* MailActions on a small instance. *)
EXTENDS MailActions, TLC

\* Every action at least once, on one row and on two, on a row that may not exist
\* yet, and without an id.
SomeRequests ==
    { [kind |-> "trash",   ids |-> <<1, 2>>],
      [kind |-> "untrash", ids |-> <<1>>],
      [kind |-> "delete",  ids |-> <<1>>],
      [kind |-> "star",    ids |-> <<2, 1>>],
      [kind |-> "unstar",  ids |-> <<1>>],
      [kind |-> "read",    ids |-> <<1>>],
      [kind |-> "unread",  ids |-> << >>],
      [kind |-> "open",    ids |-> <<1>>] }

ActSymmetry == Permutations(ActThreads)
====
