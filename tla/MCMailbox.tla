---- MODULE MCMailbox ----
(* Mailbox for one user who waits: one thread for each kind of request. *)
EXTENDS Mailbox

SomeRequests ==
    { [kind |-> "trash",   ids |-> <<1, 2>>],
      [kind |-> "untrash", ids |-> <<1>>],
      [kind |-> "delete",  ids |-> <<2, 1>>],
      [kind |-> "star",    ids |-> <<1>>],
      [kind |-> "open",    ids |-> <<1>>],
      [kind |-> "open",    ids |-> << >>] }
====
