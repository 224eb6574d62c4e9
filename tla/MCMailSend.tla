---- MODULE MCMailSend ----
(* MailSend on a small instance. *)
EXTENDS MailSend

CONSTANTS x, y

SomeLetters == { [to |-> <<x>>, others |-> <<y>>],
                 [to |-> <<y, x>>, others |-> << >>],
                 [to |-> << >>, others |-> <<x>>] }
====
