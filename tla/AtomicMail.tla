---- MODULE AtomicMail ----
(***************************************************************************)
(* What the mail pages promise a user, with no threads and no statements:  *)
(* a message arrives in the mailbox once, and from then on every click     *)
(* changes, in one step, the one thing the click is about.                 *)
(***************************************************************************)

CONSTANT Messages

VARIABLE box    \* per message: where it is and how it is marked

Places == {"inbox", "trash", "deleted"}
View(place, starred, unread) ==
    [place |-> place, starred |-> starred, unread |-> unread]

Absent == View("absent", FALSE, FALSE)

Init == box = [m \in Messages |-> Absent]

Import(m) ==
    /\ box[m] = Absent
    /\ box' = [box EXCEPT ![m] = View("inbox", FALSE, TRUE)]

Move(m, place) == box' = [box EXCEPT ![m].place = place]
Star(m, starred) == box' = [box EXCEPT ![m].starred = starred]
Mark(m, unread) == box' = [box EXCEPT ![m].unread = unread]

Click(m) ==
    /\ box[m] # Absent
    /\ \/ \E place \in Places : Move(m, place)
       \/ \E yes \in BOOLEAN : Star(m, yes) \/ Mark(m, yes)

Next == \E m \in Messages : Import(m) \/ Click(m)

Spec == Init /\ [][Next]_box
====
