---- MODULE Mailbox ----
(***************************************************************************)
(* One web application: the synchronisations and the requests of the list  *)
(* and the reading pane over the same table of messages.                   *)
(***************************************************************************)
EXTENDS MailSync, MailActions

mailboxVars == <<storeVars, syncVars, actVars>>

MailboxInit == SyncInit /\ ActInit

\* MailSendPage files a copy of a message it has sent.
SentCopy(a) == HasAccount(a) /\ NewMail(MailFor(NoUid, FindAccount(a), "sent", NoWriter))

MailboxNext ==
    \/ SyncNext /\ UNCHANGED actVars
    \/ \E a \in Accounts : SentCopy(a) /\ UNCHANGED syncVars
    \/ \E t \in ActThreads : ActStep(t) /\ UNCHANGED syncVars

MailboxSpec == MailboxInit /\ [][MailboxNext]_mailboxVars

----
\* The folder a flag stands for.
Place(del) == CASE del = FLAG_NO -> "inbox"
                [] del = FLAG_TRASH -> "trash"
                [] del = FLAG_DELETE -> "deleted"

\* What the table says of a message.  "doubled" is no place of AtomicMail.
InTable(a, u) ==
    LET rows == RowsOf(a, u)
        mail == emails[CHOOSE i \in rows : TRUE]
        Shown(place, starred, unread) ==
            [place |-> place, starred |-> starred, unread |-> unread]
    IN  CASE rows = {} -> Shown("absent", FALSE, FALSE)
          [] Cardinality(rows) > 1 -> Shown("doubled", FALSE, FALSE)
          [] OTHER -> Shown(Place(mail.del), mail.fav > 0, mail.unread > 0)

Promise == INSTANCE AtomicMail WITH
    Messages <- Accounts \X UIDs,
    box <- [m \in Accounts \X UIDs |-> InTable(m[1], m[2])]

\* A user who waits for each answer before the next click, and whose refreshes
\* do not overlap, gets exactly the promise of AtomicMail, although every click
\* is two statements, the refresh imports messages in between, and the settings
\* may move the account to another mailbox and back: no message comes back after
\* it was deleted, none is stored twice, and no click changes what it is not about.
WaitingUserSeesAtomicMail == Promise!Spec
====
