---- MODULE MailActions ----
(***************************************************************************)
(* GET /rest/mail/control (MailActionsPage) and GET /rest/mail/read        *)
(* (ReadMailPage): requests that read a row of EMAILS, change flags of the *)
(* copy and write every column of the copy back with a second statement.   *)
(***************************************************************************)
EXTENDS MailStore, FiniteSets, Functions

CONSTANTS
    ActThreads,   \* request threads
    Requests,     \* what is clicked: an action, and the ids it is applied to
    MaxMail       \* bound: rows that other components insert

\* MailActionType, and "open" for ReadMailPage, which takes one id.
Kinds == {"trash", "untrash", "delete", "star", "unstar", "read", "unread", "open"}

ASSUME ActionsAssumption ==
    /\ Requests \subseteq [kind : Kinds, ids : Seq(Nat)]
    /\ \A r \in Requests : r.kind = "open" => Len(r.ids) <= 1
    /\ MaxMail \in Nat

VARIABLES
    actPC,        \* per thread: the statement it is about to run
    actRequest,   \* the parameters of the request
    actPos,       \* the id it is at
    actMail,      \* the copy of that row, once it is read
    touched       \* history: the ids others wrote after this thread read them

actVars == <<actPC, actRequest, actPos, actMail, touched>>
actAllVars == <<storeVars, actVars>>

Answered == {"none", "ok", "error"}

NoMail == NoAccount

\* MailController.doAction, and the change that marks a mail as read
Effect(kind, mail) ==
    CASE kind = "delete"  -> [mail EXCEPT !.del = FLAG_DELETE]
      [] kind = "trash"   -> [mail EXCEPT !.del = FLAG_TRASH]
      [] kind = "untrash" -> [mail EXCEPT !.del = FLAG_NO]
      [] kind = "star"    -> [mail EXCEPT !.fav = FLAG_YES]
      [] kind = "unstar"  -> [mail EXCEPT !.fav = FLAG_NO]
      [] kind = "read"    -> [mail EXCEPT !.unread = FLAG_NO]
      [] kind = "unread"  -> [mail EXCEPT !.unread = FLAG_YES]
      [] kind = "open"    -> [mail EXCEPT !.unread = FLAG_NO, !.new = FLAG_NO]

----
\* Other components insert rows: a synchronisation, or a sent message.
NewMail(mail) ==
    /\ Len(emails) < MaxMail
    /\ DoInsert(mail)
    /\ UNCHANGED <<accounts, actVars>>

\* The settings move the account to another mailbox, or a registration stores it.
MoveAccount(a, address) == SaveAccount(a, address) /\ UNCHANGED actVars

ActGoto(t, label) == actPC' = [actPC EXCEPT ![t] = label]

NoRequest == [kind |-> "open", ids |-> << >>]

\* x-state: error.  What the ids before this one have changed stays changed.
AnswerError(t) ==
    /\ ActGoto(t, "error")
    /\ actRequest' = [actRequest EXCEPT ![t] = NoRequest]
    /\ actPos' = [actPos EXCEPT ![t] = 1]
    /\ actMail' = [actMail EXCEPT ![t] = NoMail]
    /\ touched' = [touched EXCEPT ![t] = {}]
    /\ UNCHANGED storeVars

\* Seeded fault (ActTypeOK): the loop counts from zero.
ReceiveFromZero(t, request) ==
    /\ actPC[t] \in Answered
    /\ request.ids # << >>
    /\ ActGoto(t, "find")
    /\ actRequest' = [actRequest EXCEPT ![t] = request]
    /\ actPos' = [actPos EXCEPT ![t] = 0]
    /\ touched' = [touched EXCEPT ![t] = {}]
    /\ UNCHANGED <<storeVars, actMail>>

\* The request arrives.
Receive(t, request) ==
    /\ actPC[t] \in Answered
    /\ request.ids # << >>
    /\ ActGoto(t, "find")
    /\ actRequest' = [actRequest EXCEPT ![t] = request]
    /\ actPos' = [actPos EXCEPT ![t] = 1]
    /\ touched' = [touched EXCEPT ![t] = {}]
    /\ UNCHANGED <<storeVars, actMail>>

\* 'id' not found!
ReceiveWithoutId(t, request) ==
    /\ actPC[t] \in Answered
    /\ request.ids = << >>
    /\ AnswerError(t)

Kind(t) == actRequest[t].kind
Ids(t) == actRequest[t].ids
CurrentId(t) == Ids(t)[actPos[t]]

\* A mail that is read already is shown without another save.
NeedsSave(kind, mail) == kind = "open" => mail.unread > 0

\* A message that was opened is still to be rendered.
Finished(t) == IF Kind(t) = "open" THEN "render" ELSE "ok"

\* mailService.findById, then the change of the copy
Find(t) ==
    /\ actPC[t] = "find"
    /\ CurrentId(t) \in DOMAIN emails
    /\ LET mail == emails[CurrentId(t)] IN
        IF NeedsSave(Kind(t), mail)
        THEN ActGoto(t, "save") /\ actMail' = [actMail EXCEPT ![t] = mail]
        ELSE ActGoto(t, Finished(t)) /\ UNCHANGED actMail
    /\ touched' = [touched EXCEPT ![t] = @ \ {CurrentId(t)}]
    /\ UNCHANGED <<storeVars, actRequest, actPos>>

\* The account is looked up and the message parsed; no change of the row is saved.
Render(t) ==
    /\ actPC[t] = "render"
    /\ ActGoto(t, "ok")
    /\ UNCHANGED <<storeVars, actRequest, actPos, actMail, touched>>

\* No such row, no account, or one of the statements fails.
Throws(t) == actPC[t] \in {"find", "save", "render"} /\ AnswerError(t)

\* Seeded fault (StaleOnlyIfTouched, MailIsKept): the row is read once, before the loop.
NextIdSameCopy(t) ==
    IF actPos[t] < Len(Ids(t))
    THEN /\ ActGoto(t, "save")
         /\ actPos' = [actPos EXCEPT ![t] = @ + 1]
         /\ UNCHANGED actMail
    ELSE /\ ActGoto(t, Finished(t))
         /\ actMail' = [actMail EXCEPT ![t] = NoMail]
         /\ UNCHANGED actPos

\* Seeded fault (OkMeansDone): the loop returns after the first id.
NextIdReturns(t) ==
    /\ actMail' = [actMail EXCEPT ![t] = NoMail]
    /\ ActGoto(t, Finished(t))
    /\ UNCHANGED actPos

NextId(t) ==
    /\ actMail' = [actMail EXCEPT ![t] = NoMail]
    /\ IF actPos[t] < Len(Ids(t))
       THEN ActGoto(t, "find") /\ actPos' = [actPos EXCEPT ![t] = @ + 1]
       ELSE ActGoto(t, Finished(t)) /\ UNCHANGED actPos

\* mailService.save: every column of the row is written from the copy.
Save(t) ==
    /\ actPC[t] = "save"
    /\ DoUpdate(CurrentId(t), Effect(Kind(t), actMail[t]))
    /\ touched' = [s \in ActThreads |->
                      IF s # t /\ CurrentId(t) \in Range(Ids(s))
                      THEN touched[s] \cup {CurrentId(t)} ELSE touched[s]]
    /\ NextId(t)
    /\ UNCHANGED <<accounts, actRequest>>

----
ActInit ==
    /\ StoreInit
    /\ actPC = [t \in ActThreads |-> "none"]
    /\ actRequest = [t \in ActThreads |-> NoRequest]
    /\ actPos = [t \in ActThreads |-> 1]
    /\ actMail = [t \in ActThreads |-> NoMail]
    /\ touched = [t \in ActThreads |-> {}]

ActStep(t) ==
    \/ \E request \in Requests : Receive(t, request) \/ ReceiveWithoutId(t, request)
    \/ Find(t) \/ Save(t) \/ Render(t) \/ Throws(t)

Registered == {a \in Accounts : HasAccount(a)}

ActNext ==
    \/ \E a \in Registered, u \in UIDs :
            NewMail(MailFor(u, FindAccount(a), "inbox", NoWriter))
    \/ \E a \in Registered : NewMail(MailFor(NoUid, FindAccount(a), "sent", NoWriter))
    \/ \E a \in Accounts, address \in Addresses : MoveAccount(a, address)
    \/ \E t \in ActThreads : ActStep(t)

ActSpec == ActInit /\ [][ActNext]_actAllVars

----
\* Type invariant of the component.
ActTypeOK ==
    /\ StoreTypeOK
    /\ actPC \in [ActThreads -> Answered \cup {"find", "save", "render"}]
    /\ actRequest \in [ActThreads -> [kind : Kinds, ids : Seq(Nat)]]
    /\ actPos \in [ActThreads -> Nat \ {0}]
    /\ actMail \in [ActThreads -> Mail \cup {NoMail}]
    /\ touched \in [ActThreads -> SUBSET Nat]

HoldsRow(t) ==
    CurrentId(t) \in DOMAIN emails /\ actMail[t] = emails[CurrentId(t)]

\* A request that is about to write holds the row as it is, unless another
\* request wrote that row after this one had read it: no copy is carried from one
\* id to the next, and a row is read again before each write.
StaleOnlyIfTouched ==
    \A t \in ActThreads : actPC[t] = "save" /\ CurrentId(t) \notin touched[t] => HoldsRow(t)

\* The row shows what the user asked for.
Shows(kind, mail) ==
    CASE kind = "delete"           -> mail.del = FLAG_DELETE
      [] kind = "trash"            -> mail.del = FLAG_TRASH
      [] kind = "untrash"          -> mail.del = FLAG_NO
      [] kind = "star"             -> mail.fav > 0
      [] kind = "unstar"           -> mail.fav = FLAG_NO
      [] kind \in {"read", "open"} -> mail.unread = FLAG_NO
      [] kind = "unread"           -> mail.unread > 0

Done(t, i) == i \in DOMAIN emails /\ Shows(Kind(t), emails[i])
AllDone(t) == \A i \in Range(Ids(t)) \ touched[t] : Done(t, i)

\* x-state: ok means done, for every id of the request and not only for the last
\* one, as long as no other request wrote the row.
OkMeansDone == \A t \in ActThreads : actPC[t] = "ok" => AllDone(t)

\* No request takes a message out of the table or out of its mailbox, and none
\* writes one message over another, however stale the copy it writes back.
MailIsKept == [][KeepsRows]_actAllVars

\* A mail that one of the lists of an account shows while it is set to this address.
InListsOf(account, i) == \E folder \in {"inbox", "sent", "trash"} : i \in FindPage(folder, account)

InSomeList(a, i) == InListsOf(FindAccount(a), i)

\* A click on it that says so - it is deleted for ever, or it is a sent mail, which the
\* trash does not list (MailServiceImpl.java:159) - or another request, one that stars
\* it, marks it or opens it, that writes back a copy which is out of date.
ClickedAway(i) ==
    \E t \in ActThreads :
        /\ actPC[t] = "save" /\ CurrentId(t) = i
        /\ \/ Kind(t) = "delete"
           \/ Kind(t) = "trash" /\ emails[i].folder = "sent"
           \/ i \in touched[t]

\* A mail disappears from the inbox, the sent folder and the trash of an account by a
\* click, or because the settings have moved the account to another mailbox, which
\* empties all its lists (MailServiceImpl.java:134).  From the lists of the mailbox it
\* was filed under it disappears by a click only: they are as the clicks have left them
\* when the settings come back to that mailbox, whatever was done in between.
MailVanishesByClick ==
    [][\A a \in Accounts, i \in DOMAIN emails :
         /\ InSomeList(a, i) /\ ~InSomeList(a, i)' =>
                accounts'[a] # emails[i].owner \/ ClickedAway(i)
         /\ \A address \in Addresses :
                LET account == [id |-> a, address |-> address]
                IN  InListsOf(account, i) /\ ~InListsOf(account, i)' => ClickedAway(i)
      ]_storeVars
====
