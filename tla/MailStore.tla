---- MODULE MailStore ----
(***************************************************************************)
(* The two SQLite tables the mail pages share, and the SQL statements of   *)
(* MailDaoImpl and AccountDaoImpl over them.  QueryRunner runs every       *)
(* statement on a connection of its own in autocommit mode, so a statement *)
(* is one atomic step, and nothing holds two statements together.          *)
(***************************************************************************)
EXTENDS Naturals, Sequences

CONSTANTS
    Accounts,    \* the users' rows of ACCOUNTS: a user works with one account
    Addresses,   \* the e-mail addresses an account may be set to
    NoAccount,   \* null: the user has no account row (yet)
    UIDs,        \* the unique ids a POP3 server gives to messages
    NoUid,       \* SQL NULL in the UID column: a message sent from here
    Writers,     \* the request threads that insert messages
    NoWriter     \* the writer of a row no synchronisation inserted

ASSUME StoreAssumption ==
    /\ NoAccount \notin Addresses
    /\ NoUid \notin UIDs
    /\ NoWriter \notin Writers

VARIABLES
    emails,      \* table EMAILS: MSGID is AUTOINCREMENT, so row i is emails[i]
    accounts     \* table ACCOUNTS: the current address of each account

storeVars == <<emails, accounts>>

----
\* Mail: the constants of the entity and the columns that requests read or
\* write.  The text columns never change after the insert and are left out.

FLAG_NO     == 0
FLAG_YES    == 1
FLAG_TRASH  == 4
FLAG_DELETE == 8

\* Mail.VirtualFolder: the FOLDER value that inbox, starred, fav, trash and sent stand for.
SystemFolder(folder) == IF folder = "sent" THEN "sent" ELSE "inbox"

\* "by" is no column: it remembers which request thread imported the row.
Mail == [ uid    : UIDs \cup {NoUid},
          acc    : Accounts,
          owner  : Addresses,
          folder : {"inbox", "sent"},
          new    : {FLAG_NO, FLAG_YES},
          unread : {FLAG_NO, FLAG_YES},
          fav    : {FLAG_NO, FLAG_YES},
          del    : {FLAG_NO, FLAG_TRASH, FLAG_DELETE},
          by     : Writers \cup {NoWriter} ]

\* Both inserters leave the flags of the entity at their defaults.
MailFor(uid, account, folder, by) ==
    [ uid |-> uid, acc |-> account.id, owner |-> account.address, folder |-> folder,
      new |-> FLAG_YES, unread |-> FLAG_YES, fav |-> FLAG_NO, del |-> FLAG_NO, by |-> by ]

Account == [id : Accounts, address : Addresses]

----
\* The SQL statements.

HasAccount(a) == accounts[a] # NoAccount

\* select * from Accounts where USERID=?
FindAccount(a) == [id |-> a, address |-> accounts[a]]

\* insert into accounts, update accounts set ... where AID=?
SaveAccount(a, address) ==
    /\ accounts' = [accounts EXCEPT ![a] = address]
    /\ UNCHANGED emails

\* Seeded fault (DuplicatesNeedTwoThreads): only the rows of the current address.
FindMailUIDsOfAddress(a) ==
    {emails[i].uid : i \in {j \in DOMAIN emails :
        emails[j].acc = a /\ emails[j].owner = accounts[a]}}

\* Seeded fault (WaitingUserSeesAtomicMail): a deleted row no longer counts.
FindMailUIDsNotDeleted(a) ==
    {emails[i].uid : i \in {j \in DOMAIN emails :
        emails[j].acc = a /\ emails[j].del # FLAG_DELETE}}

\* select MSGID,UID from emails where ACCOUNTID = ?   (whatever its owner address)
FindMailUIDs(a) == {emails[i].uid : i \in {j \in DOMAIN emails : emails[j].acc = a}}

\* insert into emails
DoInsert(mail) == emails' = Append(emails, mail)

\* update emails set <every column> where MSGID=?   (no row, no effect)
DoUpdate(id, mail) == emails' = [emails EXCEPT ![id] = mail]

\* Seeded fault (MailVanishesByClick): the trash lists what is deleted for ever.
FolderFlagsOfTheDeleted(folder, mail) ==
    CASE folder = "fav"   -> mail.fav > 0 /\ mail.del # FLAG_DELETE
      [] folder = "trash" -> mail.del = FLAG_DELETE
      [] OTHER            -> mail.del = FLAG_NO

\* MailServiceImpl.findPage: the condition on FLAG_FAV and FLAG_DEL of each folder
FolderFlags(folder, mail) ==
    CASE folder = "fav"   -> mail.fav > 0 /\ mail.del # FLAG_DELETE
      [] folder = "trash" -> mail.del = FLAG_TRASH
      [] OTHER            -> mail.del = FLAG_NO

OwnedBy(account, mail) == mail.acc = account.id /\ mail.owner = account.address

\* The rows of all pages of a folder's list.
FindPage(folder, account) ==
    {i \in DOMAIN emails :
        /\ OwnedBy(account, emails[i])
        /\ FolderFlags(folder, emails[i])
        /\ emails[i].folder = SystemFolder(folder)}

----
StoreInit ==
    /\ emails = << >>
    /\ accounts \in [Accounts -> Addresses \cup {NoAccount}]

StoreTypeOK ==
    /\ emails \in Seq(Mail)
    /\ accounts \in [Accounts -> Addresses \cup {NoAccount}]

\* What a request may never do to the table: remove a row, or write another
\* message's identity over it.  A save rewrites every column of the row from a
\* copy read earlier, so this rests on what each request does with its copy.
SameMail(m, n) ==
    /\ n.uid = m.uid /\ n.acc = m.acc /\ n.owner = m.owner
    /\ n.folder = m.folder /\ n.by = m.by

KeepsRows ==
    /\ Len(emails') >= Len(emails)
    /\ \A i \in DOMAIN emails : SameMail(emails[i], emails'[i])
====
