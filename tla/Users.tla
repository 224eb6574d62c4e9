---- MODULE Users ----
(***************************************************************************)
(* The tables USERS and ACCOUNTS, the sessions, and the requests that      *)
(* change them: RegisterPage, RegisterNextPage, LoginPage, LogoutPage and  *)
(* SettingsPage, with the statements of UserDAOImpl and AccountDaoImpl.    *)
(* A statement is one atomic step, as in MailStore.                        *)
(***************************************************************************)
EXTENDS Naturals, Sequences, FiniteSets

CONSTANTS
    UserThreads,   \* request threads
    Browsers,      \* a browser has one session, and one settings dialog
    LoginIds,
    Passwords,
    NoPassword,    \* the password fields of the settings dialog are left empty
    Mailboxes,     \* the e-mail accounts users enter
    BoxedUpTo,     \* the ids of which Java keeps one boxed Long: 127
    MaxUsers,      \* bound: rows of USERS
    MaxAccounts,   \* bound: rows of ACCOUNTS
    MaxStarts,     \* bound: first registration forms that succeed, per user
    MaxWraps       \* bound: encryptions of one mail password

ASSUME UsersAssumption ==
    /\ NoPassword \notin Passwords
    /\ {BoxedUpTo, MaxUsers, MaxAccounts, MaxStarts, MaxWraps} \subseteq Nat

VARIABLES
    users,         \* table USERS: UID is AUTOINCREMENT, so row i is users[i]
    accountRows,   \* table ACCOUNTS: AID is AUTOINCREMENT
    session,       \* per browser: the attributes of its session
    form,          \* per browser: the settings dialog, as it was loaded
    req            \* per thread: the request it runs

usersVars == <<users, accountRows, session, form, req>>

----
\* "had", "started" and "together" are no columns: the passwords the user has had,
\* the first forms that succeeded, and whether one session sent two second forms at once.
User == [log : LoginIds, pass : Passwords, had : SUBSET Passwords,
         started : Nat, together : BOOLEAN]

\* Of the text columns, the mailbox, and how often EPASS was encrypted.
AccountRow == [user : Nat \ {0}, mailbox : Mailboxes, wraps : Nat \ {0}]

\* An attribute that holds a User; "log" and "pass" remember what the visitor typed.
Visitor == [user : Nat \ {0}, log : LoginIds, pass : Passwords]
Nobody == [user |-> 0]
Session == [login : Visitor \cup {Nobody}, registering : Visitor \cup {Nobody}]
NewSession == [login |-> Nobody, registering |-> Nobody]

NoForm == [id |-> 0]
Form == [id : Nat \ {0}, row : AccountRow]

NoRequest == [pc |-> "idle"]
Visit == [pc : {"find", "account", "insert", "created", "next", "check", "enter"}, by : Browsers,
          log : LoginIds, pass : Passwords, user : Nat]
Finish == [pc : {"verify", "add", "clear"}, by : Browsers, user : Nat \ {0},
           mailbox : Mailboxes]
Settings == [pc : {"save", "password", "update"}, by : Browsers, user : Nat \ {0},
             id : Nat \ {0}, row : AccountRow, pass : Passwords,
             change : Passwords \cup {NoPassword}]

At(t, label) == req[t].pc = label
Goto(t, label) == req' = [req EXCEPT ![t].pc = label]
Answer(t) == req' = [req EXCEPT ![t] = NoRequest]

----
\* The SQL statements.

\* select * from users where LOGID=?   (0: no row)
FindUserByLogId(log) ==
    IF \E i \in DOMAIN users : users[i].log = log
    THEN CHOOSE i \in DOMAIN users :
            users[i].log = log /\ \A j \in DOMAIN users : users[j].log = log => i <= j
    ELSE 0

AccountsOf(u) == {i \in DOMAIN accountRows : accountRows[i].user = u}

\* Seeded fault (WorkingAccountStays): the newest row instead of the first.
FindLastByUserId(u) ==
    IF AccountsOf(u) = {} THEN 0
    ELSE CHOOSE i \in AccountsOf(u) : \A j \in AccountsOf(u) : j <= i

\* findSingleByUserId: the first row   (0: no row)
FindSingleByUserId(u) ==
    IF AccountsOf(u) = {} THEN 0
    ELSE CHOOSE i \in AccountsOf(u) : \A j \in AccountsOf(u) : i <= j

\* The table ships with the repository: in src/main/resources/webmail.db, which
\* DBUtils opens, it is users(UID INTEGER PRIMARY KEY AUTOINCREMENT,
\* LOGID text unique not null, ...).  An insert of a second row with a LOGID throws.
LogIdFree(log) == \A i \in DOMAIN users : users[i].log # log

\* insert into users
InsertUser(log, pass) ==
    users' = Append(users, [log |-> log, pass |-> pass, had |-> {pass},
                            started |-> 0, together |-> FALSE])

\* insert into accounts
InsertAccount(row) == accountRows' = Append(accountRows, row)

\* update accounts set <every column> where AID=?
UpdateAccount(id, row) == accountRows' = [accountRows EXCEPT ![id] = row]

\* UPDATE USERS SET PASS = ? WHERE UID = ?
UpdatePass(u, pass) ==
    users' = [users EXCEPT ![u].pass = pass, ![u].had = @ \cup {pass}]

\* verifyUser: LoginIDExist and getPassword
VerifyUser(u, pass) == u # 0 /\ users[u].pass = pass

----
\* RegisterPage.doReg: the first form.

Register(t, b, log, pass) ==
    /\ At(t, "idle")
    /\ req' = [req EXCEPT ![t] = [pc |-> "find", by |-> b, log |-> log, pass |-> pass, user |-> 0]]
    /\ UNCHANGED <<users, accountRows, session, form>>

\* LoginIDExist and findUserByLogId.  Of a user who entered another password
\* nothing is asked further: "username already exist".
FindUser(t) ==
    /\ At(t, "find")
    /\ LET u == FindUserByLogId(req[t].log) IN
        \/ u = 0 /\ Goto(t, "insert")
        \/ VerifyUser(u, req[t].pass) /\ req' = [req EXCEPT ![t].pc = "account", ![t].user = u]
        \/ u # 0 /\ ~VerifyUser(u, req[t].pass) /\ Answer(t)
    /\ UNCHANGED <<users, accountRows, session, form>>

\* A user without an account goes on where the registration was left.
LookForAccount(t) ==
    /\ At(t, "account")
    /\ IF FindSingleByUserId(req[t].user) = 0 THEN Goto(t, "next") ELSE Answer(t)
    /\ UNCHANGED <<users, accountRows, session, form>>

AddUser(t) ==
    /\ At(t, "insert")
    /\ LogIdFree(req[t].log)
    /\ Len(users) < MaxUsers
    /\ InsertUser(req[t].log, req[t].pass)
    /\ Goto(t, "created")
    /\ UNCHANGED <<accountRows, session, form>>

\* Seeded fault (SessionIsOwn): the row that was added last, whoever added it.
LookUpNewestUser(t) ==
    /\ At(t, "created")
    /\ req' = [req EXCEPT ![t].pc = "next", ![t].user = Len(users)]
    /\ UNCHANGED <<users, accountRows, session, form>>

\* Two lookups of the new row.
LookUpAddedUser(t) ==
    /\ At(t, "created")
    /\ req' = [req EXCEPT ![t].pc = "next", ![t].user = FindUserByLogId(req[t].log)]
    /\ UNCHANGED <<users, accountRows, session, form>>

\* What the session keeps of the user, and what the visitor had typed.
VisitorOf(t) == [user |-> req[t].user, log |-> req[t].log, pass |-> req[t].pass]

JumpToNextStep(t) ==
    /\ At(t, "next")
    /\ users[req[t].user].started < MaxStarts
    /\ session' = [session EXCEPT ![req[t].by].registering = VisitorOf(t)]
    /\ users' = [users EXCEPT ![req[t].user].started = @ + 1]
    /\ Answer(t)
    /\ UNCHANGED <<accountRows, form>>

----
\* RegisterNextPage.doRegister: the second form.

\* A second form of this session is under way.
FormUnderWay(b) == \E t \in UserThreads : req[t].pc \in {"verify", "add", "clear"} /\ req[t].by = b

RegisterNext(t, b, mailbox) ==
    /\ At(t, "idle")
    /\ session[b].registering # Nobody
    /\ LET u == session[b].registering.user IN
        /\ req' = [req EXCEPT ![t] =
                    [pc |-> "verify", by |-> b, user |-> u, mailbox |-> mailbox]]
        /\ users' = [users EXCEPT ![u].together = @ \/ FormUnderWay(b)]
    /\ UNCHANGED <<accountRows, session, form>>

\* LoginIDExist, and a login to each of the two servers; a refusal is an answer.
VerifyAccount(t) ==
    /\ At(t, "verify")
    /\ Goto(t, "add") \/ Answer(t)
    /\ UNCHANGED <<users, accountRows, session, form>>

AddAccount(t) ==
    /\ At(t, "add")
    /\ Len(accountRows) < MaxAccounts
    /\ InsertAccount([user |-> req[t].user, mailbox |-> req[t].mailbox, wraps |-> 1])
    /\ Goto(t, "clear")
    /\ UNCHANGED <<users, session, form>>

\* Seeded fault (AccountPerFirstForm): the session still says that a user is registering.
KeepRegistering(t) ==
    /\ At(t, "clear")
    /\ Answer(t)
    /\ UNCHANGED <<users, accountRows, session, form>>

ClearRegistering(t) ==
    /\ At(t, "clear")
    /\ session' = [session EXCEPT ![req[t].by].registering = Nobody]
    /\ Answer(t)
    /\ UNCHANGED <<users, accountRows, form>>

----
\* LoginPage and LogoutPage.

Login(t, b, log, pass) ==
    /\ At(t, "idle")
    /\ req' = [req EXCEPT ![t] = [pc |-> "check", by |-> b, log |-> log, pass |-> pass, user |-> 0]]
    /\ UNCHANGED <<users, accountRows, session, form>>

CheckLogin(t) ==
    /\ At(t, "check")
    /\ LET u == FindUserByLogId(req[t].log) IN
        IF VerifyUser(u, req[t].pass)
        THEN req' = [req EXCEPT ![t].pc = "enter", ![t].user = u]
        ELSE Answer(t)
    /\ UNCHANGED <<users, accountRows, session, form>>

\* findUserByLogId: the login id of a row never changes.
EnterSession(t) ==
    /\ At(t, "enter")
    /\ session' = [session EXCEPT ![req[t].by].login = VisitorOf(t)]
    /\ Answer(t)
    /\ UNCHANGED <<users, accountRows, form>>

\* Logout, or the session expires: not while a request of the browser runs.
SessionEnds(b) ==
    /\ \A t \in UserThreads : ~At(t, "idle") => req[t].by # b
    /\ session' = [session EXCEPT ![b] = NewSession]
    /\ UNCHANGED <<users, accountRows, form, req>>

----
\* SettingsPage.

\* GET: the dialog shows the row, the encrypted password in its password field.
OpenSettings(b) ==
    /\ session[b].login # Nobody
    /\ LET id == FindSingleByUserId(session[b].login.user) IN
        form' = [form EXCEPT ![b] =
                    IF id = 0 THEN NoForm ELSE [id |-> id, row |-> accountRows[id]]]
    /\ UNCHANGED <<users, accountRows, session, req>>

\* Seeded fault (SettingsAreOwn): the form is not compared with the session.
AnyUser(u, v) == TRUE

\* account.getUserId() != user.getId(): two objects, one only for small ids.
SameUser(u, v) == u = v /\ u <= BoxedUpTo

\* Seeded fault (UsersTypeOK): a password that was typed is stored as it is.
EntityOfPlain(f, mailbox, typed) ==
    [f.row EXCEPT !.mailbox = mailbox, !.wraps = IF typed THEN 0 ELSE @]

\* restoreEntity encrypts what the password field holds, typed or not.
EntityOf(f, mailbox, typed) ==
    [f.row EXCEPT !.mailbox = mailbox, !.wraps = IF typed THEN 1 ELSE @ + 1]

\* POST.  A form without an account, or of another user, is refused.
SaveSettings(t, b, mailbox, typed, pass, change) ==
    /\ At(t, "idle")
    /\ session[b].login # Nobody
    /\ form[b] # NoForm
    /\ SameUser(form[b].row.user, session[b].login.user)
    /\ typed \/ form[b].row.wraps < MaxWraps
    /\ req' = [req EXCEPT ![t] =
                [pc |-> "save", by |-> b, user |-> session[b].login.user, id |-> form[b].id,
                 row |-> EntityOf(form[b], mailbox, typed), pass |-> pass, change |-> change]]
    /\ UNCHANGED <<users, accountRows, session, form>>

\* Seeded fault (PasswordChangeIsKnown): the new password is written at once.
SaveThenUpdate(t) ==
    /\ At(t, "save")
    /\ UpdateAccount(req[t].id, req[t].row)
    /\ IF req[t].change = NoPassword THEN Answer(t) ELSE Goto(t, "update")
    /\ UNCHANGED <<users, session, form>>

\* The account is saved before the current password is looked at.
SaveAccountRow(t) ==
    /\ At(t, "save")
    /\ UpdateAccount(req[t].id, req[t].row)
    /\ IF req[t].change = NoPassword THEN Answer(t) ELSE Goto(t, "password")
    /\ UNCHANGED <<users, session, form>>

CheckPassword(t) ==
    /\ At(t, "password")
    /\ IF VerifyUser(req[t].user, req[t].pass) THEN Goto(t, "update") ELSE Answer(t)
    /\ UNCHANGED <<users, accountRows, session, form>>

ChangePassword(t) ==
    /\ At(t, "update")
    /\ UpdatePass(req[t].user, req[t].change)
    /\ Answer(t)
    /\ UNCHANGED <<accountRows, session, form>>

----
\* A statement throws; or an insert with a login id that is taken meanwhile; or
\* the new password is empty or not confirmed.
RequestFails(t) ==
    /\ req[t].pc \in {"find", "account", "insert", "created", "add", "check",
                      "save", "password", "update"}
    /\ Answer(t)
    /\ UNCHANGED <<users, accountRows, session, form>>

\* The server restarts: sessions are in its memory, the dialogs in the browsers.
Restart ==
    /\ session' = [b \in Browsers |-> NewSession]
    /\ req' = [t \in UserThreads |-> NoRequest]
    /\ UNCHANGED <<users, accountRows, form>>

UsersInit ==
    /\ users = << >>
    /\ accountRows = << >>
    /\ session = [b \in Browsers |-> NewSession]
    /\ form = [b \in Browsers |-> NoForm]
    /\ req = [t \in UserThreads |-> NoRequest]

UsersNext ==
    \/ Restart
    \/ \E b \in Browsers : OpenSettings(b) \/ SessionEnds(b)
    \/ \E t \in UserThreads :
        \/ FindUser(t) \/ LookForAccount(t) \/ AddUser(t) \/ LookUpAddedUser(t)
        \/ JumpToNextStep(t) \/ VerifyAccount(t) \/ AddAccount(t) \/ ClearRegistering(t)
        \/ CheckLogin(t) \/ EnterSession(t)
        \/ SaveAccountRow(t) \/ CheckPassword(t) \/ ChangePassword(t) \/ RequestFails(t)
        \/ \E b \in Browsers :
            \/ \E log \in LoginIds, pass \in Passwords :
                Register(t, b, log, pass) \/ Login(t, b, log, pass)
            \/ \E mailbox \in Mailboxes :
                \/ RegisterNext(t, b, mailbox)
                \/ \E typed \in BOOLEAN, pass \in Passwords,
                      change \in Passwords \cup {NoPassword} :
                    SaveSettings(t, b, mailbox, typed, pass, change)

UsersSpec == UsersInit /\ [][UsersNext]_usersVars

----
\* Type invariant of the component.
UsersTypeOK ==
    /\ users \in Seq(User)
    /\ accountRows \in Seq(AccountRow)
    /\ session \in [Browsers -> Session]
    /\ form \in [Browsers -> Form \cup {NoForm}]
    /\ req \in [UserThreads -> Visit \cup Finish \cup Settings \cup {NoRequest}]

\* Two visitors may send the first form with one login id at the same time, and a
\* registration may be resumed: the user a session is registering or logged in as is
\* the one of the login id that was typed, with a password this user has had.
SessionIsOwn ==
    \A b \in Browsers : \A v \in {session[b].login, session[b].registering} \ {Nobody} :
        /\ v.user \in DOMAIN users
        /\ users[v.user].log = v.log
        /\ v.pass \in users[v.user].had

\* A user has no more accounts than first forms that succeeded, also when the second
\* form fails, is sent again, or the server restarts in the middle; unless the second
\* form is sent twice at once.
AccountPerFirstForm ==
    \A u \in DOMAIN users :
        Cardinality(AccountsOf(u)) <= users[u].started \/ users[u].together

\* Whoever has the browser logged in as another user meanwhile: the dialog of a user
\* writes accounts of the user the session belongs to, and of nobody else.
SettingsAreOwn ==
    [][\A i \in DOMAIN accountRows : accountRows'[i] # accountRows[i] =>
        \E t \in UserThreads :
            /\ At(t, "save")
            /\ req[t].user = accountRows[i].user
            /\ accountRows'[i].user = accountRows[i].user]_usersVars

\* The account a user works with stays the one it was: the models of the mail pages
\* rest on it, and the messages of an account are found by its id.
WorkingAccountStays ==
    [][\A u \in DOMAIN users :
        FindSingleByUserId(u) # 0 => FindSingleByUserId(u)' = FindSingleByUserId(u)]_usersVars

\* Whoever changes the password of a user has typed one that the user has had.
PasswordChangeIsKnown ==
    [][\A u \in DOMAIN users : users'[u].pass # users[u].pass =>
        \E t \in UserThreads :
            At(t, "update") /\ req[t].user = u /\ req[t].pass \in users[u].had]_usersVars

\* "Changes of settings saved.": what a user has not changed in the dialog is as it
\* was.  Decrypted once, the mail password is what the user typed.
MailPasswordIsKept == \A i \in DOMAIN accountRows : accountRows[i].wraps = 1
====
