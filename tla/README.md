# Formal models of the web mail application

The application under `src/` is a web mail client: a Jetty server that keeps
users, accounts, messages and contacts in one SQLite database, fetches messages
from a POP3 server, sends them over SMTP, and serves one page (`home.html`) that
calls it with AJAX. There are no tests in the repository; what the program
promises is written in its comments, in `doc/ddl.sql` and in the messages the
page shows. The modules here are translated from the code. In the paths below
`J` is `src/src/main/java/cs601/webmail`.

## 1. Inventory

Every request runs on a thread of its own: `AccessAuditFilter`,
`AuthenticationCheckFilter`, `DispatchServlet`, one `ControllerPage`, a service, a
DAO, `QueryRunner`. `QueryRunner` opens a connection for each statement and
commits it at once (`J/frameworks/db/QueryRunner.java:50`, `:102`); `doInsert` uses
a connection of its own the same way. There is no transaction over two
statements, no lock around any of them and no unique constraint on EMAILS. So
**one SQL statement is one atomic step, and requests interleave between
statements**: this is the unit of atomicity of all models.

| Component | State | Operations | What is hard | What makes it correct |
|---|---|---|---|---|
| Message store (`MailDaoImpl`, `AccountDaoImpl`, `entity/Mail`) | EMAILS, ACCOUNTS | insert, update of a whole row, find by id, list of UIDs, list of a folder | updates write every column from a copy read earlier | no row is lost or replaced by another message |
| Synchronisation (`SyncMailsPage`, `MailServiceImpl.syncMails`, `Pop3Client`) | locals of `doSyncMails`, the POP3 session | read account, connect, read stored UIDs, UIDL, RETR, insert, QUIT | overlapping requests, settings changed meanwhile, failure at any statement, messages that stop or hang it | stored once, filed under the right mailbox, nothing skipped, answered |
| Mail actions and reading (`MailActionsPage`, `ReadMailPage`) | the request's ids and its copy of a row | trash, untrash, delete, star, unstar, read, unread, open | read-modify-write in two statements, several ids, failure in the middle | an ok answer is true; no update is lost by one request alone |
| Sending (`MailSendPage`, `SMTPClient`, `SocketClient`) | the SMTP session, `MESSAGE_SEED` | MAIL, RCPT, DATA, dot, QUIT, insert of the copy | lost replies, failure after delivery, changed account | everybody or nobody, ok means sent, the copy is of a sent mail |
| Mail lists and search (`MailListPage`, `MailSearchPage`, `findPage`) | none | folder conditions, sorting, paging | page and count are two statements; 32-bit positions | every mail is in the list its flags say |
| Home page (`home.html`, `webmail.js`, `mail_list.vm`) | current folder, list, reading pane, pagination, calls under way | load list, open, act, switch folder, search, refresh, compose | late and reordered answers; buttons that mean different things in different folders | a click does what the list the user sees says |
| Registration, login, session | users, session attributes | two forms, login, logout, filter | double submission, two visitors with one login id | one user per id, one account per user |
| Settings and profile | accounts, users | save account, change password | save before verification; boxed ids compared by identity | an error answer changes nothing |
| Dialogs of the page (`home.html`, the modal plugin of `bootstrap.js`) | what is shown, backdrops, transitions under way, handlers of their ends | refresh, compose, send, settings | three dialogs, seven kinds of calls and the transitions end in any order | the user waits while a call is under way, and gets the page back |
| Contacts | contacts | list, create, edit, star, disable, delete | the read-modify-write of the mail actions | as for mail |
| POP3 and SMTP sessions (`SocketClient` and its clients) | socket, listeners | connect, command, reply, close | replies that do not come, connections never closed | each reply belongs to its command, an ok is earned, the socket is closed |
| MIME and address parsing | none | line input, header tokens, addresses, multiparts | text at boundaries | pure functions |
| Web framework, configuration, utilities | static caches and formatters | dispatch, templates, dates, encryption | static `SimpleDateFormat` shared by threads | — |
| Vendored browser libraries | — | — | — | third-party; only the modal plugin is modelled |

How they interact: all pages share the two tables and nothing else; the page in
the browser sees only the header `x-state` of each answer; the settings form
changes the account under running synchronisations and sends; a sent message
puts a row into the table the list and the actions work on.

The hazards this leads to are listed, each at its line, in `PROJECT.json`.

## 2. Modules

| Module | Models | Lines of code it follows |
|---|---|---|
| `MailStore` | the tables and the SQL statements; no specification of its own | `MailDaoImpl`, `AccountDaoImpl`, `entity/Mail`, `findPage` |
| `MailSync` | `GET /rest/mail/sync` | `SyncMailsPage`, `doSyncMails`, `Pop3Client` |
| `MailActions` | `GET /rest/mail/control`, `GET /rest/mail/read` | `MailActionsPage`, `ReadMailPage` |
| `AtomicMail` | abstract: what the mail pages promise a user | – |
| `Mailbox` | `MailSync` and `MailActions` over one table | – |
| `MailSend` | `POST /rest/mail/send` | `MailSendPage`, `SMTPClient.send`, `SocketClient.close` |
| `Users` | registration, login, logout, settings | `RegisterPage`, `RegisterNextPage`, `LoginPage`, `LogoutPage`, `SettingsPage`, `UserDAOImpl`, `AccountDaoImpl` |
| `Connection` | one POP3 or SMTP connection, client and server | `SocketClient`, `Pop3Client`, `SMTPClient`, `AccountServiceImpl.verifyAccount` and `verifySMTPAccount`, the finally blocks of `MailSendPage` and `doSyncMails` |
| `HomePage` | the mail list of the page in the browser | `home.html`, `webmail.js`, `mail_list.vm`, `findPageByConditions`, `searchByTerm` |
| `Modal` | one modal dialog: operators, no specification of its own | `bootstrap.js` |
| `Dialogs` | the progress, settings and compose dialogs over `Modal` | `home.html` |
| `MailActionsProofs`, `MailSyncProofs`, `MailSendProofs`, `ConnectionProofs`, `UsersProofs`, `MailboxProofs`, `HomePageProofs`, `DialogsProofs` | lemmas and theorems | – |
| `MCMailSync`, `MCMailActions`, `MCMailbox`, `MCMailSend`, `MCUsers`, `MCConnection`, `MCHomePage`, `MCDialogs` | instances for TLC | – |

### State and actions against the code

**MailStore.** `emails` is the table: `MSGID` is an autoincrement key and no
request removes a row (nothing calls `removeByUID`), so row *i* is `emails[i]`.
A row has the columns some request reads or writes: `uid`, `acc` (ACCOUNTID),
`owner` (OWNER_ADDRESS), `folder`, `new`, `unread`, `fav`, `del`. Text columns do
not change after the insert and are left out. `by` is a history field: which
request thread imported the row. `accounts[a]` is the address of the account row,
or `NoAccount`. `ACCOUNTID` and `USERSID` are set and tested together and are one
field. `DoUpdate` writes the whole row, as `MailDaoImpl.doUpdate` does.

**MailSync.** `syncPC[t]` names the next statement of thread `t`:
`connect` (createInstance and login) → `local` (`findMailUIDs`) → `uidl`
(`listUniqueIdentifiers`) → `loop` ⇄ `save` → `ok` or `error`; `hung` is a thread
inside `getMessage` that waits for a line the server will not send. The POP3
server fixes the list of messages when the session logs in, so `Connect`
reads the maildrop. `SkipExisting` is the `continue` of the loop; `Retrieve` is
RETR with its two line loops; `RetrieveThrows` is `doResponseCheck` on a line of the
message; `SaveMail` is the insert with the two counters; `SavedButLookupFails` is the
failing `findByUID` at the end of `doInsert`, after the insert has been committed;
`Fails` is any other exception. `MessageArrives` and `MessageRemoved` are the mail
server and other mail clients (external); `ChangeAddress` is a save of the
settings or the registration form, at any time.

**MailActions.** One action per statement: `Find` is `findById` and the change of
the copy, `Save` the update and the step to the next id, `Render` the rest of
`ReadMailPage` after its save (account check and parsing; its changes of the entity
are never saved), `Throws` every exception. Opening is a request with at most one id
that saves only an unread mail. `touched[t]` is a history variable: the ids other
requests wrote since `t` read them. `MoveAccount` is a save of the settings, between any two
statements: the lists are those of the account's address (`findPage`), so that it empties
them without a click.

**MailSend.** `sendPC[t]` follows `doSendMail`: `connect` → `mail` → `rcpt` (one
step per recipient, the three loops in order) → `data` → `dot` → `quit` → `save` → `ok`;
`abort` is the finally block after an exception. `Dot` delivers: from there on the
server has the message, whether its reply arrives (`Dot`) or not (`DotReplyLost`).
`LoginFails` is outside the try block. `written` and `filed` are history variables.

**Users.** `users` and `accountRows` are the tables, `session[b]` the two
attributes of a browser's session (`login`, and `registering` between the two
registration forms), `form[b]` the account row as the settings dialog was loaded with
it, `req[t]` the request of a thread with the next statement in `pc`. First form:
`find` (→ `account` for a user who registered before with this password) or `insert` →
`created` → `next`; second form: `verify` → `add` → `clear`; login: `check` → `enter`;
settings: `save` → `password` → `update`, in this order: the account is written before the
current password is looked at. `LogIdFree` is the unique column `LOGID`: the table comes with the
repository in the database that `DBUtils` opens, `src/main/resources/webmail.db`, whose schema
says `users(UID INTEGER PRIMARY KEY AUTOINCREMENT, LOGID text unique not null, ...)`
(`doc/ddl.sql` only alters two other tables of it later); of two registrations that both found no
user, the second insert throws. A mail
password is only the number of times it was encrypted (`wraps`), since
`SettingsPage.restoreEntity` encrypts what the field holds, also when that is the
encrypted password the dialog was filled with. `SameUser` compares two boxed ids by
identity: equal ids above `BoxedUpTo` (127 in the JVM) are refused. `had`, `started` and
`together` are history fields of a user. `SessionEnds` is a logout or an expiry, between
two requests of the browser only: what a request does whose session ends under it is
left out. `Restart` drops sessions and requests and keeps tables and dialogs.

**Connection.** `job` is which of the four pieces of code runs the connection, `command`
and `phase` where its client stands: about to `write`, reading the `status` line, the
`rest` of a list or of the headers, or the `body`. A request is over at `done`. The server
(external) answers what it has been sent in order (`asked`, `wire`), with one line or,
for SMTP and the POP3 replies where the protocol lets it, with more; while it takes data it
takes commands for text; it hangs up when it likes. `ReadStatus` is a reply's first line
with the check of the code (`startsWith("250")`, or `"334 "` with the space); only the loop
behind HELO reads on, which is why any other reply of several lines puts the client out
of step (`wordy`). `Throw` says where an exception ends up in each of the four callers:
swallowed, answered, or answered after QUIT has been tried in a finally block, and
`ReadNull` what the code makes of a `readLine` that returns null at each place. `LetterFails`
is a letter without a recipient or with a body that cannot be encoded, after DATA is out.

**HomePage.** A browser page runs one handler at a time, so a handler is one step, and
the answer of a call is another. `folder` is `WM_RUNTIME.currentFolder`, `pages` the four
fields of `Pagination`, `rows` the elements of the list (each remembers for which list it
was rendered, whether it is selected, open, or fading out), `pane` the mail in the reading
pane, `enabled` and `refresh` the buttons as `updateUI` left them - they do not follow the
rows by themselves, which is what `EmptiedPageLeadsOn` is about. On the server a mail is in a
place, as in `AtomicMail`. A list call has three states, since rows and total are two
statements (`ListRead`, `ListCounted`). A callback holds elements and not mails: elements
that have left the list are touched in vain (`keys`).

**Modal and Dialogs.** `Modal` maps a dialog before a call of `modal()`, `modal('hide')` or
the end of a transition to the dialog after it, field by field as `bootstrap.js` does;
`inPage` are the backdrops in the document, of which `$backdrop` knows the last. `Dialogs`
has the handlers of `home.html` that call it. `hooks` are the handlers of
`hidden.bs.modal` by which the end of the progress dialog aborts a sync; the abort is the
browser's (`sync[s] = "aborted"`), the server's thread goes on until `ServerEnds`. `odd`
is a history variable with the three things the page has no guard against: a dialog shown
while it vanishes, an answer that opens one dialog over another, a second click on Send.
Properties that the code keeps only without them say so. The user has a mouse: what is
covered is not clicked. (With the keyboard a covered button can be reached, and none of
this holds.)

**Mailbox and AtomicMail.** `AtomicMail` has one variable, the place and the marks of
every message; a message is imported once, and each click changes one thing in
one step. `Mailbox` maps the table to it: a message without a row is absent, one row
shows its flags, two rows are "doubled", which no state of `AtomicMail` is.

## 3. Runs

Passing runs:

| Run | Bounds | What it shows |
|---|---|---|
| `sync_safety` | 2 threads, 1 account, 2 addresses, 2 unique ids, 2 arrivals, all failures | types; a thread never stores a message twice; ok means every listed message is stored; rows are filed under the mailbox they came from; the counter is right |
| `sync_liveness` | 1 thread, 2 addresses, 3 ids of which one stops and one hangs a request, 3 arrivals, no failures | every synchronisation is answered or waits for a message without an end; every message that stays is imported unless such a message, or an equal id of an earlier mailbox, is in the way |
| `actions_safety` | 2 threads, 8 requests (each action, one and two ids, no id), 2 rows | types; copies are stale only if another request wrote; ok means done for every id; no message is lost or overwritten |
| `mailbox_refines` | 1 thread of each kind, 2 addresses, 1 id, 1 sent copy, all failures | the composition implements `AtomicMail`; beside syncs and sent copies, and while the settings move the account from one address to the other, a message leaves the lists of its mailbox only by a click that says so (`MailVanishesByClick`); that two threads add only stale copies to this is proved (`ListedMailStays`) and not enumerated |
| `send` | 2 threads, 2 messages, 1 to 2 recipients in TO, CC and BCC, one form without TO, 2 addresses, all failures | types; everybody or nobody; ok means sent and filed; copies are of sent mails and filed under the sender; every request is answered |
| `users` | 2 threads, 1 browser, 2 login ids, 2 passwords, 2 users, 2 accounts, one successful first form per user, 1 boxed id, restarts and failures | types; a session belongs to the user whose login id was typed; no more accounts than first forms; settings write own accounts only; the working account stays; a changed password was preceded by a known one |
| `connection` | connections one after the other, each of the 4 uses, 2 messages | types; no reply is left over when the next command goes out, unless the server has been wordy; an ok is earned even then; which requests leave the connection open; every request ends |
| `home` | 2 mails, pages of 1, 2 calls under way of which a list call may be made before the last call is answered | types; a user who waits sees the folder, each mail once (`ListIsTheFolder`); nothing goes from the inbox to nowhere by a click on a row of the folder (`TrashFirst`) |
| `home_pages` | 3 mails, pages of 1, 1 call at a time | when the list of a folder with mails has run empty before a user who waits, a paging button leads to mails, unless the page was left behind, see below (`EmptiedPageLeadsOn`) |
| `dialogs` | 2 syncs in the server, 2 unanswered calls of every other kind, 2 backdrops and 2 hides of one dialog | types; one sync at a time (`OneSyncAtATime`); a dialog at rest is all there or all gone (`AtRest`); the page waits and comes back (`PageWaits`, `PageComesBack`); a letter is posted twice only by a click into the vanishing dialog (`PostedTwiceOnlyWhileFading`); what is written stays, but for the second answer to two clicks on Compose and the late answer to a letter that went out twice or met a dialog that came up late (`WrittenTextIsKept`) |

Why the bounds are enough: the properties of `MailSync` relate two rows, or one
thread to one row; a violation needs two threads, or one that runs twice, two
messages (so that one is stored and one is not when it fails) and two addresses (so
that the settings can change between read and insert). In `MailActions` a wrong
write needs a reader, a writer and two ids (the copy of the first must not reach the
second). In `MailSend` it needs two sessions, so that a recipient could be
left over, two accepted recipients and a refused one, and two addresses. In `Users`
the threads and not the browsers meet in the tables: two threads of one browser run two
first forms with one login id, two second forms, or two settings, and one browser that
logs in as another user keeps the dialog of the first; a second browser only
multiplies states. One first form per user suffices, as a registration is resumed when
the request of the first visit fails between the insert and the session (`created`), and
with one boxed id the second user meets the identity comparison. In `Connection` the
second message shows the step from RETR to RETR and the one from the last RETR to QUIT.
In `HomePage` pages of one mail make every second mail a page of its own: an
empty page, a last page that vanishes and a page in the middle (with three mails) all occur;
two calls under way are what it takes for the answer of one to find the list of the other.
Three mails and two calls together are beyond what TLC enumerates in the time of a run,
hence two runs. A search finds no more mails than a page holds. In `Dialogs` a
second backdrop is what an orphan needs, and a second call of each kind is the late one; a
third does nothing that a second cannot. The theorems of section 5 remove the bounds for
every safety property and for the implementation of `AtomicMail`; for liveness the argument
above is all there is.

Runs that find a disagreement between the code and what the repository says:

| Run | Property | What happens |
|---|---|---|
| `sync_overlap` | `StoredOnce` | two overlapping synchronisations store a message twice ("3. get intersection, skip it") |
| `users_epass` | `MailPasswordIsKept` | saving the settings without touching the mail password encrypts it a second time, and no login to the mail servers works after it ("Changes of settings saved.") |

`sync_overlap` and `DuplicatesNeedTwoThreads` belong together: one says that
the promise is broken, the other how much of it holds.

Other places where the code does not do what a comment or a message of the page says, which
the models have and a property describes from the other side:

- One message with a line that begins `-ERR` makes every synchronisation throw
  (`Pop3Client.doResponseCheck`, called on every line), and the messages behind it are never
  stored, where `MailServiceImpl.java:167` says "4. save remote": `SavedUnlessBlocked` has it
  as `Blocked`.
- A stale copy undoes a deletion after "Mail has been deleted forever!" (`home.html:723`):
  `StaleOnlyIfTouched`, `MailVanishesByClick`.
- A starred sent mail is not in the Starred list, where `MailServiceImpl.java:133` says
  "return all fav flag mail": `FindPage`.
- "Failed to send. Please check your input & try it later." (`home.html:1287`) is also what a
  letter gets that was delivered, if QUIT or the insert of the copy fails or the reply to the
  dot is lost, and a user who tries again sends it twice: `OkMeansSent` holds, its converse
  does not.
- "No more mails to load." (`home.html:473`): with two mails on pages of one, delete the mail
  of page 1 and click Next. Page 2 is not there any more, nothing counts the pages again
  (`Pagination.update`, `webmail.js:76`), no paging button leads to the other mail, and after a
  click on the trash button the refresh button is hidden too: the folder has to be opened
  anew. `LeftBehind` is this page, and `EmptiedPageLeadsOn` says that there is no other.
- "Failed to send. Please check your input & try it later." (`home.html:1287`): the input is
  gone from sight, and `openCompose` clears it whenever the dialog is opened: `ShowCompose`.
- "No new messages received" (`home.html:499`) is never shown: the header `x-update` is
  the text `0`, which is true in JavaScript; every successful sync loads the list again
  (`HomePage.SyncAnswered`).
- The tip of the delete button says "Delete forever" in the sent folder
  (`home.html:614`), where the button moves to the trash (`home.html:808`) - and from the
  trash nothing brings a sent mail back, or shows it: `MailVanishesByClick`.
- "try to login to SMTP server" (`RegisterNextPage.java:96`): an account whose SMTP login
  fails with an IOException is accepted: `Connection.Throw`.

Every property of a passing run has a seeded fault (the operators marked "Seeded
fault" in the modules, paired in `PROJECT.json`) with which it fails.

Deadlock is checked in every run: a request can always be made.

## 4. Fairness

Safety needs none. For liveness, `SyncFairSpec` and `SendFairSpec` assume weak
fairness of each thread's next statement: a Jetty thread runs until it returns,
and a server answers or hangs up. That last part is an assumption on the servers and not
on the code, whose sockets have no read timeout; where the code itself waits
for a line that no server sends, the thread is `hung` and fairness does not
help it. `SyncFairSpec` also assumes that a synchronisation of each account is
started again and again (strong fairness of `StartSync`: threads become free again and
again): without a refresh nothing is fetched. `sync_liveness` runs without
failures of the network, since a server that refuses every connection
delivers nothing. No fairness is assumed of arrivals, of other mail clients or
of the settings. `ConnFairSpec` assumes that the client's thread goes on when it can, and of
the server that it answers what it has been asked and that it hangs up some time when it
has nothing to answer (`WF(HangsUp)`): an assumption about servers, which time idle
connections out, and `RequestEnds` fails without it, since the sockets have no read timeout.
`DialogsFairSpec` assumes that calls which the progress dialog waits for are answered or
fail, and that transitions end (`emulateTransitionEnd` sees to it with a timer); nobody has to
click, and no fairness is assumed of the calls that open dialogs.

## 5. Proofs

TLAPS proves, for any number of threads, browsers, users, accounts, addresses, messages,
rows, calls under way and backdrops, and pages of any size:

| Theorem | Property |
|---|---|
| `MailSyncProofs!SyncTypesAlways` | `SyncTypeOK` |
| `MailSyncProofs!OneThreadStoresOnce` | `DuplicatesNeedTwoThreads` |
| `MailSyncProofs!ImportedIntoItsMailbox` | `FiledWhereItCameFrom` |
| `MailSyncProofs!OkMeansAllStored` | `OkMeansListed` |
| `MailSyncProofs!CountIsTrue` | `CountIsRowsAdded` |
| `MailActionsProofs!ActTypesAlways` | `ActTypeOK` |
| `MailActionsProofs!StaleCopyNeedsAnotherRequest` | `StaleOnlyIfTouched` |
| `MailActionsProofs!OkIsTrue` | `OkMeansDone` |
| `MailActionsProofs!NoRequestLosesMail` | `MailIsKept` |
| `MailActionsProofs!ListedMailStays` | `MailVanishesByClick` |
| `MailSendProofs!SendTypesAlways` | `SendTypeOK` |
| `MailSendProofs!EverybodyOrNobody` | `AllOrNobody` |
| `MailSendProofs!OkIsSent` | `OkMeansSent` |
| `MailSendProofs!CopiesAreOfSentMail` | `CopyIsOfASentMail` |
| `ConnectionProofs!TypesAreKept` | `ConnTypeOK` |
| `ConnectionProofs!ConnectionsAreClosed` | `ClosedUnlessNamed` |
| `ConnectionProofs!AnOkIsEarned` | `OkIsEarned` |
| `ConnectionProofs!StaysInStep` | `InStep` |
| `UsersProofs!UserTypesAlways` | `UsersTypeOK` |
| `UsersProofs!SessionsAreOwn` | `SessionIsOwn` |
| `UsersProofs!SettingsWriteOwnAccounts` | `SettingsAreOwn` |
| `UsersProofs!WorkingAccountIsKept` | `WorkingAccountStays` |
| `UsersProofs!PasswordsChangeKnown` | `PasswordChangeIsKnown` |
| `UsersProofs!OneAccountPerFirstForm` | `AccountPerFirstForm` |
| `MailboxProofs!ComponentsKeepTheirPromises` | `DuplicatesNeedTwoThreads`, `FiledWhereItCameFrom`, `OkMeansListed`, `StaleOnlyIfTouched`, `OkMeansDone`, of the two components over one table |
| `MailboxProofs!MailboxVanishesByClick` | `MailVanishesByClick`, beside syncs, sent copies and settings |
| `MailboxProofs!WaitingUserSeesClicksDone` | `WaitingUserSeesAtomicMail` |
| `HomePageProofs!HomeTypesAlways` | `HomeTypeOK` |
| `HomePageProofs!ListIsTrue` | `ListIsTheFolder` |
| `HomePageProofs!TrashComesFirst` | `TrashFirst` |
| `HomePageProofs!EmptiedPagesLeadOn` | `EmptiedPageLeadsOn` |
| `DialogsProofs!DialogTypesAlways` | `DialogsTypeOK` |
| `DialogsProofs!OneSyncWaits` | `OneSyncAtATime` |
| `DialogsProofs!RestsWhole` | `AtRest` |
| `DialogsProofs!WaitsBehindItsDialog` | `PageWaits` |
| `DialogsProofs!PostsAgainOnlyWhileFading` | `PostedTwiceOnlyWhileFading` |
| `DialogsProofs!TextIsKept` | `WrittenTextIsKept` |

These are all the safety properties and action properties of section 3, and each rests on
an inductive invariant that is a theorem as well (`SyncInvAlways`, `ActInvAlways`,
`SendInvAlways`, `UInvAlways`, `MailboxInvAlways`, `HomeInvAlways`, `WayInvAlways`,
`PageInvAlways`). The proofs use the named assumptions on the constants only:
`StoreAssumption`, `SyncAssumption`, `ActionsAssumption`, `SendAssumption`,
`ConnectionAssumption`, `HomeAssumption`, `NothingAssumption` (what stands for no row or no
call is not a row or a call), `DialogsAssumption` and `ModalAssumption` (`MaxHiding` is 1 or 2:
`FadeEnds` runs the handlers of up to two calls of `modal('hide')` that meet in one
transition); the proofs about `Users` need none. `WaitingUserSeesClicksDone` has one
hypothesis more, `OneOfEach`: at most one thread of each kind, which is what it means that the
user waits. Without it two overlapping synchronisations store a message twice (`sync_overlap`),
and no state of `AtomicMail` shows that.

*MailSync.* No property is inductive alone: that thread `t` inserts no message
twice needs to know that what it has inserted before this session is among
the stored ids it read (`OwnRowsAreKnown`, `LocalsAreStored`), that what it has
inserted in this session is behind its position (`PassedAreStored`), and that the
server's list has no id twice (`ServerInv`, `ListsItsMailbox`). `SyncInv` is the
conjunction of these with the type invariant and the two properties of the table.
`PassedAreStored` is also what makes an ok answer true, at the end of the loop. The proof has
one lemma per action, one step in it per conjunct the action can disturb, and lemmas
that say what an insert and a step of another thread leave true.

*MailActions.* `ActInv` says of each thread what its program counter means: at
`save` it holds a copy of a row that exists, of the same message, equal to the row
unless it was touched, and the ids before its position are done unless touched. An update
by another thread adds the id to `touched`, so that the invariant of every other thread
survives. `MailIsKept` follows from the invariant: what is written back is the same
message. `MailVanishesByClick` follows from it too: a copy that is not stale is the row, and
the conditions of the three lists (`ListsOfARow`) show that no other change of the flags
takes a row out of all of them (`EffectKeepsListed`), whatever address the lists are asked
for. That is said of the row alone (`LeavesByClick`), so that the settings, which move the
account and no row, and in `Mailbox` the inserts, need no more than `VanishingFromLists`.

*MailSend.* That the server holds exactly the recipients the RCPT loops have
passed (`EnvelopeFollows`) is what makes a delivery complete; that a Message-ID belongs
to one request (`IdsAreGivenOut`) and that a request works on the letter that is on
record under it (`OnRecord`) is what ties the delivery and the copy to the letter when
other threads send at the same time. `SendInv` adds `AllOrNobody` and
`CopyIsOfASentMail` themselves, which are facts about the past that each step keeps;
`LoopFacts` says what the loops over TO, CC and BCC pass.

*Connection.* `ConnInv` says which of the four pieces of code is at which command
(`Dialogue`) and what has become of the socket. `OkIsEarned` has to survive a client that
reads the lines of an earlier reply as the answer to a later command: `Earned` therefore
speaks of lines and not of replies. Wherever a `235` is on its way, the server has seen the
login (`Login`); a check of a POP3 login has at most one line or one command outstanding
(`PopReplies`); and the `354` for DATA, which the server sends for nothing else, brings a
client that was out of step back into step, so that a `250` after the text is the reply to
the text (`Letter`). `InStep` needs the opposite,
that at most one reply is outstanding, and the last line of a long one is its end: `OneReply`,
as long as the server has not been wordy.

*Users.* What a request has found out in one statement it uses in a later one. `UInv` says
that it is still so: rows are never removed and login ids and the user of an account never
change (`UsersKept`, `AccountsKept`), so that the session belongs to the login id typed
(`VisitOK`), a settings request writes an account of its user (`SettingsOK`), and a dialog
shows one, whoever has logged in since (`FormOK`). `WorkingAccountStays` is about the
first row of a user: new rows come behind it, and no row changes its user.

*Registration.* `AllowanceInv` counts, for every user who has not sent the second form twice
at once: accounts, plus requests that may still add one (`Filling`), plus browsers that may
still send a second form (`Invited`), are no more than the first forms that succeeded. A
first form raises both sides; a second form moves one unit from the browser to the request,
its insert moves it to the table, and a failure gives it back.

*Mailbox.* `MailboxInv` is the conjunction of the invariants of the two components and of
`ImportedOrSent`, which says where a row comes from. A click changes columns that no
synchronisation looks at, and a synchronisation only adds rows behind those that a click holds
a copy of; so each component keeps its invariant when the other makes a step, and with it
its properties (`ComponentsKeepTheirPromises`). For the refinement, one thread of each kind means
that no copy is ever stale (`NothingTouched`) and that no message has two rows (`OneRowEach`). Then
an import is `AtomicMail`'s import, a save is its click on the one message whose row it writes
(`SaveShows`), a row for a sent copy and every other statement a stutter.

*HomePage.* `PageTrue` says what holds on the page of a user who waits (`trusted`): one call is
under way at a time, no mail has two rows, a row that stays is of the folder and a row that
fades has left it (`RowTrue`) - but for what the server has done and not answered yet
(`Served`). `ListTrue` and `ControlTrue` say the same of a list and of an action under way; the
second also holds the reason for `TrashFirst`: no row that the list of the trash was rendered
with is in the inbox by the time it is deleted for ever. `EmptiedPageLeadsOn` needs to know more, since
the buttons stay as the last `updateUI` left them: `WayInv` adds that on page *n* the previous
button works and *that there is something behind it*. What an empty page cannot show is
counted: the mails of the folder which no row, no pane and no call of the page knows fill the
*n - 1* pages before (`LeadsBack`), and a user who waits cannot do anything to a mail he
cannot see. `LeadsOn` says that on the first page of several the next button works, `OnePage`
that a folder which never had a second page is listed whole. The lemmas about pages
(`PlaceIsTaken`, `PageHasMails`, `PagesBeforeAreFull`, `OnePageIsAll`) are facts about the rank
of a mail among the newer ones. On any page but one left behind the refresh
button is not needed, so the property does not mention it.

*Dialogs.* Of one dialog, `Linked` says that the backdrop it knows, and those that its
transitions end with, are in the document, and `ShownOnce` that it goes round a cycle of five
states with one backdrop, as long as it is not shown while it vanishes. Both are proved of
each call of `modal()` first, for any number of backdrops, and used as lemmas in the handlers of
the page. `PageInv` is what the page relies on: it is covered while a sync is running
(`SyncCovers`), hence no second sync is started (`OneSyncAtATime`); a posted letter is no longer
open (`PostedIsHidden`); and as long as nothing odd has gone on it waits for one call at a
time, behind its dialog (`OneCallWaits`). `LetterInv` adds what `WrittenTextIsKept` needs: the
compose dialog opens when the contacts have come, so the answer that resets an open one is a
second one; and while nothing odd has gone on, the progress dialog of a letter under way keeps
the compose dialog closed, so the answer to a letter finds no other that is being written.

*The counter.* `CountInv` stands on `SyncInv`: `updatedCount` is the number of rows the
thread has added for messages of its list that it did not know when it started. The set is
empty when the loop begins, since all rows of the thread are among the ids it read
(`OwnRowsAreKnown`), and one insert adds one row to it.

Only model-checked: liveness (`SyncIsAnswered`, `SavedUnlessBlocked`, `SendIsAnswered`,
`RequestEnds`, `PageComesBack`), since the prover has no rules for fairness and `ENABLED`.
The two runs of section 3 that find a disagreement are counterexamples, which need no proof.

## 6. Not modelled

- Text: subjects, addresses, bodies, dates and templates. What matters of a
  message is whether it stops or hangs the reader (`Poison`, `HeaderOnly`).
- In the mail modules the session gives the user, and a user works with one
  account. `Users` says what this rests on: `WorkingAccountStays`, and
  `AccountPerFirstForm` for a second form that is not sent twice at once.
- The checks of single fields of the forms, the audit filter, the session of a
  request that is running when its session ends.
- Crashes of the server: a restart loses the running requests, which is what
  an exception does to them; the tables are what they were.
- The contents of the copy in the sent folder, which records every line written
  to the server.
- Of the page: the folders Sent and Starred of the menu, the star and unread marks of a
  row, sorting, the fields of the compose form, the profile, the confirmation of a
  deletion, and the keyboard.
- Of a connection: STAT, LIST and TOP, which nothing calls; the listeners, which record
  what was written; a letter with several recipients (`MailSend` has them); the address
  lines that make `Connection.LetterFails` happen.
- Contacts (`contacts.html` and its pages): one more table with the read-modify-write of the
  mail actions. A model would ask what `MailActions` asks, of a row without the states that
  make the question hard there.
- The parsers of headers, addresses and multiparts, the web framework, and the static
  formatters that threads share (`DateTimeUtils`): text that no state depends on, and a race
  inside a library class.
- Vendored browser libraries (jQuery, require, backbone, underscore, mustache,
  magicsuggest, and of bootstrap everything but the modal plugin). They are most
  of the lines of JavaScript in the repository and none of its own logic; the program uses
  jQuery for calls, events and elements, and `HomePage` and `Dialogs` take these as their
  steps. A model of them would not say anything about this program, so the share of
  JavaScript lines that `map` covers stays small.

## 7. What could follow

The order in which the project was built: `MailStore`, `MailSync`, `MailActions`,
`AtomicMail` and `Mailbox`, `MailSend`, `Users`, `Connection`, `HomePage`, `Modal` and
`Dialogs`, with the proofs of the mail modules, of `Connection`, of `Users`, of `Mailbox`,
of `Dialogs` and of `HomePage` behind it.

Next would be: the menu's other folders in `HomePage`, with the marks of a row; `Contacts`;
and an abstract specification of sending, of which `EverybodyOrNobody` and `OkIsSent` would
be the refinement.
