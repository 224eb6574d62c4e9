---- MODULE MailSync ----
(***************************************************************************)
(* GET /rest/mail/sync: SyncMailsPage.body and MailServiceImpl.syncMails,  *)
(* with the POP3 session they drive.  Each request runs on a thread of its *)
(* own, and closing the progress dialog in the browser aborts only the     *)
(* AJAX call, so several synchronisations of one account may overlap.      *)
(***************************************************************************)
EXTENDS MailStore, FiniteSets

CONSTANTS
    SyncThreads,   \* request threads that may run a synchronisation
    Poison,        \* messages with a header or body line that begins "-ERR"
    HeaderOnly,    \* messages without the empty line that ends the headers
    Faulty,        \* whether connections and SQL statements may fail
    MaxArrivals    \* bound: messages that arrive in one behaviour

ASSUME SyncAssumption ==
    /\ SyncThreads \subseteq Writers
    /\ Poison \subseteq UIDs /\ HeaderOnly \subseteq UIDs
    /\ Faulty \in BOOLEAN
    /\ MaxArrivals \in Nat

VARIABLES
    maildrop,      \* per address: the messages on the POP3 server, oldest first
    assigned,      \* <<address, unique id>> of every message that ever arrived
    syncPC,        \* per thread: the statement of doSyncMails it is about to run
    syncAccount,   \* currentAccount, as read at the start of the request
    localUIDs,     \* keys of localUIDMap
    remoteInfos,   \* remoteMsgInfos: what the session holds is fixed when it logs in
    pos,           \* i + 1 of the for loop
    updatedCount

serverVars == <<maildrop, assigned>>
requestVars == <<syncPC, syncAccount, localUIDs, remoteInfos, pos, updatedCount>>
syncVars == <<serverVars, requestVars>>

\* Replied: the response has been written.  "hung" waits for a line that the server
\* will not send: the socket has no read timeout, so only the server can end it.
Replied == {"none", "ok", "error"}
Running == {"connect", "local", "uidl", "loop", "save"}

Seen(s) == {s[i] : i \in DOMAIN s}

----
\* External: the POP3 server.  A unique id is never used for two messages.

MessageArrives(address, uid) ==
    /\ <<address, uid>> \notin assigned
    /\ Cardinality(assigned) < MaxArrivals
    /\ maildrop' = [maildrop EXCEPT ![address] = Append(@, uid)]
    /\ assigned' = assigned \cup {<<address, uid>>}
    /\ UNCHANGED <<storeVars, requestVars>>

\* Another mail client removes the message.
MessageRemoved(address, i) ==
    /\ i \in DOMAIN maildrop[address]
    /\ maildrop' = [maildrop EXCEPT ![address] =
                        SubSeq(@, 1, i - 1) \o SubSeq(@, i + 1, Len(@))]
    /\ UNCHANGED <<assigned, storeVars, requestVars>>

\* The settings or the registration form saves the account.
ChangeAddress(a, address) ==
    /\ SaveAccount(a, address)
    /\ UNCHANGED <<serverVars, requestVars>>

----
\* The request.

Goto(t, label) == syncPC' = [syncPC EXCEPT ![t] = label]

\* Seeded fault (SyncTypeOK): the loop counts from zero.
FreshLocalsFromZero(t) ==
    /\ localUIDs' = [localUIDs EXCEPT ![t] = {}]
    /\ remoteInfos' = [remoteInfos EXCEPT ![t] = << >>]
    /\ pos' = [pos EXCEPT ![t] = 0]
    /\ updatedCount' = [updatedCount EXCEPT ![t] = 0]

\* The locals of doSyncMails when it is entered, and when it has been left.
FreshLocals(t) ==
    /\ localUIDs' = [localUIDs EXCEPT ![t] = {}]
    /\ remoteInfos' = [remoteInfos EXCEPT ![t] = << >>]
    /\ pos' = [pos EXCEPT ![t] = 1]
    /\ updatedCount' = [updatedCount EXCEPT ![t] = 0]

\* An exception out of doSyncMails: SyncMailsPage answers x-state: error.
Throw(t) ==
    /\ Goto(t, "error")
    /\ FreshLocals(t)
    /\ UNCHANGED <<accounts, serverVars, syncAccount>>

\* Nothing closes the client on the way out.
ThrowOnly(t) == Throw(t) /\ UNCHANGED emails

\* A user without an account row: account is null, and reading its POP server throws.
StartSync(t, a) ==
    /\ syncPC[t] \in Replied
    /\ IF HasAccount(a)
       THEN /\ Goto(t, "connect")
            /\ syncAccount' = [syncAccount EXCEPT ![t] = FindAccount(a)]
       ELSE Goto(t, "error") /\ UNCHANGED syncAccount
    /\ FreshLocals(t)
    /\ UNCHANGED <<storeVars, serverVars>>

\* createInstance and login
Connect(t) ==
    /\ syncPC[t] = "connect"
    /\ remoteInfos' = [remoteInfos EXCEPT ![t] = maildrop[syncAccount[t].address]]
    /\ Goto(t, "local")
    /\ UNCHANGED <<storeVars, serverVars, syncAccount, localUIDs, pos, updatedCount>>

ReadLocalUIDs(t) ==
    /\ syncPC[t] = "local"
    /\ localUIDs' = [localUIDs EXCEPT ![t] = FindMailUIDs(syncAccount[t].id)]
    /\ Goto(t, "uidl")
    /\ UNCHANGED <<storeVars, serverVars, syncAccount, remoteInfos, pos, updatedCount>>

ListRemote(t) ==
    /\ syncPC[t] = "uidl"
    /\ remoteInfos[t] # << >>
    /\ Goto(t, "loop")
    /\ UNCHANGED <<storeVars, serverVars, syncAccount, localUIDs, remoteInfos,
                   pos, updatedCount>>

\* An empty list, or null because the server closed the connection before it
\* answered UIDL: return 0, without closing the client.
NothingListed(t) ==
    /\ syncPC[t] = "uidl"
    /\ remoteInfos[t] = << >> \/ Faulty
    /\ Goto(t, "ok")
    /\ FreshLocals(t)
    /\ UNCHANGED <<storeVars, serverVars, syncAccount>>

Current(t) == remoteInfos[t][pos[t]]
AtMessage(t) == syncPC[t] = "loop" /\ pos[t] <= Len(remoteInfos[t])

\* Seeded fault (CountIsRowsAdded): the counter is incremented for every message.
SkipExistingCounted(t) ==
    /\ AtMessage(t)
    /\ Current(t) \in localUIDs[t]
    /\ pos' = [pos EXCEPT ![t] = @ + 1]
    /\ updatedCount' = [updatedCount EXCEPT ![t] = @ + 1]
    /\ UNCHANGED <<storeVars, serverVars, syncPC, syncAccount, localUIDs, remoteInfos>>

\* Seeded fault (SyncIsAnswered): continue without advancing the iterator.
SkipExistingStays(t) ==
    /\ AtMessage(t)
    /\ Current(t) \in localUIDs[t]
    /\ UNCHANGED <<storeVars, syncVars>>

SkipExisting(t) ==
    /\ AtMessage(t)
    /\ Current(t) \in localUIDs[t]
    /\ pos' = [pos EXCEPT ![t] = @ + 1]
    /\ UNCHANGED <<storeVars, serverVars, syncPC, syncAccount, localUIDs,
                   remoteInfos, updatedCount>>

\* RETR, read line by line: the headers end at the first empty line only.
Retrieve(t) ==
    /\ AtMessage(t)
    /\ Current(t) \notin localUIDs[t] \cup Poison
    /\ Goto(t, IF Current(t) \in HeaderOnly THEN "hung" ELSE "save")
    /\ UNCHANGED <<storeVars, serverVars, syncAccount, localUIDs, remoteInfos,
                   pos, updatedCount>>

\* Every line of the message goes through doResponseCheck.
RetrieveThrows(t) ==
    /\ AtMessage(t)
    /\ Current(t) \in Poison \ localUIDs[t]
    /\ ThrowOnly(t)

\* Seeded fault (FiledWhereItCameFrom): the account is looked up again for the insert.
ImportForCurrentAddress(t) ==
    DoInsert(MailFor(Current(t), FindAccount(syncAccount[t].id), "inbox", t))

Import(t) == DoInsert(MailFor(Current(t), syncAccount[t], "inbox", t))

SaveMail(t) ==
    /\ syncPC[t] = "save"
    /\ Import(t)
    /\ updatedCount' = [updatedCount EXCEPT ![t] = @ + 1]
    /\ pos' = [pos EXCEPT ![t] = @ + 1]
    /\ Goto(t, "loop")
    /\ UNCHANGED <<accounts, serverVars, syncAccount, localUIDs, remoteInfos>>

\* doInsert ends with a lookup of the new row; the insert is committed when it fails.
SavedButLookupFails(t) ==
    /\ Faulty
    /\ syncPC[t] = "save"
    /\ Import(t)
    /\ Throw(t)

\* Seeded fault (OkMeansListed): the loop stops one message early.
CloseAndReplyEarly(t) ==
    /\ syncPC[t] = "loop"
    /\ pos[t] >= Len(remoteInfos[t])
    /\ Goto(t, "ok")
    /\ UNCHANGED <<storeVars, serverVars, syncAccount, localUIDs, remoteInfos,
                   pos, updatedCount>>

\* QUIT and disconnect, then the response with x-update
CloseAndReply(t) ==
    /\ syncPC[t] = "loop"
    /\ pos[t] > Len(remoteInfos[t])
    /\ Goto(t, "ok")
    /\ UNCHANGED <<storeVars, serverVars, syncAccount, localUIDs, remoteInfos,
                   pos, updatedCount>>

\* A refused or closed connection, -ERR, a malformed UIDL line, a failed SQL
\* statement or a failed QUIT: every statement of the request may throw.
Fails(t) == Faulty /\ syncPC[t] \in Running \cup {"hung"} /\ ThrowOnly(t)

----
SyncInit ==
    /\ StoreInit
    /\ maildrop = [ad \in Addresses |-> << >>]
    /\ assigned = {}
    /\ syncPC = [t \in SyncThreads |-> "none"]
    /\ syncAccount = [t \in SyncThreads |-> NoAccount]
    /\ localUIDs = [t \in SyncThreads |-> {}]
    /\ remoteInfos = [t \in SyncThreads |-> << >>]
    /\ pos = [t \in SyncThreads |-> 1]
    /\ updatedCount = [t \in SyncThreads |-> 0]

\* The mail server and the forms.
Environment ==
    \/ \E ad \in Addresses, u \in UIDs : MessageArrives(ad, u)
    \/ \E ad \in Addresses : \E i \in DOMAIN maildrop[ad] : MessageRemoved(ad, i)
    \/ \E a \in Accounts, ad \in Addresses : ChangeAddress(a, ad)

\* What a running request does when nothing goes wrong.
Proceed(t) ==
    \/ Connect(t) \/ ReadLocalUIDs(t) \/ ListRemote(t) \/ NothingListed(t)
    \/ SkipExisting(t) \/ Retrieve(t) \/ RetrieveThrows(t)
    \/ SaveMail(t) \/ CloseAndReply(t)

SyncStep(t) ==
    \/ \E a \in Accounts : StartSync(t, a)
    \/ Proceed(t)
    \/ SavedButLookupFails(t) \/ Fails(t)

SyncNext == Environment \/ \E t \in SyncThreads : SyncStep(t)

syncAllVars == <<storeVars, syncVars>>

SyncSpec == SyncInit /\ [][SyncNext]_syncAllVars

----
\* Type invariant of the component.
SyncTypeOK ==
    /\ StoreTypeOK
    /\ maildrop \in [Addresses -> Seq(UIDs)]
    /\ assigned \subseteq Addresses \X UIDs
    /\ syncPC \in [SyncThreads -> Replied \cup Running \cup {"hung"}]
    /\ syncAccount \in [SyncThreads -> Account \cup {NoAccount}]
    /\ localUIDs \in [SyncThreads -> SUBSET (UIDs \cup {NoUid})]
    /\ remoteInfos \in [SyncThreads -> Seq(UIDs)]
    /\ pos \in [SyncThreads -> Nat \ {0}]
    /\ updatedCount \in [SyncThreads -> Nat]

\* The rows that hold message u of account a.
RowsOf(a, u) == {i \in DOMAIN emails : emails[i].acc = a /\ emails[i].uid = u}

\* "3. get intersection, skip it": a message is stored twice only when two
\* threads synchronised the account at once.  One thread, however often it
\* runs, whatever fails and whatever it has already imported, never stores a
\* message a second time.  The table has no constraint that would stop it.
DuplicatesNeedTwoThreads ==
    \A i, j \in DOMAIN emails :
        /\ i # j
        /\ emails[i].by # NoWriter
        /\ emails[i].acc = emails[j].acc
        /\ emails[i].uid = emails[j].uid
        => emails[i].by # emails[j].by

\* "3. get intersection, skip it": no message is stored twice, by whatever threads.
StoredOnce ==
    \A i, j \in DOMAIN emails :
        /\ emails[i].by # NoWriter
        /\ emails[i].acc = emails[j].acc
        /\ emails[i].uid = emails[j].uid
        => i = j

\* x-state: ok tells the truth about the list it worked from: every message of
\* it is in the table, imported by this request or by another one.
OkMeansListed ==
    \A t \in SyncThreads : syncPC[t] = "ok" =>
        \A u \in Seen(remoteInfos[t]) : RowsOf(syncAccount[t].id, u) # {}

\* An imported row is a message of the mailbox it is filed under, also when the
\* address of the account changed while the request ran.
FiledWhereItCameFrom ==
    \A i \in DOMAIN emails :
        emails[i].by # NoWriter => <<emails[i].owner, emails[i].uid>> \in assigned

\* "@return Updated mails' count": x-update counts the rows this request added.
CountIsRowsAdded ==
    \A t \in SyncThreads : syncPC[t] \in {"loop", "save", "ok"} =>
        updatedCount[t] =
            Cardinality({i \in DOMAIN emails :
                /\ emails[i].by = t
                /\ emails[i].uid \in Seen(remoteInfos[t]) \ localUIDs[t]
                /\ emails[i].acc = syncAccount[t].id})

----
\* Fairness: Jetty runs every request to its end, and a POP3 server answers.
SyncFairness == \A t \in SyncThreads : WF_syncAllVars(Proceed(t))

\* The users keep pressing the refresh button.
KeepRefreshing ==
    \A a \in Accounts : SF_syncAllVars(\E t \in SyncThreads : StartSync(t, a))

SyncFairSpec == SyncSpec /\ SyncFairness /\ KeepRefreshing

\* Every synchronisation is answered, unless it is reading a message whose
\* headers do not end: that request waits for ever.
SyncIsAnswered ==
    \A t \in SyncThreads :
        syncPC[t] \in Running ~>
            \/ syncPC[t] \in {"ok", "error"}
            \/ syncPC[t] = "hung" /\ Current(t) \in HeaderOnly

\* A message that stops every synchronisation of the mailbox has arrived, or one,
\* in any mailbox, that keeps the thread of every request that reads it.
Blocked(ad) ==
    \/ \E u \in Poison : <<ad, u>> \in assigned
    \/ \E u \in HeaderOnly, other \in Addresses : <<other, u>> \in assigned

Waits(a, ad, u) == u \in Seen(maildrop[ad]) /\ accounts[a] = ad

\* The message itself, and not one of an earlier mailbox with the same unique id.
ImportedFrom(a, ad, u) == \E i \in RowsOf(a, u) : emails[i].owner = ad

\* Unique ids are unique on one server only, and the list of step 1 is that of the
\* account whatever its address was: a new mailbox may reuse an id of the old one.
Shadowed(a, ad, u) == \E i \in RowsOf(a, u) : emails[i].owner # ad

\* A message that stays on the server of an account that keeps its address is in
\* the table in the end, if no message stops the synchronisations on the way and
\* no message of the account's earlier mailbox had its unique id.
SavedUnlessBlocked ==
    \A a \in Accounts, ad \in Addresses, u \in UIDs :
        Waits(a, ad, u) ~>
            \/ ImportedFrom(a, ad, u) \/ ~Waits(a, ad, u)
            \/ Blocked(ad) \/ Shadowed(a, ad, u)
====
