---- MODULE MailboxProofs ----
(***************************************************************************)
(* Proofs about Mailbox: what MailSync and MailActions keep alone they     *)
(* keep over one table, and a user who waits sees AtomicMail.              *)
(***************************************************************************)
EXTENDS Mailbox, MailSyncProofs, MailActionsProofs

\* A row that no synchronisation inserted is the copy of a sent message.
ImportedOrSent ==
    \A i \in DOMAIN emails :
        \/ emails[i].by \in SyncThreads
        \/ emails[i].by = NoWriter /\ emails[i].uid = NoUid

MailboxInv == SyncInv /\ ActInv /\ ImportedOrSent

----
\* What a step of the synchronisations does to the table.
LEMMA SyncWrites ==
    ASSUME SyncNext
    PROVE  \/ UNCHANGED emails
           \/ \E t \in SyncThreads :
                /\ syncPC[t] = "save" /\ Import(t)
                /\ UNCHANGED <<accounts, serverVars, syncAccount>>
<1>1. ASSUME Environment PROVE UNCHANGED emails
  BY <1>1 DEF Environment, MessageArrives, MessageRemoved, ChangeAddress, SaveAccount, storeVars
<1>2. ASSUME NEW t \in SyncThreads, SaveMail(t) \/ SavedButLookupFails(t)
      PROVE  /\ syncPC[t] = "save" /\ Import(t)
             /\ UNCHANGED <<accounts, serverVars, syncAccount>>
  BY <1>2 DEF SaveMail, SavedButLookupFails, Throw
<1>3. ASSUME NEW t \in SyncThreads, SyncStep(t), ~SaveMail(t), ~SavedButLookupFails(t)
      PROVE  UNCHANGED emails
  BY <1>3
  DEF SyncStep, Proceed, StartSync, Connect, ReadLocalUIDs, ListRemote, NothingListed,
      SkipExisting, Retrieve, RetrieveThrows, CloseAndReply, Fails, ThrowOnly, storeVars
<1> QED
  BY <1>1, <1>2, <1>3 DEF SyncNext

\* What a click and a sent copy do to the table.
LEMMA ActWrites ==
    ASSUME NEW t \in ActThreads, ActStep(t)
    PROVE  Save(t) \/ UNCHANGED emails
BY DEF ActStep, Receive, ReceiveWithoutId, AnswerError, Find, Render, Throws, storeVars

LEMMA SentCopyAdds ==
    ASSUME SyncTypeOK, NEW a \in Accounts, SentCopy(a)
    PROVE  LET row == MailFor(NoUid, FindAccount(a), "sent", NoWriter)
               new == Len(emails) + 1
           IN  /\ row \in Mail
               /\ DOMAIN emails' = DOMAIN emails \cup {new} /\ new \notin DOMAIN emails
               /\ emails'[new] = row /\ \A i \in DOMAIN emails : emails'[i] = emails[i]
               /\ emails' \in Seq(Mail)
<1>1. FindAccount(a) \in Account
  BY DEF SentCopy, HasAccount, FindAccount, Account, SyncTypeOK, StoreTypeOK
<1>2. MailFor(NoUid, FindAccount(a), "sent", NoWriter) \in Mail
  BY <1>1, MailForIsMail
<1> QED
  BY <1>2, InsertFacts DEF SentCopy, NewMail, SyncTypeOK, StoreTypeOK

----
\* A synchronisation works with columns that no click changes, and does not look at rows
\* that were not imported.
LEMMA ClicksLeaveSyncInv ==
    ASSUME SyncInv, StoreTypeOK', UNCHANGED syncVars,
           DOMAIN emails \subseteq DOMAIN emails',
           \A i \in DOMAIN emails : SameMail(emails[i], emails'[i]),
           \A i \in DOMAIN emails' \ DOMAIN emails : emails'[i].by = NoWriter
    PROVE  SyncInv'
<1> USE DEF syncVars, serverVars, requestVars
<1>1. SyncTypeOK' /\ ServerInv'
  BY DEF SyncInv, SyncTypeOK, ServerInv
<1>2. \A i \in DOMAIN emails : /\ emails'[i].acc = emails[i].acc
                               /\ emails'[i].uid = emails[i].uid
                               /\ emails'[i].by = emails[i].by
                               /\ emails'[i].owner = emails[i].owner
  BY DEF SameMail
<1>3. DuplicatesNeedTwoThreads'
  BY <1>2 DEF SyncInv, DuplicatesNeedTwoThreads
<1>4. FiledWhereItCameFrom'
  BY <1>2 DEF SyncInv, FiledWhereItCameFrom
<1>5. ASSUME NEW t \in SyncThreads PROVE ThreadOK(t)'
  <2>1. t # NoWriter
    BY SyncAssumption, StoreAssumption
  <2>2. ThreadOK(t)
    BY DEF SyncInv
  <2>3. ASSUME NEW m, Stored(t, m) PROVE Stored(t, m)'
    BY <1>2, <2>3 DEF Stored, RowsOf
  <2>4. /\ KnowsAccount(t)' /\ ListsItsMailbox(t)'
        /\ StartsAtFirst(t)' /\ SavesANewMessage(t)'
    BY <2>2 DEF ThreadOK, KnowsAccount, ListsItsMailbox, StartsAtFirst, SavesANewMessage, Current
  <2>5. LocalsAreStored(t)'
    BY <2>2, <2>3 DEF ThreadOK, LocalsAreStored
  <2>6. PassedAreStored(t)'
    <3>1. SUFFICES ASSUME syncPC[t] \in {"loop", "save", "ok"},
                          NEW p \in DOMAIN remoteInfos[t], p < pos[t] \/ syncPC[t] = "ok"
                   PROVE  Stored(t, remoteInfos[t][p])'
      BY DEF PassedAreStored
    <3>2. Stored(t, remoteInfos[t][p])
      BY <2>2, <3>1 DEF ThreadOK, PassedAreStored
    <3> QED
      BY <1>2, <3>2 DEF Stored, RowsOf
  <2>7. OwnRowsAreKnown(t)'
    BY <1>2, <2>1, <2>2 DEF ThreadOK, OwnRowsAreKnown
  <2> QED
    BY <2>4, <2>5, <2>6, <2>7 DEF ThreadOK
<1> QED
  BY <1>1, <1>3, <1>4, <1>5 DEF SyncInv

\* A request of the list holds on to its row, whatever is imported meanwhile.
LEMMA SyncsLeaveActInv ==
    ASSUME ActInv, StoreTypeOK', UNCHANGED actVars,
           DOMAIN emails \subseteq DOMAIN emails',
           \A i \in DOMAIN emails : emails'[i] = emails[i]
    PROVE  ActInv'
<1>1. \A i \in DOMAIN emails : SameMail(emails[i], emails'[i])
  BY DEF SameMail
<1>2. \A t \in ActThreads : ThreadInv(t)'
  BY <1>1, OtherThreads DEF ActInv, actVars
<1>3. ActTypeOK'
  BY DEF ActInv, ActTypeOK, actVars
<1> QED
  BY <1>2, <1>3 DEF ActInv

----
LEMMA SyncNextKeeps ==
    ASSUME MailboxInv, SyncNext, UNCHANGED actVars
    PROVE  MailboxInv'
<1>1. SyncInv'
  BY SyncInvStep DEF MailboxInv
<1>2. StoreTypeOK'
  BY <1>1 DEF SyncInv, SyncTypeOK
<1>3. CASE UNCHANGED emails
  <2>1. ActInv'
    BY <1>2, <1>3, SyncsLeaveActInv DEF MailboxInv
  <2> QED
    BY <1>1, <1>3, <2>1 DEF MailboxInv, ImportedOrSent
<1>4. ASSUME NEW t \in SyncThreads, syncPC[t] = "save", Import(t)
      PROVE  MailboxInv'
  <2> DEFINE row == MailFor(Current(t), syncAccount[t], "inbox", t)
             new == Len(emails) + 1
  <2>1. /\ DOMAIN emails' = DOMAIN emails \cup {new}
        /\ emails'[new] = row /\ \A i \in DOMAIN emails : emails'[i] = emails[i]
    BY <1>4, ImportAdds DEF MailboxInv
  <2>2. row.by = t
    BY DEF MailFor
  <2> HIDE DEF row, new
  <2>3. ActInv'
    BY <1>2, <2>1, SyncsLeaveActInv DEF MailboxInv
  <2>4. ImportedOrSent'
    BY <2>1, <2>2 DEF MailboxInv, ImportedOrSent
  <2> QED
    BY <1>1, <2>3, <2>4 DEF MailboxInv
<1> QED
  BY <1>3, <1>4, SyncWrites

LEMMA SentCopyKeeps ==
    ASSUME MailboxInv, NEW a \in Accounts, SentCopy(a), UNCHANGED syncVars
    PROVE  MailboxInv'
<1> DEFINE row == MailFor(NoUid, FindAccount(a), "sent", NoWriter)
           new == Len(emails) + 1
<1>1. /\ DOMAIN emails' = DOMAIN emails \cup {new} /\ new \notin DOMAIN emails
      /\ emails'[new] = row /\ \A i \in DOMAIN emails : emails'[i] = emails[i]
      /\ emails' \in Seq(Mail)
  BY SentCopyAdds DEF MailboxInv, SyncInv
<1>2. row.by = NoWriter /\ row.uid = NoUid
  BY DEF MailFor
<1> HIDE DEF row, new
<1>3. accounts' = accounts /\ UNCHANGED actVars
  BY DEF SentCopy, NewMail
<1>4. StoreTypeOK'
  BY <1>1, <1>3 DEF MailboxInv, SyncInv, SyncTypeOK, StoreTypeOK
<1>5. SyncInv'
  <2>1. \A i \in DOMAIN emails : SameMail(emails[i], emails'[i])
    BY <1>1 DEF SameMail
  <2> QED
    BY <1>1, <1>2, <1>4, <2>1, ClicksLeaveSyncInv DEF MailboxInv
<1>6. ActInv'
  BY <1>1, <1>3, <1>4, SyncsLeaveActInv DEF MailboxInv
<1>7. ImportedOrSent'
  BY <1>1, <1>2 DEF MailboxInv, ImportedOrSent
<1> QED
  BY <1>5, <1>6, <1>7 DEF MailboxInv

LEMMA ActStepKeeps ==
    ASSUME MailboxInv, NEW t \in ActThreads, ActStep(t), UNCHANGED syncVars
    PROVE  MailboxInv'
<1>1. ActInv'
  BY ActInvStep DEF MailboxInv, ActNext
<1>2. StoreTypeOK'
  BY <1>1 DEF ActInv, ActTypeOK
<1>3. DOMAIN emails' = DOMAIN emails /\ \A i \in DOMAIN emails : SameMail(emails[i], emails'[i])
  <2>1. CASE Save(t)
    BY <2>1, SaveWrites DEF MailboxInv
  <2>2. CASE UNCHANGED emails
    BY <2>2 DEF SameMail
  <2> QED
    BY <2>1, <2>2, ActWrites
<1>4. SyncInv'
  BY <1>2, <1>3, ClicksLeaveSyncInv DEF MailboxInv
<1>5. ImportedOrSent'
  BY <1>3 DEF MailboxInv, ImportedOrSent, SameMail
<1> QED
  BY <1>1, <1>4, <1>5 DEF MailboxInv

LEMMA MailboxInvStep ==
    ASSUME MailboxInv, [MailboxNext]_mailboxVars
    PROVE  MailboxInv'
<1>1. CASE UNCHANGED mailboxVars
  <2>1. UNCHANGED syncAllVars /\ UNCHANGED actAllVars
    BY <1>1 DEF mailboxVars, syncAllVars, actAllVars
  <2>2. SyncInv' /\ ActInv'
    BY <2>1, SyncInvStep, ActInvStep DEF MailboxInv
  <2>3. ImportedOrSent'
    BY <2>1 DEF MailboxInv, ImportedOrSent, syncAllVars, storeVars
  <2> QED
    BY <2>2, <2>3 DEF MailboxInv
<1> QED
  BY <1>1, SyncNextKeeps, SentCopyKeeps, ActStepKeeps DEF MailboxNext

LEMMA MailboxInvInit == MailboxInit => MailboxInv
<1> SUFFICES ASSUME MailboxInit PROVE MailboxInv
  OBVIOUS
<1>1. SyncInv /\ ActInv
  BY SyncInvInit, ActInvInit DEF MailboxInit
<1>2. ImportedOrSent
  BY DEF MailboxInit, ActInit, StoreInit, ImportedOrSent
<1> QED
  BY <1>1, <1>2 DEF MailboxInv

THEOREM MailboxInvAlways == MailboxSpec => []MailboxInv
<1>1. MailboxInv /\ [MailboxNext]_mailboxVars => MailboxInv'
  BY MailboxInvStep
<1> QED
  BY <1>1, MailboxInvInit, PTL DEF MailboxSpec

\* Over one table, with imports and clicks between any two statements, each of the two
\* components keeps what it keeps alone: DuplicatesNeedTwoThreads and OkMeansListed of
\* MailServiceImpl.syncMails, StaleOnlyIfTouched and OkMeansDone of MailActionsPage.
THEOREM ComponentsKeepTheirPromises ==
    MailboxSpec => [](DuplicatesNeedTwoThreads /\ FiledWhereItCameFrom /\ OkMeansListed
                        /\ StaleOnlyIfTouched /\ OkMeansDone)
<1>1. MailboxInv => DuplicatesNeedTwoThreads /\ FiledWhereItCameFrom
  BY DEF MailboxInv, SyncInv
<1>2. MailboxInv => OkMeansListed
  <2> SUFFICES ASSUME MailboxInv, NEW t \in SyncThreads, syncPC[t] = "ok",
                      NEW u \in Seen(remoteInfos[t])
               PROVE  RowsOf(syncAccount[t].id, u) # {}
    BY DEF OkMeansListed
  <2>1. PICK p \in DOMAIN remoteInfos[t] : u = remoteInfos[t][p]
    BY DEF Seen
  <2> QED
    BY <2>1 DEF MailboxInv, SyncInv, ThreadOK, PassedAreStored, Stored
<1>3. MailboxInv => StaleOnlyIfTouched
  BY DEF MailboxInv, ActInv, ThreadInv, FreshUnlessTouched, StaleOnlyIfTouched
<1>4. MailboxInv => OkMeansDone
  BY DEF MailboxInv, ActInv, ThreadInv, DoneAfterLoop, OkMeansDone
<1> QED
  BY <1>1, <1>2, <1>3, <1>4, MailboxInvAlways, PTL

----
(* What leaves a list *)

LEMMA MailboxVanishing ==
    ASSUME MailboxInv, MailboxNext
    PROVE  Vanishing
<1> SUFFICES LeavesByClick
  BY VanishingFromLists DEF MailboxInv, ActInv, ActTypeOK
<1>1. CASE UNCHANGED emails
  BY <1>1, KeptRowsLeaveNot
<1>2. ASSUME NEW t \in SyncThreads, syncPC[t] = "save", Import(t)
      PROVE  LeavesByClick
  BY <1>2, ImportAdds, KeptRowsLeaveNot DEF MailboxInv
<1>3. ASSUME NEW a \in Accounts, SentCopy(a)
      PROVE  LeavesByClick
  BY <1>3, SentCopyAdds, KeptRowsLeaveNot DEF MailboxInv, SyncInv
<1>4. ASSUME NEW t \in ActThreads, ActStep(t)
      PROVE  LeavesByClick
  BY <1>1, <1>4, ActWrites, SaveLeavesByClick DEF MailboxInv
<1> QED
  BY <1>1, <1>2, <1>3, <1>4, SyncWrites DEF MailboxNext

\* With imports, sent copies, clicks and settings that move the accounts between any
\* two statements, a message leaves the lists of MailServiceImpl.findPage by a click, or
\* with its whole mailbox.
THEOREM MailboxVanishesByClick == MailboxSpec => MailVanishesByClick
<1>1. MailboxInv /\ [MailboxNext]_mailboxVars => [Vanishing]_storeVars
  BY MailboxVanishing DEF mailboxVars, storeVars
<1> QED
  BY <1>1, MailboxInvAlways, PTL DEF MailboxSpec, MailVanishesByClick, Vanishing

----
(* One user who waits *)

\* A user who waits for each answer has at most one request of each kind under way.
OneOfEach ==
    /\ \A s, t \in SyncThreads : s = t
    /\ \A s, t \in ActThreads : s = t

\* Then no other request writes a row between a find and its save.
NothingTouched == \A t \in ActThreads : touched[t] = {}

\* And a message has at most one row.
OneRowEach ==
    \A u \in UIDs : \A i, j \in DOMAIN emails :
        /\ emails[i].acc = emails[j].acc
        /\ emails[i].uid = u /\ emails[j].uid = u
        => i = j

LEMMA WaitingUserHasOneRowEach ==
    ASSUME OneOfEach, MailboxInv
    PROVE  OneRowEach
<1> SUFFICES ASSUME NEW u \in UIDs, NEW i \in DOMAIN emails, NEW j \in DOMAIN emails,
                    emails[i].acc = emails[j].acc,
                    emails[i].uid = u, emails[j].uid = u, i # j
             PROVE  FALSE
  BY DEF OneRowEach
<1>1. emails[i].by \in SyncThreads /\ emails[j].by \in SyncThreads
  BY StoreAssumption DEF MailboxInv, ImportedOrSent
<1>2. emails[i].by # NoWriter
  BY <1>1, SyncAssumption, StoreAssumption
<1>3. emails[i].by # emails[j].by
  BY <1>2 DEF MailboxInv, SyncInv, DuplicatesNeedTwoThreads
<1> QED
  BY <1>1, <1>3 DEF OneOfEach

LEMMA NothingTouchedStep ==
    ASSUME OneOfEach, ActTypeOK, NothingTouched, [MailboxNext]_mailboxVars
    PROVE  NothingTouched'
<1>1. CASE UNCHANGED touched
  BY <1>1 DEF NothingTouched
<1>2. ASSUME NEW t \in ActThreads, ActStep(t) PROVE NothingTouched'
  <2>1. CASE \/ \E request \in Requests : Receive(t, request) \/ ReceiveWithoutId(t, request)
             \/ Throws(t)
    BY <2>1 DEF ActTypeOK, NothingTouched, Receive, ReceiveWithoutId, Throws, AnswerError
  <2>2. CASE Find(t)
    BY <2>2 DEF ActTypeOK, NothingTouched, Find
  <2>3. CASE Render(t)
    BY <2>3 DEF NothingTouched, Render
  <2>4. CASE Save(t)
    BY <2>4 DEF OneOfEach, NothingTouched, Save
  <2> QED
    BY <1>2, <2>1, <2>2, <2>3, <2>4 DEF ActStep
<1> QED
  BY <1>1, <1>2 DEF MailboxNext, mailboxVars, SentCopy, NewMail, actVars

----
(* The refinement mapping *)

Shown(mail) == [place |-> Place(mail.del), starred |-> mail.fav > 0, unread |-> mail.unread > 0]

LEMMA WithoutARow ==
    ASSUME NEW a, NEW u, RowsOf(a, u) = {}
    PROVE  InTable(a, u) = Promise!Absent
<1>1. Cardinality({}) = 0 /\ ~(0 > 1)
  BY FS_EmptySet
<1> QED
  BY <1>1 DEF InTable, Promise!Absent, Promise!View

LEMMA WithOneRow ==
    ASSUME NEW a, NEW u, NEW i, RowsOf(a, u) = {i}
    PROVE  InTable(a, u) = Shown(emails[i])
<1>1. Cardinality({i}) = 1
  BY FS_Singleton
<1>2. (CHOOSE j \in RowsOf(a, u) : TRUE) = i
  OBVIOUS
<1> QED
  BY <1>1, <1>2 DEF InTable, Shown

\* The same, after a step.
LEMMA WithOneRowNext ==
    ASSUME NEW a, NEW u, NEW i, RowsOf(a, u)' = {i}
    PROVE  InTable(a, u)' = Shown(emails'[i])
<1>1. Cardinality({i}) = 1
  BY FS_Singleton
<1>2. (CHOOSE j \in RowsOf(a, u)' : TRUE) = i
  OBVIOUS
<1> QED
  BY <1>1, <1>2 DEF InTable, Shown

\* What a step does to the rows of other messages does not show.
LEMMA SameRowsShowTheSame ==
    ASSUME NEW a, NEW u, RowsOf(a, u)' = RowsOf(a, u),
           \A i \in RowsOf(a, u) : emails'[i] = emails[i]
    PROVE  InTable(a, u)' = InTable(a, u)
<1>1. CASE RowsOf(a, u) = {}
  BY <1>1 DEF InTable
<1>2. CASE RowsOf(a, u) # {}
  <2>1. (CHOOSE i \in RowsOf(a, u) : TRUE) \in RowsOf(a, u)
    BY <1>2
  <2> QED
    BY <2>1 DEF InTable
<1> QED
  BY <1>1, <1>2

\* Messages is the set of the abstract specification.
Msgs == Accounts \X UIDs
Box == [m \in Msgs |-> InTable(m[1], m[2])]

LEMMA TableUnchanged ==
    ASSUME UNCHANGED emails
    PROVE  Box' = Box
<1>1. \A a, u : RowsOf(a, u)' = RowsOf(a, u)
  BY DEF RowsOf
<1>2. \A a, u : InTable(a, u)' = InTable(a, u)
  BY <1>1, SameRowsShowTheSame
<1> QED
  BY <1>2 DEF Box

\* A step that one message shows.
LEMMA OneMessageChanges ==
    ASSUME NEW a \in Accounts, NEW u \in UIDs, NEW v, InTable(a, u)' = v,
           \A m \in Msgs : m # <<a, u>> => InTable(m[1], m[2])' = InTable(m[1], m[2])
    PROVE  /\ <<a, u>> \in Msgs
           /\ Box[<<a, u>>] = InTable(a, u)
           /\ Box' = [Box EXCEPT ![<<a, u>>] = v]
<1>1. <<a, u>> \in Msgs
  BY DEF Msgs
<1>2. \A m \in Msgs : Box[m] = InTable(m[1], m[2])
  BY DEF Box
<1>3. \A m \in Msgs : Box'[m] = InTable(m[1], m[2])'
  BY DEF Box
<1>4. Box' = [m \in Msgs |-> Box'[m]] /\ Box = [m \in Msgs |-> Box[m]]
  BY DEF Box
<1> HIDE DEF Box, Msgs
<1>5. \A m \in Msgs : Box'[m] = IF m = <<a, u>> THEN v ELSE Box[m]
  BY <1>2, <1>3
<1> QED
  BY <1>1, <1>2, <1>4, <1>5

\* The rows of a message after the table got a new row.
LEMMA NewRowOf ==
    ASSUME NEW new, new \notin DOMAIN emails, DOMAIN emails' = DOMAIN emails \cup {new},
           \A i \in DOMAIN emails : emails'[i] = emails[i],
           NEW a, NEW u
    PROVE  /\ RowsOf(a, u)' = IF emails'[new].acc = a /\ emails'[new].uid = u
                              THEN RowsOf(a, u) \cup {new} ELSE RowsOf(a, u)
           /\ \A i \in RowsOf(a, u) : emails'[i] = emails[i]
BY DEF RowsOf

\* A message that had no row gets one, with the flags of the entity's defaults.
LEMMA FirstRowShows ==
    ASSUME NEW a \in Accounts, NEW u \in UIDs, RowsOf(a, u) = {},
           NEW new, new \notin DOMAIN emails, DOMAIN emails' = DOMAIN emails \cup {new},
           \A i \in DOMAIN emails : emails'[i] = emails[i],
           emails'[new].acc = a, emails'[new].uid = u, emails'[new].del = FLAG_NO,
           emails'[new].fav = FLAG_NO, emails'[new].unread = FLAG_YES
    PROVE  Promise!Next
<1>1. RowsOf(a, u)' = {new}
  BY NewRowOf
<1>2. InTable(a, u) = Promise!Absent
  BY WithoutARow
<1>3. InTable(a, u)' = Promise!View("inbox", FALSE, TRUE)
  <2>1. InTable(a, u)' = Shown(emails'[new])
    BY <1>1, WithOneRowNext
  <2>2. Place(FLAG_NO) = "inbox"
    BY DEF Place, FLAG_NO, FLAG_TRASH, FLAG_DELETE
  <2>3. (FLAG_NO > 0) = FALSE /\ (FLAG_YES > 0) = TRUE
    BY DEF FLAG_NO, FLAG_YES
  <2>4. InTable(a, u)' = [place |-> "inbox", starred |-> FALSE, unread |-> TRUE]
    BY <2>1, <2>2, <2>3, Zenon DEF Shown
  <2> QED
    BY <2>4 DEF Promise!View
<1>4. ASSUME NEW m \in Msgs, m # <<a, u>>
      PROVE  InTable(m[1], m[2])' = InTable(m[1], m[2])
  <2>1. m[1] # a \/ m[2] # u
    BY <1>4 DEF Msgs
  <2>2. /\ RowsOf(m[1], m[2])' = RowsOf(m[1], m[2])
        /\ \A i \in RowsOf(m[1], m[2]) : emails'[i] = emails[i]
    BY <2>1, NewRowOf
  <2> QED
    BY <2>2, SameRowsShowTheSame
<1>5. <<a, u>> \in Msgs
  BY DEF Msgs
<1>6. Promise!Import(<<a, u>>)
  <2> DEFINE v == Promise!View("inbox", FALSE, TRUE)
  <2>1. \A m \in Msgs : m # <<a, u>> => InTable(m[1], m[2])' = InTable(m[1], m[2])
    BY <1>4
  <2>2. InTable(a, u)' = v
    BY <1>3
  <2> HIDE DEF v
  <2>3. Box[<<a, u>>] = InTable(a, u) /\ Box' = [Box EXCEPT ![<<a, u>>] = v]
    BY <2>1, <2>2, OneMessageChanges
  <2> QED
    BY <1>2, <2>3 DEF Box, Msgs, Promise!Import, v
<1> QED
  BY <1>5, <1>6 DEF Promise!Next, Msgs

\* A message is imported: it had no row.
LEMMA ImportShows ==
    ASSUME MailboxInv, OneOfEach, NEW t \in SyncThreads, syncPC[t] = "save", Import(t)
    PROVE  Promise!Next
<1> DEFINE a == syncAccount[t].id
           u == Current(t)
           row == MailFor(u, syncAccount[t], "inbox", t)
           new == Len(emails) + 1
<1>1. a \in Accounts /\ u \in UIDs
  <2>1. syncAccount[t] \in Account
    BY DEF MailboxInv, SyncInv, ThreadOK, KnowsAccount, Running
  <2> QED
    BY <2>1, ImportedRowIsMail DEF MailboxInv, Account
<1>2. /\ DOMAIN emails' = DOMAIN emails \cup {new} /\ new \notin DOMAIN emails
      /\ emails'[new] = row /\ \A i \in DOMAIN emails : emails'[i] = emails[i]
  BY ImportAdds DEF MailboxInv
<1>3. /\ row.acc = a /\ row.uid = u
      /\ row.del = FLAG_NO /\ row.fav = FLAG_NO /\ row.unread = FLAG_YES
  BY DEF MailFor
<1>4. RowsOf(a, u) = {}
  <2> SUFFICES ASSUME NEW i \in DOMAIN emails, emails[i].acc = a, emails[i].uid = u
               PROVE  FALSE
    BY DEF RowsOf
  <2>1. emails[i].by = t
    BY <1>1, StoreAssumption DEF MailboxInv, ImportedOrSent, OneOfEach
  <2>2. /\ pos[t] \in DOMAIN remoteInfos[t] /\ u \notin localUIDs[t]
        /\ NoRepeats(remoteInfos[t])
    BY DEF MailboxInv, SyncInv, ThreadOK, SavesANewMessage, ListsItsMailbox
  <2>3. PICK p \in DOMAIN remoteInfos[t] : p < pos[t] /\ remoteInfos[t][p] = u
    BY <2>1, <2>2 DEF MailboxInv, SyncInv, ThreadOK, OwnRowsAreKnown
  <2>4. p = pos[t]
    BY <2>2, <2>3 DEF NoRepeats, Current
  <2>5. pos[t] \in Nat
    BY DEF MailboxInv, SyncInv, SyncTypeOK
  <2> QED
    BY <2>3, <2>4, <2>5
<1> HIDE DEF a, u, row, new
<1> QED
  BY <1>1, <1>2, <1>3, <1>4, FirstRowShows

\* The copy of a sent message has no UID, and is no message of the mailbox.
LEMMA SentCopyShows ==
    ASSUME MailboxInv, NEW a \in Accounts, SentCopy(a)
    PROVE  Box' = Box
<1> DEFINE row == MailFor(NoUid, FindAccount(a), "sent", NoWriter)
           new == Len(emails) + 1
<1>1. /\ DOMAIN emails' = DOMAIN emails \cup {new} /\ new \notin DOMAIN emails
      /\ emails'[new] = row /\ \A i \in DOMAIN emails : emails'[i] = emails[i]
  BY SentCopyAdds DEF MailboxInv, SyncInv
<1>2. row.uid \notin UIDs
  BY StoreAssumption DEF MailFor
<1> HIDE DEF row, new
<1>3. ASSUME NEW m \in Msgs PROVE InTable(m[1], m[2])' = InTable(m[1], m[2])
  <2>1. m[2] \in UIDs
    BY DEF Msgs
  <2>2. /\ RowsOf(m[1], m[2])' = RowsOf(m[1], m[2])
        /\ \A i \in RowsOf(m[1], m[2]) : emails'[i] = emails[i]
    BY <1>1, <1>2, <2>1, NewRowOf
  <2> QED
    BY <2>2, SameRowsShowTheSame
<1> QED
  BY <1>3 DEF Box

----
\* A change of a copy is one of the clicks.
ClickOf(before, after) ==
    \/ \E place \in Promise!Places : after = [before EXCEPT !.place = place]
    \/ \E yes \in BOOLEAN : \/ after = [before EXCEPT !.starred = yes]
                            \/ after = [before EXCEPT !.unread = yes]

LEMMA EffectIsAClick ==
    ASSUME NEW mail \in Mail, NEW kind \in Kinds
    PROVE  /\ ClickOf(Shown(mail), Shown(Effect(kind, mail)))
           /\ Shown(mail) # Promise!Absent
<1> USE DEF FLAG_NO, FLAG_YES, FLAG_TRASH, FLAG_DELETE
<1>1. Place(mail.del) \in Promise!Places
  BY DEF Place, Mail, Promise!Places
<1>2. Shown(mail) # Promise!Absent
  BY <1>1 DEF Shown, Promise!Absent, Promise!View, Promise!Places
<1>3. ASSUME NEW after \in Mail, after.fav = mail.fav, after.unread = mail.unread
      PROVE  ClickOf(Shown(mail), Shown(after))
  <2>1. Place(after.del) \in Promise!Places
    BY DEF Place, Mail, Promise!Places
  <2>2. Shown(after) = [Shown(mail) EXCEPT !.place = Place(after.del)]
    BY <1>3 DEF Shown
  <2> QED
    BY <2>1, <2>2 DEF ClickOf
<1>4. ASSUME NEW after \in Mail, after.del = mail.del, after.unread = mail.unread
      PROVE  ClickOf(Shown(mail), Shown(after))
  <2>1. (after.fav > 0) \in BOOLEAN
    BY DEF Mail
  <2>2. Shown(after) = [Shown(mail) EXCEPT !.starred = (after.fav > 0)]
    BY <1>4 DEF Shown
  <2> QED
    BY <2>1, <2>2 DEF ClickOf
<1>5. ASSUME NEW after \in Mail, after.del = mail.del, after.fav = mail.fav
      PROVE  ClickOf(Shown(mail), Shown(after))
  <2>1. (after.unread > 0) \in BOOLEAN
    BY DEF Mail
  <2>2. Shown(after) = [Shown(mail) EXCEPT !.unread = (after.unread > 0)]
    BY <1>5 DEF Shown
  <2> QED
    BY <2>1, <2>2 DEF ClickOf
<1>6. Effect(kind, mail) \in Mail
  BY EffectFacts
<1>7. CASE kind \in {"trash", "untrash", "delete"}
  BY <1>2, <1>3, <1>6, <1>7 DEF Effect, Mail
<1>8. CASE kind \in {"star", "unstar"}
  BY <1>2, <1>4, <1>6, <1>8 DEF Effect, Mail
<1>9. CASE kind \in {"read", "unread", "open"}
  BY <1>2, <1>5, <1>6, <1>9 DEF Effect, Mail
<1> QED
  BY <1>7, <1>8, <1>9 DEF Kinds

\* The one row of a message is written.
LEMMA OneRowWritten ==
    ASSUME OneRowEach, NEW i \in DOMAIN emails,
           DOMAIN emails' = DOMAIN emails,
           \A j \in DOMAIN emails : SameMail(emails[j], emails'[j]),
           \A j \in DOMAIN emails \ {i} : emails'[j] = emails[j],
           NEW a \in Accounts, NEW u \in UIDs, emails[i].acc = a, emails[i].uid = u,
           ClickOf(Shown(emails[i]), Shown(emails'[i])), Shown(emails[i]) # Promise!Absent
    PROVE  Promise!Next
<1> DEFINE v == Shown(emails'[i])
<1>1. \A b, w : RowsOf(b, w)' = RowsOf(b, w)
  BY DEF RowsOf, SameMail
<1>2. RowsOf(a, u) = {i}
  BY DEF RowsOf, OneRowEach
<1>3. InTable(a, u) = Shown(emails[i]) /\ InTable(a, u)' = v
  <2>1. RowsOf(a, u)' = {i}
    BY <1>1, <1>2
  <2>2. InTable(a, u) = Shown(emails[i])
    BY <1>2, WithOneRow
  <2> QED
    BY <2>1, <2>2, WithOneRowNext
<1>4. ASSUME NEW m \in Msgs, m # <<a, u>>
      PROVE  InTable(m[1], m[2])' = InTable(m[1], m[2])
  <2>1. m[1] # a \/ m[2] # u
    BY <1>4 DEF Msgs
  <2>2. \A j \in RowsOf(m[1], m[2]) : emails'[j] = emails[j]
    BY <2>1 DEF RowsOf
  <2> QED
    BY <1>1, <2>2, SameRowsShowTheSame
<1>5. Promise!Click(<<a, u>>)
  <2> HIDE DEF v
  <2>1. /\ Box[<<a, u>>] = Shown(emails[i])
        /\ Box' = [Box EXCEPT ![<<a, u>>] = v]
    BY <1>3, <1>4, OneMessageChanges
  <2>2. ClickOf(Box[<<a, u>>], v) /\ Box[<<a, u>>] # Promise!Absent
    BY <2>1 DEF v
  <2>3. \/ \E place \in Promise!Places : Box' = [Box EXCEPT ![<<a, u>>].place = place]
        \/ \E yes \in BOOLEAN : \/ Box' = [Box EXCEPT ![<<a, u>>].starred = yes]
                                \/ Box' = [Box EXCEPT ![<<a, u>>].unread = yes]
    <3> HIDE DEF Box, Promise!Places
    <3> QED
      BY <2>1, <2>2 DEF ClickOf
  <2> QED
    BY <2>2, <2>3 DEF Box, Msgs, Promise!Click, Promise!Move, Promise!Star, Promise!Mark
<1> QED
  BY <1>5 DEF Promise!Next

\* The copy that is written is the row as it is.
LEMMA SaveShows ==
    ASSUME MailboxInv, OneOfEach, NothingTouched, NEW t \in ActThreads, Save(t)
    PROVE  Promise!Next \/ Box' = Box
<1> DEFINE i == CurrentId(t)
<1>1. /\ DOMAIN emails' = DOMAIN emails /\ i \in DOMAIN emails
      /\ \A j \in DOMAIN emails : SameMail(emails[j], emails'[j])
      /\ \A j \in DOMAIN emails \ {i} : emails'[j] = emails[j]
  BY SaveWrites DEF MailboxInv
<1>2. emails[i] \in Mail
  BY <1>1, ElementOfSeq, LenProperties DEF MailboxInv, SyncInv, SyncTypeOK, StoreTypeOK
<1>3. emails'[i] = Effect(Kind(t), emails[i])
  <2>1. actMail[t] = emails[i]
    BY DEF Save, NothingTouched, MailboxInv, ActInv, ThreadInv, FreshUnlessTouched, HoldsRow
  <2> QED
    BY <1>1, <2>1 DEF Save, DoUpdate
<1>4. Kind(t) \in Kinds
  BY DEF Kind, MailboxInv, ActInv, ActTypeOK
<1>5. ClickOf(Shown(emails[i]), Shown(emails'[i])) /\ Shown(emails[i]) # Promise!Absent
  BY <1>2, <1>3, <1>4, EffectIsAClick
<1> HIDE DEF i
<1>6. CASE emails[i].uid \in UIDs
  <2>1. emails[i].acc \in Accounts
    BY <1>2 DEF Mail
  <2> QED
    BY <1>1, <1>5, <1>6, <2>1, WaitingUserHasOneRowEach, OneRowWritten
<1>7. CASE emails[i].uid \notin UIDs
  <2>1. ASSUME NEW m \in Msgs PROVE InTable(m[1], m[2])' = InTable(m[1], m[2])
    <3>1. m[2] \in UIDs
      BY DEF Msgs
    <3>2. RowsOf(m[1], m[2])' = RowsOf(m[1], m[2])
      BY <1>1 DEF RowsOf, SameMail
    <3>3. \A j \in RowsOf(m[1], m[2]) : emails'[j] = emails[j]
      BY <1>1, <1>7, <3>1 DEF RowsOf
    <3> QED
      BY <3>2, <3>3, SameRowsShowTheSame
  <2> QED
    BY <2>1 DEF Box
<1> QED
  BY <1>6, <1>7

----
\* Every step of the pages is a step of AtomicMail, or one that the user does not see.
LEMMA PromiseStep ==
    ASSUME OneOfEach, MailboxInv, NothingTouched, [MailboxNext]_mailboxVars
    PROVE  [Promise!Next]_Box
<1>1. CASE UNCHANGED emails
  BY <1>1, TableUnchanged
<1>2. CASE SyncNext /\ ~UNCHANGED emails
  BY <1>2, SyncWrites, ImportShows
<1>3. CASE \E a \in Accounts : SentCopy(a)
  BY <1>3, SentCopyShows
<1>4. CASE \E t \in ActThreads : ActStep(t)
  BY <1>1, <1>4, ActWrites, SaveShows
<1> QED
  BY <1>1, <1>2, <1>3, <1>4 DEF MailboxNext, mailboxVars, storeVars

LEMMA PromiseInit == MailboxInit => Promise!Init
<1> SUFFICES ASSUME MailboxInit PROVE Promise!Init
  OBVIOUS
<1>1. \A a, u : RowsOf(a, u) = {}
  BY DEF MailboxInit, ActInit, StoreInit, RowsOf
<1>2. \A a, u : InTable(a, u) = Promise!Absent
  BY <1>1, WithoutARow
<1> HIDE DEF MailboxInit
<1> QED
  BY <1>2 DEF Promise!Init

\* The refinement of AtomicMail: a user who waits for each answer of MailActionsPage,
\* ReadMailPage and SyncPage sees every message arrive once and every click done at
\* once, for any number of accounts and messages and any requests.
THEOREM WaitingUserSeesClicksDone ==
    OneOfEach => (MailboxSpec => WaitingUserSeesAtomicMail)
<1> SUFFICES ASSUME OneOfEach PROVE MailboxSpec => WaitingUserSeesAtomicMail
  OBVIOUS
<1>1. MailboxInit => NothingTouched
  BY DEF MailboxInit, ActInit, NothingTouched
<1>2. MailboxInv /\ NothingTouched /\ [MailboxNext]_mailboxVars => NothingTouched'
  BY NothingTouchedStep DEF MailboxInv, ActInv
<1>3. MailboxInv /\ NothingTouched /\ [MailboxNext]_mailboxVars => [Promise!Next]_Box
  BY PromiseStep
<1> QED
  BY <1>1, <1>2, <1>3, MailboxInvAlways, PromiseInit, PTL
  DEF MailboxSpec, WaitingUserSeesAtomicMail, Promise!Spec, Box, Msgs
====
