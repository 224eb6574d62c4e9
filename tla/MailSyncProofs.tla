---- MODULE MailSyncProofs ----
(***************************************************************************)
(* Proofs about MailSync, for any number of threads, messages, accounts    *)
(* and addresses: what overlapping and failing synchronisations leave in   *)
(* the table of messages.                                                  *)
(***************************************************************************)
EXTENDS MailSync, SequenceTheorems, FiniteSetTheorems, TLAPS

NoRepeats(s) == \A p, q \in DOMAIN s : s[p] = s[q] => p = q

\* The mail server lists a message once, and only messages that arrived.
ServerInv ==
    \A ad \in Addresses :
        /\ NoRepeats(maildrop[ad])
        /\ \A p \in DOMAIN maildrop[ad] : <<ad, maildrop[ad][p]>> \in assigned

\* The inductive invariant of one request.
KnowsAccount(t) == syncPC[t] \in Running \cup {"hung"} => syncAccount[t] \in Account

ListsItsMailbox(t) ==
    /\ NoRepeats(remoteInfos[t])
    /\ \A p \in DOMAIN remoteInfos[t] :
            <<syncAccount[t].address, remoteInfos[t][p]>> \in assigned

StartsAtFirst(t) == syncPC[t] \in {"connect", "local", "uidl"} => pos[t] = 1

SavesANewMessage(t) == syncPC[t] = "save" =>
    pos[t] \in DOMAIN remoteInfos[t] /\ Current(t) \notin localUIDs[t]

Stored(t, u) == RowsOf(syncAccount[t].id, u) # {}

LocalsAreStored(t) ==
    syncPC[t] \in {"uidl", "loop", "save"} => \A u \in localUIDs[t] : Stored(t, u)

PassedAreStored(t) == syncPC[t] \in {"loop", "save", "ok"} =>
    \A p \in DOMAIN remoteInfos[t] :
        p < pos[t] \/ syncPC[t] = "ok" => Stored(t, remoteInfos[t][p])

\* The rows this thread added in earlier requests were there when it read the
\* local ids, and those of this request are messages the loop has passed.
OwnRowsAreKnown(t) == syncPC[t] \in {"uidl", "loop", "save"} =>
    \A i \in DOMAIN emails :
        emails[i].by = t /\ emails[i].acc = syncAccount[t].id =>
            \/ emails[i].uid \in localUIDs[t]
            \/ \E p \in DOMAIN remoteInfos[t] :
                    p < pos[t] /\ remoteInfos[t][p] = emails[i].uid

ThreadOK(t) ==
    /\ KnowsAccount(t) /\ ListsItsMailbox(t) /\ StartsAtFirst(t)
    /\ SavesANewMessage(t) /\ LocalsAreStored(t) /\ PassedAreStored(t) /\ OwnRowsAreKnown(t)

SyncInv ==
    /\ SyncTypeOK /\ ServerInv
    /\ DuplicatesNeedTwoThreads /\ FiledWhereItCameFrom
    /\ \A t \in SyncThreads : ThreadOK(t)

----
\* Taking one message out of a list keeps the others, in their order.
LEMMA RemoveFacts ==
    ASSUME NEW S, NEW s \in Seq(S), NEW i \in DOMAIN s
    PROVE  LET r == SubSeq(s, 1, i - 1) \o SubSeq(s, i + 1, Len(s)) IN
           /\ r \in Seq(S)
           /\ \A p \in DOMAIN r : \E q \in DOMAIN s : r[p] = s[q]
           /\ NoRepeats(s) => NoRepeats(r)
<1> DEFINE a == SubSeq(s, 1, i - 1)
           b == SubSeq(s, i + 1, Len(s))
           r == a \o b
<1>1. /\ Len(s) \in Nat /\ DOMAIN s = 1..Len(s) /\ i \in 1..Len(s)
      /\ \A k \in 1..Len(s) : s[k] \in S
  BY LenProperties, ElementOfSeq
<1>2. a \in Seq(S) /\ Len(a) = i - 1 /\ \A k \in 1..(i - 1) : a[k] = s[k]
  BY <1>1, SubSeqProperties
<1>3. /\ b \in Seq(S) /\ Len(b) = Len(s) - i
      /\ \A k \in 1..(Len(s) - i) : b[k] = s[i + k]
  BY <1>1, SubSeqProperties
<1> HIDE DEF a, b
<1>4. /\ r \in Seq(S) /\ Len(r) = Len(s) - 1
      /\ \A k \in 1..(Len(s) - 1) : r[k] = IF k <= i - 1 THEN a[k] ELSE b[k - (i - 1)]
  <2>1. /\ r \in Seq(S) /\ Len(r) = Len(a) + Len(b)
        /\ \A k \in 1..(Len(a) + Len(b)) :
                r[k] = IF k <= Len(a) THEN a[k] ELSE b[k - Len(a)]
    BY <1>2, <1>3, ConcatProperties
  <2>2. Len(a) + Len(b) = Len(s) - 1
    BY <1>1, <1>2, <1>3
  <2> HIDE DEF r
  <2> QED
    BY <1>2, <2>1, <2>2
<1>5. DOMAIN r = 1..(Len(s) - 1)
  BY <1>4, LenProperties
<1>6. \A k \in 1..(Len(s) - 1) : r[k] = s[IF k < i THEN k ELSE k + 1]
  <2>1. SUFFICES ASSUME NEW k \in 1..(Len(s) - 1)
                 PROVE  r[k] = s[IF k < i THEN k ELSE k + 1]
    OBVIOUS
  <2> HIDE DEF r
  <2>2. CASE k < i
    <3>1. r[k] = a[k] /\ k \in 1..(i - 1)
      BY <1>1, <1>4, <2>2
    <3> QED
      BY <1>2, <2>2, <3>1
  <2>3. CASE ~(k < i)
    <3>1. /\ r[k] = b[k - (i - 1)]
          /\ k - (i - 1) \in 1..(Len(s) - i)
          /\ i + (k - (i - 1)) = k + 1
      BY <1>1, <1>4, <2>3
    <3> QED
      BY <1>3, <2>3, <3>1
  <2> QED
    BY <2>2, <2>3
<1>7. \A p \in DOMAIN r : \E q \in DOMAIN s : r[p] = s[q]
  <2>1. \A k \in 1..(Len(s) - 1) : (IF k < i THEN k ELSE k + 1) \in 1..Len(s)
    BY <1>1
  <2> QED
    BY <1>1, <1>5, <1>6, <2>1
<1>8. ASSUME NoRepeats(s) PROVE NoRepeats(r)
  <2>1. SUFFICES ASSUME NEW p \in 1..(Len(s) - 1), NEW q \in 1..(Len(s) - 1), r[p] = r[q]
                 PROVE  p = q
    BY <1>5 DEF NoRepeats
  <2>2. \A k \in 1..(Len(s) - 1) : (IF k < i THEN k ELSE k + 1) \in 1..Len(s)
    BY <1>1
  <2>3. (IF p < i THEN p ELSE p + 1) = (IF q < i THEN q ELSE q + 1)
    BY <1>1, <1>6, <1>8, <2>1, <2>2 DEF NoRepeats
  <2> QED
    BY <1>1, <2>3
<1> QED
  BY <1>4, <1>7, <1>8 DEF a, b

\* The same for a message that arrives.
LEMMA ArriveFacts ==
    ASSUME NEW S, NEW s \in Seq(S), NEW u \in S
    PROVE  LET r == Append(s, u) IN
           /\ r \in Seq(S)
           /\ \A p \in DOMAIN r : r[p] = u \/ \E q \in DOMAIN s : r[p] = s[q]
           /\ NoRepeats(s) /\ (\A q \in DOMAIN s : s[q] # u) => NoRepeats(r)
BY AppendProperties, LenProperties DEF NoRepeats

----
\* Type correctness.
LEMMA FreshLocalsTypes ==
    ASSUME SyncTypeOK, NEW t \in SyncThreads, FreshLocals(t)
    PROVE  /\ localUIDs' \in [SyncThreads -> SUBSET (UIDs \cup {NoUid})]
           /\ remoteInfos' \in [SyncThreads -> Seq(UIDs)]
           /\ pos' \in [SyncThreads -> Nat \ {0}]
           /\ updatedCount' \in [SyncThreads -> Nat]
BY EmptySeq DEF FreshLocals, SyncTypeOK

LEMMA ImportedRowIsMail ==
    ASSUME SyncInv, NEW t \in SyncThreads, syncPC[t] = "save"
    PROVE  /\ MailFor(Current(t), syncAccount[t], "inbox", t) \in Mail
           /\ Current(t) \in UIDs
<1>1. syncAccount[t] \in Account /\ pos[t] \in DOMAIN remoteInfos[t]
  BY DEF SyncInv, ThreadOK, KnowsAccount, SavesANewMessage, Running
<1>2. Current(t) \in UIDs
  BY <1>1, ElementOfSeq, LenProperties DEF Current, SyncInv, SyncTypeOK
<1> QED
  BY <1>1, <1>2, SyncAssumption DEF MailFor, Mail, Account, FLAG_NO, FLAG_YES

\* What the insert of a message adds to the table.
LEMMA ImportAdds ==
    ASSUME SyncInv, NEW t \in SyncThreads, syncPC[t] = "save", Import(t)
    PROVE  LET row == MailFor(Current(t), syncAccount[t], "inbox", t)
               new == Len(emails) + 1
           IN  /\ row \in Mail
               /\ DOMAIN emails' = DOMAIN emails \cup {new} /\ new \notin DOMAIN emails
               /\ emails'[new] = row /\ \A i \in DOMAIN emails : emails'[i] = emails[i]
               /\ emails' \in Seq(Mail)
<1> DEFINE row == MailFor(Current(t), syncAccount[t], "inbox", t)
<1>1. row \in Mail /\ emails \in Seq(Mail)
  BY ImportedRowIsMail DEF SyncInv, SyncTypeOK, StoreTypeOK
<1>2. emails' = Append(emails, row)
  BY DEF Import, DoInsert
<1> HIDE DEF row
<1>3. /\ emails' \in Seq(Mail)
      /\ DOMAIN emails' = DOMAIN emails \cup {Len(emails) + 1}
      /\ Len(emails) + 1 \notin DOMAIN emails
      /\ emails'[Len(emails) + 1] = row
      /\ \A i \in DOMAIN emails : emails'[i] = emails[i]
  BY <1>1, <1>2, AppendProperties, LenProperties
<1> QED
  BY <1>1, <1>3 DEF row

LEMMA SyncTypeStep ==
    ASSUME SyncInv, [SyncNext]_syncAllVars
    PROVE  SyncTypeOK'
<1> USE DEF SyncInv, SyncTypeOK, StoreTypeOK, Replied, Running
<1>1. ASSUME NEW ad \in Addresses, NEW u \in UIDs, MessageArrives(ad, u)
      PROVE  SyncTypeOK'
  <2>1. Append(maildrop[ad], u) \in Seq(UIDs)
    BY AppendProperties
  <2> QED
    BY <1>1, <2>1 DEF MessageArrives, storeVars, requestVars
<1>2. ASSUME NEW ad \in Addresses, NEW i \in DOMAIN maildrop[ad], MessageRemoved(ad, i)
      PROVE  SyncTypeOK'
  <2>1. SubSeq(maildrop[ad], 1, i - 1) \o SubSeq(maildrop[ad], i + 1, Len(maildrop[ad]))
            \in Seq(UIDs)
    BY RemoveFacts
  <2> QED
    BY <1>2, <2>1 DEF MessageRemoved, storeVars, requestVars
<1>3. ASSUME NEW a \in Accounts, NEW ad \in Addresses, ChangeAddress(a, ad)
      PROVE  SyncTypeOK'
  BY <1>3 DEF ChangeAddress, SaveAccount, serverVars, requestVars
<1>4. ASSUME NEW t \in SyncThreads, NEW a \in Accounts, StartSync(t, a)
      PROVE  SyncTypeOK'
  <2>1. HasAccount(a) => FindAccount(a) \in Account
    BY DEF HasAccount, FindAccount, Account
  <2>2. syncPC' \in [SyncThreads -> Replied \cup Running \cup {"hung"}]
    BY <1>4 DEF StartSync, Goto
  <2>3. syncAccount' \in [SyncThreads -> Account \cup {NoAccount}]
    BY <1>4, <2>1 DEF StartSync
  <2> QED
    BY <1>4, <2>2, <2>3, FreshLocalsTypes DEF StartSync, storeVars, serverVars
<1>5. ASSUME NEW t \in SyncThreads, Connect(t)
      PROVE  SyncTypeOK'
  <2>1. syncAccount[t].address \in Addresses
    BY <1>5 DEF Connect, ThreadOK, KnowsAccount, Account
  <2>2. maildrop[syncAccount[t].address] \in Seq(UIDs)
    BY <2>1
  <2> QED
    BY <1>5, <2>2 DEF Connect, Goto, storeVars, serverVars
<1>6. ASSUME NEW t \in SyncThreads, ReadLocalUIDs(t)
      PROVE  SyncTypeOK'
  <2>1. FindMailUIDs(syncAccount[t].id) \subseteq UIDs \cup {NoUid}
    <3>1. \A i \in DOMAIN emails : emails[i] \in Mail
      BY ElementOfSeq, LenProperties
    <3> QED
      BY <3>1 DEF FindMailUIDs, Mail
  <2> QED
    BY <1>6, <2>1 DEF ReadLocalUIDs, Goto, storeVars, serverVars
<1>7. ASSUME NEW t \in SyncThreads, ListRemote(t) \/ Retrieve(t) \/ CloseAndReply(t)
      PROVE  SyncTypeOK'
  BY <1>7 DEF ListRemote, Retrieve, CloseAndReply, Goto, storeVars, serverVars
<1>8. ASSUME NEW t \in SyncThreads, NothingListed(t)
      PROVE  SyncTypeOK'
  BY <1>8, FreshLocalsTypes DEF NothingListed, Goto, storeVars, serverVars
<1>9. ASSUME NEW t \in SyncThreads, SkipExisting(t)
      PROVE  SyncTypeOK'
  <2>1. pos[t] + 1 \in Nat \ {0}
    OBVIOUS
  <2> QED
    BY <1>9, <2>1 DEF SkipExisting, storeVars, serverVars
<1>10. ASSUME NEW t \in SyncThreads, ThrowOnly(t)
       PROVE  SyncTypeOK'
  BY <1>10, FreshLocalsTypes DEF ThrowOnly, Throw, Goto, serverVars
<1>11. ASSUME NEW t \in SyncThreads, syncPC[t] = "save", Import(t)
       PROVE  emails' \in Seq(Mail)
  BY <1>11, ImportAdds
<1>12. ASSUME NEW t \in SyncThreads, SaveMail(t)
       PROVE  SyncTypeOK'
  <2>1. pos[t] + 1 \in Nat \ {0} /\ updatedCount[t] + 1 \in Nat
    OBVIOUS
  <2> QED
    BY <1>11, <1>12, <2>1 DEF SaveMail, Goto, serverVars
<1>13. ASSUME NEW t \in SyncThreads, SavedButLookupFails(t)
       PROVE  SyncTypeOK'
  BY <1>11, <1>13, FreshLocalsTypes DEF SavedButLookupFails, Throw, Goto, serverVars
<1>14. CASE UNCHANGED syncAllVars
  BY <1>14 DEF syncAllVars, syncVars, storeVars, serverVars, requestVars
<1> QED
  BY <1>1, <1>2, <1>3, <1>4, <1>5, <1>6, <1>7, <1>8, <1>9, <1>10, <1>12, <1>13, <1>14
  DEF SyncNext, Environment, SyncStep, Proceed, RetrieveThrows, Fails

----
\* A request keeps its invariant when something else happens: messages arrive,
\* and rows of other threads are added.
LEMMA OtherRequests ==
    ASSUME SyncTypeOK, NEW u \in SyncThreads, ThreadOK(u),
           syncPC'[u] = syncPC[u], syncAccount'[u] = syncAccount[u],
           localUIDs'[u] = localUIDs[u], remoteInfos'[u] = remoteInfos[u],
           pos'[u] = pos[u],
           assigned \subseteq assigned',
           DOMAIN emails \subseteq DOMAIN emails',
           \A i \in DOMAIN emails : emails'[i] = emails[i],
           \A i \in DOMAIN emails' \ DOMAIN emails : emails'[i].by # u
    PROVE  ThreadOK(u)'
<1>1. ASSUME NEW m, Stored(u, m) PROVE Stored(u, m)'
  BY <1>1 DEF Stored, RowsOf
<1>2. /\ KnowsAccount(u)' /\ ListsItsMailbox(u)'
      /\ StartsAtFirst(u)' /\ SavesANewMessage(u)'
  BY DEF ThreadOK, KnowsAccount, ListsItsMailbox, StartsAtFirst, SavesANewMessage, Current
<1>3. LocalsAreStored(u)'
  BY <1>1 DEF ThreadOK, LocalsAreStored
<1>4. PassedAreStored(u)'
  <2>1. SUFFICES ASSUME syncPC[u] \in {"loop", "save", "ok"},
                        NEW p \in DOMAIN remoteInfos[u], p < pos[u] \/ syncPC[u] = "ok"
                 PROVE  Stored(u, remoteInfos[u][p])'
    BY DEF PassedAreStored
  <2>2. Stored(u, remoteInfos[u][p])
    BY <2>1 DEF ThreadOK, PassedAreStored
  <2> QED
    BY <2>2 DEF Stored, RowsOf
<1>5. OwnRowsAreKnown(u)'
  BY DEF ThreadOK, OwnRowsAreKnown
<1> QED
  BY <1>2, <1>3, <1>4, <1>5 DEF ThreadOK

\* The statements about rows only, when no row is added.
LEMMA RowsStay ==
    ASSUME SyncInv, UNCHANGED emails, assigned \subseteq assigned'
    PROVE  DuplicatesNeedTwoThreads' /\ FiledWhereItCameFrom'
BY DEF SyncInv, DuplicatesNeedTwoThreads, FiledWhereItCameFrom

\* The steps of a request that add no row and leave the server alone.
LEMMA QuietRequest ==
    ASSUME SyncInv, NEW t \in SyncThreads, ThreadOK(t)',
           UNCHANGED <<emails, serverVars>>,
           \A u \in SyncThreads \ {t} :
               /\ syncPC'[u] = syncPC[u] /\ syncAccount'[u] = syncAccount[u]
               /\ localUIDs'[u] = localUIDs[u] /\ remoteInfos'[u] = remoteInfos[u]
               /\ pos'[u] = pos[u]
    PROVE  /\ ServerInv' /\ DuplicatesNeedTwoThreads' /\ FiledWhereItCameFrom'
           /\ \A u \in SyncThreads : ThreadOK(u)'
<1>1. ServerInv'
  BY DEF SyncInv, ServerInv, serverVars
<1>2. \A u \in SyncThreads \ {t} : ThreadOK(u)'
  BY OtherRequests DEF SyncInv, serverVars
<1> QED
  BY <1>1, <1>2, RowsStay DEF serverVars

\* What every step has to show besides the types.
Rest == /\ ServerInv /\ DuplicatesNeedTwoThreads /\ FiledWhereItCameFrom
        /\ \A t \in SyncThreads : ThreadOK(t)

\* A request that has answered and dropped its locals owes nothing.
LEMMA AnsweredOK ==
    ASSUME SyncInv, NEW t \in SyncThreads, syncPC'[t] \in {"error", "ok"}, FreshLocals(t)
    PROVE  ThreadOK(t)'
<1>1. remoteInfos'[t] = << >> /\ DOMAIN << >> = {}
  BY DEF FreshLocals, SyncInv, SyncTypeOK
<1> QED
  BY <1>1
  DEF ThreadOK, KnowsAccount, ListsItsMailbox, StartsAtFirst, SavesANewMessage,
      LocalsAreStored, PassedAreStored, OwnRowsAreKnown, NoRepeats, Running

LEMMA StartStep ==
    ASSUME SyncInv, NEW t \in SyncThreads, NEW a \in Accounts, StartSync(t, a)
    PROVE  Rest'
<1> USE DEF SyncInv, SyncTypeOK
<1>1. CASE HasAccount(a)
  <2>1. /\ syncPC'[t] = "connect" /\ remoteInfos'[t] = << >> /\ DOMAIN << >> = {}
        /\ syncAccount'[t] \in Account /\ pos'[t] = 1
    BY <1>1 DEF StartSync, Goto, FreshLocals, HasAccount, FindAccount, Account, StoreTypeOK
  <2>2. ThreadOK(t)'
    BY <2>1
    DEF ThreadOK, KnowsAccount, ListsItsMailbox, StartsAtFirst, SavesANewMessage,
        LocalsAreStored, PassedAreStored, OwnRowsAreKnown, NoRepeats
  <2> QED
    BY <1>1, <2>2, QuietRequest DEF StartSync, Goto, FreshLocals, Rest, storeVars
<1>2. CASE ~HasAccount(a)
  <2>1. ThreadOK(t)'
    BY <1>2, AnsweredOK DEF StartSync, Goto
  <2> QED
    BY <1>2, <2>1, QuietRequest DEF StartSync, Goto, FreshLocals, Rest, storeVars
<1> QED
  BY <1>1, <1>2

LEMMA ThrowStep ==
    ASSUME SyncInv, NEW t \in SyncThreads, ThrowOnly(t)
    PROVE  Rest'
<1>1. ThreadOK(t)'
  BY AnsweredOK DEF ThrowOnly, Throw, Goto, SyncInv, SyncTypeOK
<1> QED
  BY <1>1, QuietRequest
  DEF ThrowOnly, Throw, Goto, FreshLocals, Rest, SyncInv, SyncTypeOK

LEMMA ConnectStep ==
    ASSUME SyncInv, NEW t \in SyncThreads, Connect(t)
    PROVE  Rest'
<1> USE DEF SyncInv, SyncTypeOK
<1>1. /\ syncPC[t] = "connect" /\ syncPC'[t] = "local"
      /\ remoteInfos'[t] = maildrop[syncAccount[t].address]
      /\ syncAccount' = syncAccount /\ assigned' = assigned /\ pos' = pos
  BY DEF Connect, Goto, serverVars
<1>2. syncAccount[t] \in Account /\ syncAccount[t].address \in Addresses
  BY <1>1 DEF ThreadOK, KnowsAccount, Running, Account
<1>3. ListsItsMailbox(t)'
  BY <1>1, <1>2 DEF ListsItsMailbox, ServerInv
<1>4. ThreadOK(t)'
  BY <1>1, <1>2, <1>3
  DEF ThreadOK, KnowsAccount, StartsAtFirst, SavesANewMessage, LocalsAreStored,
      PassedAreStored, OwnRowsAreKnown
<1> QED
  BY <1>4, QuietRequest DEF Connect, Goto, Rest, storeVars

LEMMA ReadLocalStep ==
    ASSUME SyncInv, NEW t \in SyncThreads, ReadLocalUIDs(t)
    PROVE  Rest'
<1> USE DEF SyncInv, SyncTypeOK
<1>1. /\ syncPC[t] = "local" /\ syncPC'[t] = "uidl"
      /\ localUIDs'[t] = FindMailUIDs(syncAccount[t].id)
      /\ UNCHANGED <<emails, syncAccount, remoteInfos, pos, assigned>>
  BY DEF ReadLocalUIDs, Goto, storeVars, serverVars
<1>2. KnowsAccount(t)' /\ ListsItsMailbox(t)' /\ StartsAtFirst(t)'
  BY <1>1 DEF ThreadOK, KnowsAccount, ListsItsMailbox, StartsAtFirst, Running
<1>3. LocalsAreStored(t)' /\ OwnRowsAreKnown(t)'
  BY <1>1 DEF LocalsAreStored, OwnRowsAreKnown, Stored, RowsOf, FindMailUIDs
<1>4. ThreadOK(t)'
  BY <1>1, <1>2, <1>3 DEF ThreadOK, SavesANewMessage, PassedAreStored
<1> QED
  BY <1>4, QuietRequest DEF ReadLocalUIDs, Goto, Rest, storeVars

LEMMA ListStep ==
    ASSUME SyncInv, NEW t \in SyncThreads, ListRemote(t)
    PROVE  Rest'
<1> USE DEF SyncInv, SyncTypeOK
<1>1. /\ syncPC[t] = "uidl" /\ syncPC'[t] = "loop"
      /\ UNCHANGED <<emails, syncAccount, localUIDs, remoteInfos, pos, assigned>>
  BY DEF ListRemote, Goto, storeVars, serverVars
<1>2. KnowsAccount(t)' /\ ListsItsMailbox(t)' /\ LocalsAreStored(t)' /\ OwnRowsAreKnown(t)'
  BY <1>1
  DEF ThreadOK, KnowsAccount, ListsItsMailbox, LocalsAreStored, OwnRowsAreKnown,
      Stored, RowsOf, Running
<1>3. PassedAreStored(t)'
  BY <1>1, LenProperties DEF ThreadOK, StartsAtFirst, PassedAreStored
<1> QED
  BY <1>1, <1>2, <1>3, QuietRequest
  DEF ListRemote, Goto, Rest, storeVars, ThreadOK, StartsAtFirst, SavesANewMessage

LEMMA NothingListedStep ==
    ASSUME SyncInv, NEW t \in SyncThreads, NothingListed(t)
    PROVE  Rest'
<1>1. ThreadOK(t)'
  BY AnsweredOK DEF NothingListed, Goto, SyncInv, SyncTypeOK
<1> QED
  BY <1>1, QuietRequest
  DEF NothingListed, Goto, FreshLocals, Rest, SyncInv, SyncTypeOK, storeVars

LEMMA SkipStep ==
    ASSUME SyncInv, NEW t \in SyncThreads, SkipExisting(t)
    PROVE  Rest'
<1> USE DEF SyncInv, SyncTypeOK
<1>1. /\ syncPC[t] = "loop" /\ Current(t) \in localUIDs[t] /\ pos'[t] = pos[t] + 1
      /\ UNCHANGED <<emails, syncPC, syncAccount, localUIDs, remoteInfos, assigned>>
  BY DEF SkipExisting, AtMessage, storeVars, serverVars
<1>2. DOMAIN remoteInfos[t] \subseteq Nat /\ pos[t] \in Nat
  BY LenProperties
<1>3. KnowsAccount(t)' /\ ListsItsMailbox(t)' /\ LocalsAreStored(t)'
  BY <1>1
  DEF ThreadOK, KnowsAccount, ListsItsMailbox, LocalsAreStored, Stored, RowsOf
<1>4. OwnRowsAreKnown(t)'
  <2>1. \A p \in DOMAIN remoteInfos[t] : p < pos[t] => p < pos[t] + 1
    BY <1>2
  <2>2. OwnRowsAreKnown(t)
    BY DEF ThreadOK
  <2> QED
    BY <1>1, <2>1, <2>2 DEF OwnRowsAreKnown
<1>5. PassedAreStored(t)'
  <2>1. SUFFICES ASSUME NEW p \in DOMAIN remoteInfos[t], p < pos[t] + 1
                 PROVE  Stored(t, remoteInfos[t][p])
    BY <1>1 DEF PassedAreStored, Stored, RowsOf
  <2>2. CASE p < pos[t]
    BY <1>1, <2>2 DEF ThreadOK, PassedAreStored
  <2>3. CASE p = pos[t]
    BY <1>1, <2>3 DEF ThreadOK, LocalsAreStored, Current
  <2> QED
    BY <1>2, <2>1, <2>2, <2>3
<1> QED
  BY <1>1, <1>3, <1>4, <1>5, QuietRequest
  DEF SkipExisting, Rest, storeVars, ThreadOK, StartsAtFirst, SavesANewMessage

LEMMA RetrieveStep ==
    ASSUME SyncInv, NEW t \in SyncThreads, Retrieve(t)
    PROVE  Rest'
<1> USE DEF SyncInv, SyncTypeOK
<1>1. /\ syncPC[t] = "loop" /\ syncPC'[t] \in {"save", "hung"}
      /\ pos[t] \in DOMAIN remoteInfos[t] /\ Current(t) \notin localUIDs[t]
      /\ UNCHANGED <<emails, syncAccount, localUIDs, remoteInfos, pos, assigned>>
  <2>1. pos[t] <= Len(remoteInfos[t]) /\ pos[t] \in Nat \ {0}
    BY DEF Retrieve, AtMessage
  <2> QED
    BY <2>1, LenProperties DEF Retrieve, AtMessage, Goto, storeVars, serverVars
<1>2. /\ KnowsAccount(t)' /\ ListsItsMailbox(t)' /\ StartsAtFirst(t)'
      /\ SavesANewMessage(t)' /\ LocalsAreStored(t)' /\ PassedAreStored(t)'
  BY <1>1
  DEF ThreadOK, KnowsAccount, ListsItsMailbox, StartsAtFirst, SavesANewMessage,
      LocalsAreStored, PassedAreStored, Stored, RowsOf, Running, Current
<1>3. OwnRowsAreKnown(t)'
  BY <1>1 DEF ThreadOK, OwnRowsAreKnown
<1> QED
  BY <1>2, <1>3, QuietRequest DEF Retrieve, Goto, Rest, storeVars, ThreadOK

LEMMA CloseStep ==
    ASSUME SyncInv, NEW t \in SyncThreads, CloseAndReply(t)
    PROVE  Rest'
<1> USE DEF SyncInv, SyncTypeOK
<1>1. /\ syncPC[t] = "loop" /\ syncPC'[t] = "ok" /\ pos[t] > Len(remoteInfos[t])
      /\ UNCHANGED <<emails, syncAccount, localUIDs, remoteInfos, pos, assigned>>
  BY DEF CloseAndReply, Goto, storeVars, serverVars
<1>2. \A p \in DOMAIN remoteInfos[t] : p < pos[t]
  BY <1>1, LenProperties
<1>3. PassedAreStored(t)'
  BY <1>1, <1>2 DEF ThreadOK, PassedAreStored, Stored, RowsOf
<1>4. ThreadOK(t)'
  BY <1>1, <1>3
  DEF ThreadOK, KnowsAccount, ListsItsMailbox, StartsAtFirst, SavesANewMessage,
      LocalsAreStored, OwnRowsAreKnown, Running
<1> QED
  BY <1>4, QuietRequest DEF CloseAndReply, Goto, Rest, storeVars

----
\* The insert of a message: the new row is the first one of its thread for that
\* message, and it names the mailbox it was read from.
LEMMA ImportRows ==
    ASSUME SyncInv, NEW t \in SyncThreads, syncPC[t] = "save", Import(t),
           UNCHANGED <<serverVars, syncAccount>>
    PROVE  /\ DOMAIN emails \subseteq DOMAIN emails'
           /\ \A i \in DOMAIN emails : emails'[i] = emails[i]
           /\ \A i \in DOMAIN emails' \ DOMAIN emails :
                /\ emails'[i].by = t
                /\ emails'[i].acc = syncAccount[t].id
                /\ emails'[i].uid = Current(t)
           /\ \E i \in DOMAIN emails' : /\ emails'[i].acc = syncAccount[t].id
                                        /\ emails'[i].uid = Current(t)
           /\ ServerInv' /\ DuplicatesNeedTwoThreads' /\ FiledWhereItCameFrom'
<1> DEFINE row == MailFor(Current(t), syncAccount[t], "inbox", t)
           new == Len(emails) + 1
<1> USE DEF SyncInv, SyncTypeOK, StoreTypeOK
<1>1. row \in Mail
  BY ImportedRowIsMail
<1>2. DoInsert(row)
  BY DEF Import
<1>3. /\ DOMAIN emails' = DOMAIN emails \cup {new} /\ new \notin DOMAIN emails
      /\ emails'[new] = row /\ \A i \in DOMAIN emails : emails'[i] = emails[i]
  BY ImportAdds
<1>4. /\ row.by = t /\ row.acc = syncAccount[t].id /\ row.uid = Current(t)
      /\ row.owner = syncAccount[t].address
  BY DEF MailFor
<1>5. /\ pos[t] \in DOMAIN remoteInfos[t] /\ Current(t) \notin localUIDs[t]
      /\ Current(t) = remoteInfos[t][pos[t]]
  BY DEF ThreadOK, SavesANewMessage, Current
<1>6. \A i \in DOMAIN emails :
         emails[i].by = t /\ emails[i].acc = row.acc => emails[i].uid # row.uid
  <2>1. SUFFICES ASSUME NEW i \in DOMAIN emails, emails[i].by = t,
                        emails[i].acc = row.acc, emails[i].uid = row.uid
                 PROVE  FALSE
    OBVIOUS
  <2>2. PICK p \in DOMAIN remoteInfos[t] :
            p < pos[t] /\ remoteInfos[t][p] = remoteInfos[t][pos[t]]
    BY <1>4, <1>5, <2>1 DEF ThreadOK, OwnRowsAreKnown
  <2>3. p = pos[t]
    BY <1>5, <2>2 DEF ThreadOK, ListsItsMailbox, NoRepeats
  <2> QED
    BY <2>2, <2>3
<1>7. DuplicatesNeedTwoThreads'
  <2>1. SUFFICES ASSUME NEW i \in DOMAIN emails', NEW j \in DOMAIN emails', i # j,
                        emails'[i].by # NoWriter,
                        emails'[i].acc = emails'[j].acc, emails'[i].uid = emails'[j].uid
                 PROVE  emails'[i].by # emails'[j].by
    BY DEF DuplicatesNeedTwoThreads
  <2>2. DuplicatesNeedTwoThreads
    OBVIOUS
  <2> HIDE DEF SyncInv, SyncTypeOK, StoreTypeOK, row, new
  <2>3. CASE i = new
    BY <1>3, <1>4, <1>6, <2>1, <2>3
  <2>4. CASE j = new
    BY <1>3, <1>4, <1>6, <2>1, <2>4
  <2>5. CASE i # new /\ j # new
    BY <1>3, <2>1, <2>2, <2>5 DEF DuplicatesNeedTwoThreads
  <2> QED
    BY <2>3, <2>4, <2>5
<1>8. FiledWhereItCameFrom'
  <2>1. <<row.owner, row.uid>> \in assigned
    BY <1>4, <1>5 DEF ThreadOK, ListsItsMailbox
  <2> QED
    BY <1>3, <2>1 DEF FiledWhereItCameFrom, serverVars
<1>9. ServerInv'
  BY DEF ServerInv, serverVars
<1> QED
  BY <1>3, <1>4, <1>7, <1>8, <1>9

LEMMA OthersSeeImport ==
    ASSUME SyncInv, NEW t \in SyncThreads, syncPC[t] = "save", Import(t),
           UNCHANGED <<serverVars, syncAccount>>,
           \A u \in SyncThreads \ {t} :
               /\ syncPC'[u] = syncPC[u] /\ localUIDs'[u] = localUIDs[u]
               /\ remoteInfos'[u] = remoteInfos[u] /\ pos'[u] = pos[u]
    PROVE  \A u \in SyncThreads \ {t} : ThreadOK(u)'
BY ImportRows, OtherRequests DEF SyncInv, serverVars

LEMMA SaveMailStep ==
    ASSUME SyncInv, NEW t \in SyncThreads, SaveMail(t)
    PROVE  Rest'
<1> USE DEF SyncInv, SyncTypeOK
<1>1. /\ syncPC[t] = "save" /\ syncPC'[t] = "loop" /\ Import(t)
      /\ pos'[t] = pos[t] + 1
      /\ UNCHANGED <<serverVars, syncAccount, localUIDs, remoteInfos, assigned>>
  BY DEF SaveMail, Goto, serverVars
<1>2. pos[t] \in DOMAIN remoteInfos[t] /\ Current(t) = remoteInfos[t][pos[t]]
  BY <1>1 DEF ThreadOK, SavesANewMessage, Current
<1>3. DOMAIN remoteInfos[t] \subseteq Nat /\ pos[t] \in Nat
  BY LenProperties
<1>4. \A m : Stored(t, m) => Stored(t, m)'
  BY <1>1, ImportRows DEF Stored, RowsOf
<1>5. KnowsAccount(t)' /\ ListsItsMailbox(t)'
  BY <1>1 DEF ThreadOK, KnowsAccount, ListsItsMailbox, Running
<1>6. LocalsAreStored(t)'
  BY <1>1, <1>4 DEF ThreadOK, LocalsAreStored
<1>7. PassedAreStored(t)'
  <2>1. SUFFICES ASSUME NEW p \in DOMAIN remoteInfos[t], p < pos[t] + 1
                 PROVE  Stored(t, remoteInfos[t][p])'
    BY <1>1 DEF PassedAreStored
  <2>2. CASE p < pos[t]
    <3>1. Stored(t, remoteInfos[t][p])
      BY <1>1, <2>2 DEF ThreadOK, PassedAreStored
    <3> QED
      BY <1>1, <3>1, ImportRows DEF Stored, RowsOf
  <2>3. CASE p = pos[t]
    BY <1>1, <1>2, <2>3, ImportRows DEF Stored, RowsOf
  <2> QED
    BY <1>3, <2>1, <2>2, <2>3
<1>8. OwnRowsAreKnown(t)'
  <2>1. SUFFICES ASSUME NEW i \in DOMAIN emails', emails'[i].by = t,
                        emails'[i].acc = syncAccount[t].id
                 PROVE  \/ emails'[i].uid \in localUIDs[t]
                        \/ \E p \in DOMAIN remoteInfos[t] :
                              p < pos[t] + 1 /\ remoteInfos[t][p] = emails'[i].uid
    BY <1>1 DEF OwnRowsAreKnown
  <2>2. pos[t] < pos[t] + 1 /\ \A p \in DOMAIN remoteInfos[t] : p < pos[t] => p < pos[t] + 1
    BY <1>3
  <2>3. CASE i \in DOMAIN emails
    <3>1. emails'[i] = emails[i]
      BY <1>1, <2>3, ImportRows
    <3>2. \/ emails[i].uid \in localUIDs[t]
          \/ \E p \in DOMAIN remoteInfos[t] :
                p < pos[t] /\ remoteInfos[t][p] = emails[i].uid
      BY <1>1, <2>1, <2>3, <3>1 DEF ThreadOK, OwnRowsAreKnown
    <3> QED
      BY <2>2, <3>1, <3>2
  <2>4. CASE i \notin DOMAIN emails
    <3>1. emails'[i].uid = Current(t)
      BY <1>1, <2>4, ImportRows
    <3> QED
      BY <1>2, <2>2, <3>1
  <2> QED
    BY <2>3, <2>4
<1>9. ThreadOK(t)'
  BY <1>1, <1>5, <1>6, <1>7, <1>8 DEF ThreadOK, StartsAtFirst, SavesANewMessage
<1>10. \A u \in SyncThreads \ {t} : ThreadOK(u)'
  BY <1>1, OthersSeeImport DEF SaveMail, Goto
<1> QED
  BY <1>1, <1>9, <1>10, ImportRows DEF Rest

LEMMA LookupFailsStep ==
    ASSUME SyncInv, NEW t \in SyncThreads, SavedButLookupFails(t)
    PROVE  Rest'
<1> USE DEF SyncInv, SyncTypeOK
<1>1. /\ syncPC[t] = "save" /\ syncPC'[t] = "error" /\ Import(t) /\ FreshLocals(t)
      /\ UNCHANGED <<serverVars, syncAccount>>
  BY DEF SavedButLookupFails, Throw, Goto
<1>2. ThreadOK(t)'
  BY <1>1, AnsweredOK
<1>3. \A u \in SyncThreads \ {t} : ThreadOK(u)'
  BY <1>1, OthersSeeImport DEF SavedButLookupFails, Throw, Goto, FreshLocals
<1> QED
  BY <1>1, <1>2, <1>3, ImportRows DEF Rest

----
\* The environment.
LEMMA EnvironmentStep ==
    ASSUME SyncInv, Environment
    PROVE  Rest'
<1> USE DEF SyncInv, SyncTypeOK
<1>1. /\ UNCHANGED emails /\ UNCHANGED requestVars /\ assigned \subseteq assigned'
  BY DEF Environment, MessageArrives, MessageRemoved, ChangeAddress, SaveAccount,
         storeVars, serverVars, requestVars
<1>2. \A u \in SyncThreads : ThreadOK(u)'
  BY <1>1, OtherRequests DEF requestVars
<1>3. ServerInv'
  <2>1. ASSUME NEW ad \in Addresses, NEW u \in UIDs, MessageArrives(ad, u)
        PROVE  ServerInv'
    <3>1. /\ NoRepeats(Append(maildrop[ad], u))
          /\ \A p \in DOMAIN Append(maildrop[ad], u) :
                \/ Append(maildrop[ad], u)[p] = u
                \/ \E q \in DOMAIN maildrop[ad] : Append(maildrop[ad], u)[p] = maildrop[ad][q]
      <4>1. \A q \in DOMAIN maildrop[ad] : maildrop[ad][q] # u
        BY <2>1 DEF MessageArrives, ServerInv
      <4>2. NoRepeats(maildrop[ad])
        BY DEF ServerInv
      <4> QED
        BY <4>1, <4>2, ArriveFacts
    <3>2. /\ maildrop' = [maildrop EXCEPT ![ad] = Append(maildrop[ad], u)]
          /\ assigned' = assigned \cup {<<ad, u>>}
      BY <2>1 DEF MessageArrives
    <3> QED
      BY <3>1, <3>2 DEF ServerInv
  <2>2. ASSUME NEW ad \in Addresses, NEW i \in DOMAIN maildrop[ad], MessageRemoved(ad, i)
        PROVE  ServerInv'
    <3> DEFINE r == SubSeq(maildrop[ad], 1, i - 1) \o
                    SubSeq(maildrop[ad], i + 1, Len(maildrop[ad]))
    <3>1. NoRepeats(r) /\ \A p \in DOMAIN r : \E q \in DOMAIN maildrop[ad] : r[p] = maildrop[ad][q]
      <4>1. maildrop[ad] \in Seq(UIDs) /\ i \in DOMAIN maildrop[ad]
        OBVIOUS
      <4>2. NoRepeats(maildrop[ad])
        BY DEF ServerInv
      <4> QED
        BY <4>1, <4>2, RemoveFacts
    <3>2. maildrop' = [maildrop EXCEPT ![ad] = r] /\ assigned' = assigned
      BY <2>2 DEF MessageRemoved
    <3> HIDE DEF r
    <3> QED
      BY <3>1, <3>2 DEF ServerInv
  <2>3. ASSUME NEW a \in Accounts, NEW ad \in Addresses, ChangeAddress(a, ad)
        PROVE  ServerInv'
    BY <2>3 DEF ChangeAddress, serverVars, ServerInv
  <2> QED
    BY <2>1, <2>2, <2>3 DEF Environment
<1> QED
  BY <1>1, <1>2, <1>3, RowsStay DEF Rest

----
LEMMA SyncInvInit == SyncInit => SyncInv
<1> SUFFICES ASSUME SyncInit PROVE SyncInv
  OBVIOUS
<1>1. DOMAIN << >> = {}
  OBVIOUS
<1>2. SyncTypeOK
  BY EmptySeq DEF StoreInit, SyncInit, SyncTypeOK, StoreTypeOK, Replied
<1>3. ServerInv /\ DuplicatesNeedTwoThreads /\ FiledWhereItCameFrom
  BY <1>1
  DEF StoreInit, SyncInit, ServerInv, NoRepeats, DuplicatesNeedTwoThreads,
      FiledWhereItCameFrom
<1>4. \A t \in SyncThreads : ThreadOK(t)
  BY <1>1
  DEF SyncInit, ThreadOK, KnowsAccount, ListsItsMailbox, StartsAtFirst, SavesANewMessage,
      LocalsAreStored, PassedAreStored, OwnRowsAreKnown, NoRepeats, Running
<1> QED
  BY <1>2, <1>3, <1>4 DEF SyncInv

LEMMA SyncInvStep == SyncInv /\ [SyncNext]_syncAllVars => SyncInv'
<1> SUFFICES ASSUME SyncInv, [SyncNext]_syncAllVars PROVE SyncInv'
  OBVIOUS
<1>1. SyncTypeOK'
  BY SyncTypeStep
<1>2. CASE Environment
  BY <1>1, <1>2, EnvironmentStep DEF Rest, SyncInv
<1>3. ASSUME NEW t \in SyncThreads, SyncStep(t) PROVE Rest'
  BY <1>3, StartStep, ConnectStep, ReadLocalStep, ListStep, NothingListedStep, SkipStep,
     RetrieveStep, ThrowStep, SaveMailStep, CloseStep, LookupFailsStep
  DEF SyncStep, Proceed, RetrieveThrows, Fails
<1>4. CASE UNCHANGED syncAllVars
  <2> USE <1>4 DEF syncAllVars, syncVars, storeVars, serverVars, requestVars
  <2>1. \A u \in SyncThreads : ThreadOK(u)'
    BY OtherRequests DEF SyncInv
  <2>2. ServerInv'
    BY DEF SyncInv, ServerInv
  <2> QED
    BY <1>1, <2>1, <2>2, RowsStay DEF SyncInv
<1> QED
  BY <1>1, <1>2, <1>3, <1>4 DEF SyncNext, Rest, SyncInv

\* What doSyncMails keeps true of the table and of every running request.
THEOREM SyncInvAlways == SyncSpec => []SyncInv
<1> QED
  BY SyncInvInit, SyncInvStep, PTL DEF SyncSpec

\* Type correctness of the synchronisations.
THEOREM SyncTypesAlways == SyncSpec => []SyncTypeOK
<1>1. SyncInv => SyncTypeOK
  BY DEF SyncInv
<1> QED
  BY <1>1, SyncInvAlways, PTL

\* However many messages, accounts and threads there are, doSyncMails stores a
\* message of an account twice only when two threads were at it.
THEOREM OneThreadStoresOnce == SyncSpec => []DuplicatesNeedTwoThreads
<1>1. SyncInv => DuplicatesNeedTwoThreads
  BY DEF SyncInv
<1> QED
  BY <1>1, SyncInvAlways, PTL

\* doSyncMails files every message under the mailbox it was read from.
THEOREM ImportedIntoItsMailbox == SyncSpec => []FiledWhereItCameFrom
<1>1. SyncInv => FiledWhereItCameFrom
  BY DEF SyncInv
<1> QED
  BY <1>1, SyncInvAlways, PTL

\* When SyncMailsPage answers ok, all messages the server listed are stored.
THEOREM OkMeansAllStored == SyncSpec => []OkMeansListed
<1>1. SyncInv => OkMeansListed
  BY DEF SyncInv, ThreadOK, PassedAreStored, Stored, OkMeansListed, Seen
<1> QED
  BY <1>1, SyncInvAlways, PTL
----
\* The number in the header x-update.

\* The rows a request has added: rows of its thread for messages it had to store.
RowsAdded(t) ==
    {i \in DOMAIN emails :
        /\ emails[i].by = t
        /\ emails[i].uid \in Seen(remoteInfos[t]) \ localUIDs[t]
        /\ emails[i].acc = syncAccount[t].id}

Counted(t) ==
    /\ syncPC[t] \in {"connect", "local", "uidl"} => updatedCount[t] = 0
    /\ syncPC[t] \in {"loop", "save", "ok"} => updatedCount[t] = Cardinality(RowsAdded(t))

CountInv == \A t \in SyncThreads : Counted(t)

LEMMA RowsAddedIsFinite ==
    ASSUME SyncTypeOK, NEW t \in SyncThreads
    PROVE  IsFiniteSet(RowsAdded(t))
<1>1. Len(emails) \in Nat /\ DOMAIN emails = 1..Len(emails)
  BY LenProperties DEF SyncTypeOK, StoreTypeOK
<1>2. IsFiniteSet(DOMAIN emails)
  BY <1>1, FS_Interval
<1>3. RowsAdded(t) \in SUBSET DOMAIN emails
  BY DEF RowsAdded
<1> QED
  BY <1>2, <1>3, FS_Subset

\* A thread's count does not depend on what the others and the mail server do.
LEMMA OthersKeepCount ==
    ASSUME SyncTypeOK, NEW u \in SyncThreads, Counted(u),
           syncPC'[u] = syncPC[u], syncAccount'[u] = syncAccount[u],
           localUIDs'[u] = localUIDs[u], remoteInfos'[u] = remoteInfos[u],
           updatedCount'[u] = updatedCount[u],
           DOMAIN emails \subseteq DOMAIN emails',
           \A i \in DOMAIN emails : emails'[i] = emails[i],
           \A i \in DOMAIN emails' \ DOMAIN emails : emails'[i].by # u
    PROVE  Counted(u)'
<1>1. RowsAdded(u)' = RowsAdded(u)
  BY DEF RowsAdded, Seen
<1> QED
  BY <1>1 DEF Counted

\* Nothing is counted for a list without messages.
LEMMA NothingToCount ==
    ASSUME NEW t \in SyncThreads, SyncInv, FreshLocals(t),
           syncPC'[t] \in Replied \cup {"connect"}
    PROVE  Counted(t)'
<1>1. remoteInfos'[t] = << >> /\ updatedCount'[t] = 0 /\ DOMAIN << >> = {}
  BY DEF FreshLocals, SyncInv, SyncTypeOK
<1>2. RowsAdded(t)' = {}
  BY <1>1 DEF RowsAdded, Seen
<1> QED
  BY <1>1, <1>2, FS_EmptySet DEF Counted, Replied

\* The steps of a thread that add no row.
LEMMA QuietCount ==
    ASSUME SyncInv, CountInv, NEW t \in SyncThreads,
           \/ \E a \in Accounts : StartSync(t, a)
           \/ Connect(t) \/ ReadLocalUIDs(t) \/ ListRemote(t) \/ NothingListed(t)
           \/ SkipExisting(t) \/ Retrieve(t) \/ ThrowOnly(t) \/ CloseAndReply(t)
    PROVE  Counted(t)'
<1> USE DEF SyncInv, SyncTypeOK, storeVars, serverVars, Goto
<1>1. ASSUME \/ \E a \in Accounts : StartSync(t, a)
             \/ NothingListed(t) \/ ThrowOnly(t)
      PROVE  Counted(t)'
  <2>1. FreshLocals(t) /\ syncPC'[t] \in Replied \cup {"connect"}
    BY <1>1 DEF StartSync, NothingListed, ThrowOnly, Throw, Replied
  <2> QED
    BY <2>1, NothingToCount
<1>2. CASE Connect(t) \/ ReadLocalUIDs(t)
  BY <1>2 DEF Connect, ReadLocalUIDs, CountInv, Counted
<1>3. CASE ListRemote(t)
  <2>1. /\ syncPC[t] = "uidl" /\ syncPC'[t] = "loop"
        /\ UNCHANGED <<emails, syncAccount, localUIDs, remoteInfos, updatedCount>>
    BY <1>3 DEF ListRemote
  <2>2. ASSUME NEW i \in RowsAdded(t) PROVE FALSE
    <3>1. /\ i \in DOMAIN emails /\ emails[i].by = t /\ emails[i].acc = syncAccount[t].id
          /\ emails[i].uid \notin localUIDs[t]
      BY <2>2 DEF RowsAdded
    <3>2. PICK p \in DOMAIN remoteInfos[t] : p < pos[t]
      BY <2>1, <3>1 DEF ThreadOK, OwnRowsAreKnown
    <3>3. pos[t] = 1
      BY <2>1 DEF ThreadOK, StartsAtFirst
    <3> QED
      BY <3>2, <3>3, LenProperties
  <2>3. RowsAdded(t)' = {}
    BY <2>1, <2>2 DEF RowsAdded
  <2> QED
    BY <2>1, <2>3, FS_EmptySet DEF CountInv, Counted
<1>4. CASE SkipExisting(t) \/ Retrieve(t) \/ CloseAndReply(t)
  <2>1. /\ syncPC[t] = "loop" /\ syncPC'[t] \in {"loop", "save", "hung", "ok"}
        /\ UNCHANGED <<emails, syncAccount, localUIDs, remoteInfos, updatedCount>>
    BY <1>4 DEF SkipExisting, Retrieve, CloseAndReply, AtMessage
  <2>2. RowsAdded(t)' = RowsAdded(t)
    BY <2>1 DEF RowsAdded
  <2> QED
    BY <2>1, <2>2 DEF CountInv, Counted
<1> QED
  BY <1>1, <1>2, <1>3, <1>4

\* The insert adds one row to them, and one to the count.
LEMMA SaveCount ==
    ASSUME SyncInv, CountInv, NEW t \in SyncThreads, SaveMail(t)
    PROVE  Counted(t)'
<1> DEFINE new == Len(emails) + 1
           row == MailFor(Current(t), syncAccount[t], "inbox", t)
<1>1. /\ syncPC[t] = "save" /\ syncPC'[t] = "loop" /\ DoInsert(row)
      /\ UNCHANGED <<syncAccount, localUIDs, remoteInfos>>
      /\ updatedCount'[t] = updatedCount[t] + 1
  BY DEF SaveMail, Goto, Import, SyncInv, SyncTypeOK
<1>2. row \in Mail /\ row.by = t /\ row.acc = syncAccount[t].id /\ row.uid = Current(t)
  BY <1>1, ImportedRowIsMail DEF MailFor
<1>3. /\ DOMAIN emails' = DOMAIN emails \cup {new} /\ new \notin DOMAIN emails
      /\ emails'[new] = row /\ \A i \in DOMAIN emails : emails'[i] = emails[i]
  BY <1>1, ImportAdds DEF Import
<1>4. Current(t) \in Seen(remoteInfos[t]) \ localUIDs[t]
  BY <1>1 DEF SyncInv, ThreadOK, SavesANewMessage, Seen, Current
<1>5. RowsAdded(t)' = RowsAdded(t) \cup {new}
  BY <1>1, <1>2, <1>3, <1>4 DEF RowsAdded
<1>6. new \notin RowsAdded(t) /\ IsFiniteSet(RowsAdded(t))
  BY <1>3, RowsAddedIsFinite DEF RowsAdded, SyncInv
<1>7. Cardinality(RowsAdded(t)') = Cardinality(RowsAdded(t)) + 1
  BY <1>5, <1>6, FS_AddElement
<1> QED
  BY <1>1, <1>7 DEF CountInv, Counted

LEMMA CountInvStep == SyncInv /\ CountInv /\ [SyncNext]_syncAllVars => CountInv'
<1> SUFFICES ASSUME SyncInv, CountInv, [SyncNext]_syncAllVars PROVE CountInv'
  OBVIOUS
<1> USE DEF SyncInv, CountInv
<1>1. CASE Environment \/ UNCHANGED syncAllVars
  <2>1. UNCHANGED emails /\ UNCHANGED requestVars
    BY <1>1
    DEF Environment, MessageArrives, MessageRemoved, ChangeAddress, SaveAccount,
        storeVars, syncAllVars, syncVars
  <2> QED
    BY <2>1, OthersKeepCount DEF requestVars
<1>2. ASSUME NEW t \in SyncThreads, SyncStep(t) PROVE CountInv'
  <2>1. \A u \in SyncThreads \ {t} :
            /\ syncPC'[u] = syncPC[u] /\ syncAccount'[u] = syncAccount[u]
            /\ localUIDs'[u] = localUIDs[u] /\ remoteInfos'[u] = remoteInfos[u]
            /\ updatedCount'[u] = updatedCount[u]
    BY <1>2
    DEF SyncStep, StartSync, Proceed, Connect, ReadLocalUIDs, ListRemote, NothingListed,
        SkipExisting, Retrieve, RetrieveThrows, SaveMail, CloseAndReply,
        SavedButLookupFails, Fails, ThrowOnly, Throw, FreshLocals, Goto, SyncTypeOK
  <2>2. /\ DOMAIN emails \subseteq DOMAIN emails'
        /\ \A i \in DOMAIN emails : emails'[i] = emails[i]
        /\ \A i \in DOMAIN emails' \ DOMAIN emails : emails'[i].by = t
    <3>1. CASE SaveMail(t) \/ SavedButLookupFails(t)
      BY <3>1, ImportRows DEF SaveMail, SavedButLookupFails, Throw
    <3>2. CASE ~(SaveMail(t) \/ SavedButLookupFails(t))
      BY <1>2, <3>2
      DEF SyncStep, StartSync, Proceed, Connect, ReadLocalUIDs, ListRemote, NothingListed,
          SkipExisting, Retrieve, RetrieveThrows, CloseAndReply, Fails, ThrowOnly, storeVars
    <3> QED
      BY <3>1, <3>2
  <2>3. \A u \in SyncThreads \ {t} : Counted(u)'
    BY <2>1, <2>2, OthersKeepCount
  <2>4. Counted(t)'
    <3>1. SavedButLookupFails(t) => Counted(t)'
      BY DEF SavedButLookupFails, Throw, Goto, Counted, SyncTypeOK
    <3>2. ~SavedButLookupFails(t) => Counted(t)'
      BY <1>2, QuietCount, SaveCount DEF SyncStep, Proceed, RetrieveThrows, Fails
    <3> QED
      BY <3>1, <3>2
  <2> QED
    BY <2>3, <2>4
<1> QED
  BY <1>1, <1>2 DEF SyncNext

\* SyncMailsPage answers with the number of rows its request has added, whatever other
\* requests have stored meanwhile.
THEOREM CountIsTrue == SyncSpec => []CountIsRowsAdded
<1>1. SyncInit => CountInv
  BY DEF SyncInit, CountInv, Counted
<1>2. CountInv => CountIsRowsAdded
  BY DEF CountInv, Counted, CountIsRowsAdded, RowsAdded
<1> QED
  BY <1>1, <1>2, SyncInvAlways, CountInvStep, PTL DEF SyncSpec
====
