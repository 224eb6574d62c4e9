---- MODULE MailActionsProofs ----
(***************************************************************************)
(* Proofs about MailActions, for any number of threads, messages and       *)
(* requests: what a request that changes messages one by one may rely on.  *)
(***************************************************************************)
EXTENDS MailActions, SequenceTheorems, TLAPS

\* A new row is the row of a new message, and no other row changes.
LEMMA InsertFacts ==
    ASSUME emails \in Seq(Mail), NEW mail \in Mail, DoInsert(mail)
    PROVE  /\ emails' \in Seq(Mail)
           /\ DOMAIN emails' = DOMAIN emails \cup {Len(emails) + 1}
           /\ Len(emails) + 1 \notin DOMAIN emails
           /\ emails'[Len(emails) + 1] = mail
           /\ \A i \in DOMAIN emails : emails'[i] = emails[i]
<1>1. emails' = Append(emails, mail)
  BY DEF DoInsert
<1> QED
  BY <1>1, AppendProperties, LenProperties

\* An update writes one row and no other.
LEMMA UpdateFacts ==
    ASSUME emails \in Seq(Mail), NEW mail \in Mail, NEW id \in DOMAIN emails,
           DoUpdate(id, mail)
    PROVE  /\ emails' \in Seq(Mail)
           /\ DOMAIN emails' = DOMAIN emails
           /\ emails'[id] = mail
           /\ \A i \in DOMAIN emails \ {id} : emails'[i] = emails[i]
<1>1. emails' = [emails EXCEPT ![id] = mail]
  BY DEF DoUpdate
<1>2. id \in 1..Len(emails)
  BY LenProperties
<1> QED
  BY <1>1, <1>2, ExceptSeq, LenProperties

\* The rows that other components insert.
LEMMA MailForIsMail ==
    ASSUME NEW uid \in UIDs \cup {NoUid}, NEW account \in Account,
           NEW folder \in {"inbox", "sent"}, NEW by \in Writers \cup {NoWriter}
    PROVE  MailFor(uid, account, folder, by) \in Mail
BY DEF MailFor, Mail, Account, FLAG_NO, FLAG_YES

----
\* The inductive invariant, thread by thread.  A thread inside the loop is at one
\* of its ids, so that a write of another thread to that row is recorded in "touched".
InLoop(t) == actPC[t] \in {"find", "save"} => actPos[t] \in DOMAIN Ids(t)

\* However stale the copy is, it is a copy of the row it will be written to.
CopyOfItsRow(t) == actPC[t] = "save" =>
    /\ CurrentId(t) \in DOMAIN emails
    /\ actMail[t] \in Mail
    /\ SameMail(emails[CurrentId(t)], actMail[t])

FreshUnlessTouched(t) ==
    actPC[t] = "save" /\ CurrentId(t) \notin touched[t] => HoldsRow(t)

\* The ids the loop has passed show what was asked; the one it is about to write
\* may show it again only after the write.
DoneSoFar(t) == actPC[t] \in {"find", "save"} =>
    \A p \in 1..(actPos[t] - 1) :
        /\ Ids(t)[p] \notin touched[t]
        /\ actPC[t] = "save" => Ids(t)[p] # CurrentId(t)
        => Done(t, Ids(t)[p])

DoneAfterLoop(t) == actPC[t] \in {"render", "ok"} => AllDone(t)

OneIdToOpen(t) == Kind(t) = "open" => Len(Ids(t)) <= 1

ThreadInv(t) ==
    /\ InLoop(t) /\ CopyOfItsRow(t) /\ FreshUnlessTouched(t)
    /\ OneIdToOpen(t) /\ DoneSoFar(t) /\ DoneAfterLoop(t)

ActInv == ActTypeOK /\ \A t \in ActThreads : ThreadInv(t)

----
\* What one change of a copy does: the result is a row of the table, it is still
\* the same message, and it shows what the action asked for.
LEMMA EffectFacts ==
    ASSUME NEW mail \in Mail, NEW kind \in Kinds
    PROVE  /\ Effect(kind, mail) \in Mail
           /\ SameMail(mail, Effect(kind, mail))
           /\ Shows(kind, Effect(kind, mail))
<1> USE DEF FLAG_NO, FLAG_YES, FLAG_TRASH, FLAG_DELETE
<1>1. Effect(kind, mail) \in Mail /\ SameMail(mail, Effect(kind, mail))
  BY DEF Effect, Mail, SameMail, Kinds
<1>2. Shows(kind, Effect(kind, mail))
  <2>1. CASE kind = "trash"
    BY <2>1 DEF Effect, Mail, Shows
  <2>2. CASE kind = "untrash"
    BY <2>2 DEF Effect, Mail, Shows
  <2>3. CASE kind = "delete"
    BY <2>3 DEF Effect, Mail, Shows
  <2>4. CASE kind = "star"
    BY <2>4 DEF Effect, Mail, Shows
  <2>5. CASE kind = "unstar"
    BY <2>5 DEF Effect, Mail, Shows
  <2>6. CASE kind = "read"
    BY <2>6 DEF Effect, Mail, Shows
  <2>7. CASE kind = "unread"
    BY <2>7 DEF Effect, Mail, Shows
  <2>8. CASE kind = "open"
    BY <2>8 DEF Effect, Mail, Shows
  <2> QED
    BY <2>1, <2>2, <2>3, <2>4, <2>5, <2>6, <2>7, <2>8 DEF Kinds
<1> QED
  BY <1>1, <1>2

----
\* Type correctness: one lemma, since every action but Save only moves values
\* that have their type already.
LEMMA ActTypeStep ==
    ASSUME ActInv, [ActNext]_actAllVars
    PROVE  ActTypeOK'
<1> USE ActionsAssumption DEF ActInv, ActTypeOK, StoreTypeOK
<1>1. ASSUME NEW a \in Accounts, NEW u \in UIDs, HasAccount(a),
             NewMail(MailFor(u, FindAccount(a), "inbox", NoWriter))
      PROVE  ActTypeOK'
  <2>1. FindAccount(a) \in Account
    BY <1>1 DEF FindAccount, HasAccount, Account
  <2>2. MailFor(u, FindAccount(a), "inbox", NoWriter) \in Mail
    BY <2>1, MailForIsMail
  <2> QED
    BY <1>1, <2>2, InsertFacts DEF NewMail, actVars
<1>2. ASSUME NEW a \in Accounts, HasAccount(a),
             NewMail(MailFor(NoUid, FindAccount(a), "sent", NoWriter))
      PROVE  ActTypeOK'
  <2>1. FindAccount(a) \in Account
    BY <1>2 DEF FindAccount, HasAccount, Account
  <2>2. MailFor(NoUid, FindAccount(a), "sent", NoWriter) \in Mail
    BY <2>1, MailForIsMail
  <2> QED
    BY <1>2, <2>2, InsertFacts DEF NewMail, actVars
<1>3. ASSUME NEW t \in ActThreads, NEW request \in Requests, Receive(t, request)
      PROVE  ActTypeOK'
  BY <1>3 DEF Receive, ActGoto, storeVars
<1>4. ASSUME NEW t \in ActThreads, AnswerError(t)
      PROVE  ActTypeOK'
  BY <1>4 DEF AnswerError, ActGoto, storeVars, NoRequest, Kinds, Answered
<1>5. ASSUME NEW t \in ActThreads, Find(t)
      PROVE  ActTypeOK'
  <2>1. emails[CurrentId(t)] \in Mail
    BY <1>5, ElementOfSeq, LenProperties DEF Find
  <2>2. Finished(t) \in Answered \cup {"find", "save", "render"}
    BY DEF Finished, Answered
  <2> QED
    BY <1>5, <2>1, <2>2 DEF Find, ActGoto, storeVars
<1>6. ASSUME NEW t \in ActThreads, Save(t)
      PROVE  ActTypeOK'
  <2>1. actPos[t] \in DOMAIN Ids(t) /\ CurrentId(t) \in DOMAIN emails /\ actMail[t] \in Mail
    BY <1>6 DEF Save, ThreadInv, InLoop, CopyOfItsRow
  <2>2. Kind(t) \in Kinds /\ Ids(t) \in Seq(Nat)
    BY DEF Kind, Ids
  <2>3. Effect(Kind(t), actMail[t]) \in Mail
    BY <2>1, <2>2, EffectFacts
  <2>4. emails' \in Seq(Mail)
    BY <1>6, <2>1, <2>3, UpdateFacts DEF Save
  <2>5. CurrentId(t) \in Nat
    BY <2>1, <2>2, ElementOfSeq, LenProperties DEF CurrentId
  <2>6. touched' \in [ActThreads -> SUBSET Nat]
    BY <1>6, <2>5 DEF Save
  <2>7. Finished(t) \in Answered \cup {"find", "save", "render"}
    BY DEF Finished, Answered
  <2>8. actPC' \in [ActThreads -> Answered \cup {"find", "save", "render"}]
    BY <1>6, <2>7 DEF Save, NextId, ActGoto
  <2>9. actPos' \in [ActThreads -> Nat \ {0}]
    <3>1. actPos[t] + 1 \in Nat \ {0}
      OBVIOUS
    <3>2. actPos' = actPos \/ actPos' = [actPos EXCEPT ![t] = actPos[t] + 1]
      BY <1>6 DEF Save, NextId
    <3> QED
      BY <3>1, <3>2
  <2>10. actMail' \in [ActThreads -> Mail \cup {NoMail}]
    BY <1>6 DEF Save, NextId
  <2> QED
    BY <1>6, <2>4, <2>6, <2>8, <2>9, <2>10 DEF Save
<1>7. ASSUME NEW t \in ActThreads, Render(t)
      PROVE  ActTypeOK'
  BY <1>7 DEF Render, ActGoto, storeVars, Answered
<1>8. CASE UNCHANGED actAllVars
  BY <1>8 DEF actAllVars, storeVars, actVars
<1>9. ASSUME NEW a \in Accounts, NEW address \in Addresses, MoveAccount(a, address)
      PROVE  ActTypeOK'
  BY <1>9 DEF MoveAccount, SaveAccount, actVars
<1> QED
  BY <1>1, <1>2, <1>3, <1>4, <1>5, <1>6, <1>7, <1>8, <1>9
  DEF ActNext, ActStep, Registered, ReceiveWithoutId, Throws

----
\* A thread keeps its invariant when another one acts: rows are only added, and a
\* row it works on changes only together with "touched".
LEMMA OtherThreads ==
    ASSUME ActTypeOK, NEW u \in ActThreads, ThreadInv(u),
           actPC'[u] = actPC[u], actRequest'[u] = actRequest[u],
           actPos'[u] = actPos[u], actMail'[u] = actMail[u],
           touched[u] \subseteq touched'[u],
           DOMAIN emails \subseteq DOMAIN emails',
           \A i \in DOMAIN emails : SameMail(emails[i], emails'[i]),
           \A i \in DOMAIN emails :
               i \in Range(Ids(u)) \ touched'[u] => emails'[i] = emails[i]
    PROVE  ThreadInv(u)'
<1>1. Ids(u)' = Ids(u) /\ Kind(u)' = Kind(u) /\ CurrentId(u)' = CurrentId(u)
  BY DEF Ids, Kind, CurrentId
<1>2. InLoop(u)' /\ OneIdToOpen(u)'
  BY <1>1 DEF ThreadInv, InLoop, OneIdToOpen
<1>3. ASSUME actPC[u] \in {"find", "save"}, NEW p \in 1..actPos[u]
      PROVE  Ids(u)[p] \in Range(Ids(u))
  <2>1. p \in DOMAIN Ids(u)
    BY <1>3, LenProperties DEF ThreadInv, InLoop, ActTypeOK, Ids
  <2> QED
    BY <2>1 DEF Range
<1>4. CopyOfItsRow(u)'
  BY <1>1 DEF ThreadInv, CopyOfItsRow, SameMail
<1>5. FreshUnlessTouched(u)'
  <2>1. actPC[u] = "save" => CurrentId(u) \in Range(Ids(u))
    <3>1. actPos[u] \in 1..actPos[u]
      BY DEF ActTypeOK
    <3> QED
      BY <1>3, <3>1 DEF CurrentId
  <2> QED
    BY <1>1, <2>1 DEF ThreadInv, FreshUnlessTouched, HoldsRow
<1>6. ASSUME NEW i \in Range(Ids(u)) \ touched'[u], Done(u, i)
      PROVE  Done(u, i)'
  BY <1>1, <1>6 DEF Done
<1>7. DoneSoFar(u)'
  <2>1. SUFFICES ASSUME actPC[u] \in {"find", "save"}, NEW p \in 1..(actPos[u] - 1),
                        Ids(u)[p] \notin touched'[u],
                        actPC[u] = "save" => Ids(u)[p] # CurrentId(u)
                 PROVE  Done(u, Ids(u)[p])'
    BY <1>1 DEF DoneSoFar
  <2>2. Done(u, Ids(u)[p])
    BY <2>1 DEF ThreadInv, DoneSoFar
  <2>3. p \in 1..actPos[u]
    BY DEF ActTypeOK
  <2>4. Ids(u)[p] \in Range(Ids(u)) \ touched'[u]
    BY <1>3, <2>1, <2>3
  <2> QED
    BY <1>1, <2>2, <2>4 DEF Done
<1>8. DoneAfterLoop(u)'
  BY <1>1, <1>6 DEF ThreadInv, DoneAfterLoop, AllDone
<1> QED
  BY <1>2, <1>4, <1>5, <1>7, <1>8 DEF ThreadInv

\* The steps that write no row: the other threads see no change at all.
LEMMA QuietStep ==
    ASSUME ActInv, NEW t \in ActThreads, ThreadInv(t)', UNCHANGED storeVars,
           \A u \in ActThreads \ {t} :
               /\ actPC'[u] = actPC[u] /\ actRequest'[u] = actRequest[u]
               /\ actPos'[u] = actPos[u] /\ actMail'[u] = actMail[u]
               /\ touched'[u] = touched[u]
    PROVE  \A u \in ActThreads : ThreadInv(u)'
<1>1. \A i \in DOMAIN emails : SameMail(emails[i], emails'[i])
  BY DEF SameMail, storeVars
<1> QED
  BY <1>1, OtherThreads DEF ActInv, storeVars

LEMMA ReceiveStep ==
    ASSUME ActInv, NEW t \in ActThreads, NEW request \in Requests, Receive(t, request)
    PROVE  \A u \in ActThreads : ThreadInv(u)'
<1> USE DEF ActInv, ActTypeOK
<1>1. /\ actPC'[t] = "find" /\ actRequest'[t] = request
      /\ actPos'[t] = 1 /\ touched'[t] = {}
  BY DEF Receive, ActGoto
<1>2. request.ids \in Seq(Nat) /\ request.ids # << >>
  BY ActionsAssumption DEF Receive
<1>3. 1 \in DOMAIN request.ids
  BY <1>2, EmptySeq, LenProperties
<1>4. ThreadInv(t)'
  BY <1>1, <1>3, ActionsAssumption
  DEF ThreadInv, InLoop, CopyOfItsRow, FreshUnlessTouched, OneIdToOpen, DoneSoFar,
      DoneAfterLoop, Ids, Kind
<1> QED
  BY <1>4, QuietStep DEF Receive, ActGoto

LEMMA AnswerErrorStep ==
    ASSUME ActInv, NEW t \in ActThreads, AnswerError(t)
    PROVE  \A u \in ActThreads : ThreadInv(u)'
<1> USE DEF ActInv, ActTypeOK
<1>1. actPC'[t] = "error" /\ actRequest'[t] = NoRequest
  BY DEF AnswerError, ActGoto
<1>2. ThreadInv(t)'
  BY <1>1, EmptySeq
  DEF ThreadInv, InLoop, CopyOfItsRow, FreshUnlessTouched, OneIdToOpen, DoneSoFar,
      DoneAfterLoop, Ids, Kind, NoRequest
<1> QED
  BY <1>2, QuietStep DEF AnswerError, ActGoto

LEMMA FindStep ==
    ASSUME ActInv, NEW t \in ActThreads, Find(t)
    PROVE  \A u \in ActThreads : ThreadInv(u)'
<1> DEFINE mail == emails[CurrentId(t)]
<1> USE DEF ActInv, ActTypeOK
<1>1. /\ actPC[t] = "find" /\ CurrentId(t) \in DOMAIN emails
      /\ actRequest' = actRequest /\ actPos' = actPos /\ emails' = emails
      /\ touched'[t] = touched[t] \ {CurrentId(t)}
  BY DEF Find, storeVars
<1>2. Ids(t)' = Ids(t) /\ Kind(t)' = Kind(t) /\ CurrentId(t)' = CurrentId(t)
  BY <1>1 DEF Ids, Kind, CurrentId
<1>3. mail \in Mail
  BY <1>1, ElementOfSeq, LenProperties DEF StoreTypeOK
<1>4. actPos[t] \in DOMAIN Ids(t) /\ Ids(t) \in Seq(Nat) /\ Kind(t) \in Kinds
  BY <1>1 DEF ThreadInv, InLoop, Ids, Kind
<1>5. OneIdToOpen(t)'
  BY <1>2 DEF ThreadInv, OneIdToOpen
<1>6. CASE NeedsSave(Kind(t), mail)
  <2>1. actPC'[t] = "save" /\ actMail'[t] = mail
    BY <1>6 DEF Find, ActGoto
  <2>2. InLoop(t)' /\ DoneAfterLoop(t)'
    BY <1>2, <1>1, <1>4, <2>1 DEF InLoop, DoneAfterLoop
  <2>3. CopyOfItsRow(t)' /\ FreshUnlessTouched(t)'
    BY <1>1, <1>2, <1>3, <2>1 DEF CopyOfItsRow, FreshUnlessTouched, HoldsRow, SameMail
  <2>4. DoneSoFar(t)'
    BY <1>1, <1>2, <2>1 DEF ThreadInv, DoneSoFar, Done
  <2> QED
    BY <1>5, <2>2, <2>3, <2>4, QuietStep DEF ThreadInv, Find, ActGoto
<1>7. CASE ~NeedsSave(Kind(t), mail)
  <2>1. Kind(t) = "open" /\ mail.unread = FLAG_NO
    BY <1>3, <1>7 DEF NeedsSave, Mail, FLAG_NO, FLAG_YES
  <2>2. actPC'[t] = "render"
    BY <1>7, <2>1 DEF Find, ActGoto, Finished
  <2>3. Range(Ids(t)) = {CurrentId(t)}
    BY <1>4, <2>1, LenProperties DEF ThreadInv, OneIdToOpen, Range, CurrentId
  <2>4. Shows(Kind(t), mail)
    BY <2>1 DEF Shows
  <2>5. DoneAfterLoop(t)'
    BY <1>1, <1>2, <2>3, <2>4 DEF DoneAfterLoop, AllDone, Done
  <2>6. InLoop(t)' /\ CopyOfItsRow(t)' /\ FreshUnlessTouched(t)' /\ DoneSoFar(t)'
    BY <2>2 DEF InLoop, CopyOfItsRow, FreshUnlessTouched, DoneSoFar
  <2> QED
    BY <1>5, <2>5, <2>6, QuietStep DEF ThreadInv, Find, ActGoto
<1> QED
  BY <1>6, <1>7

LEMMA RenderStep ==
    ASSUME ActInv, NEW t \in ActThreads, Render(t)
    PROVE  \A u \in ActThreads : ThreadInv(u)'
<1> USE DEF ActInv, ActTypeOK
<1>1. /\ actPC[t] = "render" /\ actPC'[t] = "ok" /\ actRequest' = actRequest
      /\ emails' = emails /\ touched' = touched
  BY DEF Render, ActGoto, storeVars
<1>2. Ids(t)' = Ids(t) /\ Kind(t)' = Kind(t)
  BY <1>1 DEF Ids, Kind
<1>3. DoneAfterLoop(t)'
  BY <1>1, <1>2 DEF ThreadInv, DoneAfterLoop, AllDone, Done
<1>4. ThreadInv(t)'
  BY <1>1, <1>2, <1>3
  DEF ThreadInv, InLoop, CopyOfItsRow, FreshUnlessTouched, OneIdToOpen, DoneSoFar
<1> QED
  BY <1>4, QuietStep DEF Render, ActGoto

\* What a write does to the table: it is the place where a stale copy could do
\* more harm than to the flags of its own message.
LEMMA SaveWrites ==
    ASSUME ActInv, NEW t \in ActThreads, Save(t)
    PROVE  /\ DOMAIN emails' = DOMAIN emails
           /\ \A i \in DOMAIN emails : SameMail(emails[i], emails'[i])
           /\ \A i \in DOMAIN emails \ {CurrentId(t)} : emails'[i] = emails[i]
           /\ CurrentId(t) \in DOMAIN emails
           /\ Shows(Kind(t), emails'[CurrentId(t)])
<1> DEFINE written == Effect(Kind(t), actMail[t])
<1> USE DEF ActInv, ActTypeOK
<1>1. /\ CurrentId(t) \in DOMAIN emails /\ actMail[t] \in Mail
      /\ SameMail(emails[CurrentId(t)], actMail[t])
  BY DEF Save, ThreadInv, CopyOfItsRow
<1>2. Kind(t) \in Kinds
  BY DEF Kind
<1>3. written \in Mail /\ SameMail(actMail[t], written) /\ Shows(Kind(t), written)
  BY <1>1, <1>2, EffectFacts
<1>4. /\ DOMAIN emails' = DOMAIN emails
      /\ emails'[CurrentId(t)] = written
      /\ \A i \in DOMAIN emails \ {CurrentId(t)} : emails'[i] = emails[i]
  BY <1>1, <1>3, UpdateFacts DEF Save, StoreTypeOK
<1> QED
  BY <1>1, <1>3, <1>4 DEF SameMail

LEMMA SaveStep ==
    ASSUME ActInv, NEW t \in ActThreads, Save(t)
    PROVE  \A u \in ActThreads : ThreadInv(u)'
<1> USE DEF ActInv, ActTypeOK
<1>1. /\ actPC[t] = "save" /\ actRequest' = actRequest
      /\ touched'[t] = touched[t]
  BY DEF Save
<1>2. Ids(t)' = Ids(t) /\ Kind(t)' = Kind(t)
  BY <1>1 DEF Ids, Kind
<1>3. /\ actPos[t] \in 1..Len(Ids(t)) /\ Ids(t) \in Seq(Nat) /\ Len(Ids(t)) \in Nat
      /\ DOMAIN Ids(t) = 1..Len(Ids(t))
  BY <1>1, LenProperties DEF ThreadInv, InLoop, Ids
<1>4. \A p \in 1..actPos[t] : Ids(t)[p] \notin touched[t] => Done(t, Ids(t)[p])'
  <2>1. SUFFICES ASSUME NEW p \in 1..actPos[t], Ids(t)[p] \notin touched[t]
                 PROVE  Done(t, Ids(t)[p])'
    BY <1>2
  <2>2. CASE Ids(t)[p] = CurrentId(t)
    BY <1>2, <2>2, SaveWrites DEF Done
  <2>3. CASE Ids(t)[p] # CurrentId(t)
    <3>1. p \in 1..(actPos[t] - 1)
      BY <1>3, <2>3 DEF CurrentId
    <3>2. Done(t, Ids(t)[p])
      BY <1>1, <2>1, <2>3, <3>1 DEF ThreadInv, DoneSoFar
    <3> QED
      BY <1>2, <2>3, <3>2, SaveWrites DEF Done
  <2> QED
    BY <2>2, <2>3
<1>5. OneIdToOpen(t)'
  BY <1>2 DEF ThreadInv, OneIdToOpen
<1>6. ThreadInv(t)'
  <2>1. CASE actPos[t] < Len(Ids(t))
    <3>1. actPC'[t] = "find" /\ actPos'[t] = actPos[t] + 1
      BY <2>1 DEF Save, NextId, ActGoto
    <3>2. InLoop(t)'
      BY <1>2, <1>3, <2>1, <3>1 DEF InLoop
    <3>3. DoneSoFar(t)'
      BY <1>1, <1>2, <1>3, <1>4, <3>1 DEF DoneSoFar
    <3> QED
      BY <1>5, <3>1, <3>2, <3>3
      DEF ThreadInv, CopyOfItsRow, FreshUnlessTouched, DoneAfterLoop
  <2>2. CASE ~(actPos[t] < Len(Ids(t)))
    <3>1. actPC'[t] \in {"render", "ok"}
      BY <2>2 DEF Save, NextId, ActGoto, Finished
    <3>2. AllDone(t)'
      BY <1>1, <1>2, <1>3, <1>4, <2>2 DEF AllDone, Range
    <3> QED
      BY <1>5, <3>1, <3>2
      DEF ThreadInv, InLoop, CopyOfItsRow, FreshUnlessTouched, DoneSoFar, DoneAfterLoop
  <2> QED
    BY <2>1, <2>2
<1>7. ASSUME NEW u \in ActThreads \ {t}
      PROVE  ThreadInv(u)'
  <2>1. /\ actPC'[u] = actPC[u] /\ actRequest'[u] = actRequest[u]
        /\ actPos'[u] = actPos[u] /\ actMail'[u] = actMail[u]
    BY DEF Save, NextId, ActGoto
  <2>2. touched'[u] = IF CurrentId(t) \in Range(Ids(u))
                      THEN touched[u] \cup {CurrentId(t)} ELSE touched[u]
    BY DEF Save
  <2>3. \A i \in DOMAIN emails : i \in Range(Ids(u)) \ touched'[u] => emails'[i] = emails[i]
    BY <2>2, SaveWrites
  <2>4. ThreadInv(u) /\ touched[u] \subseteq touched'[u]
    BY <2>2
  <2> QED
    BY <2>1, <2>3, <2>4, SaveWrites, OtherThreads
<1> QED
  BY <1>6, <1>7

LEMMA NewMailStep ==
    ASSUME ActInv, NEW mail \in Mail, NewMail(mail)
    PROVE  /\ DOMAIN emails \subseteq DOMAIN emails'
           /\ \A i \in DOMAIN emails : emails'[i] = emails[i]
           /\ \A u \in ActThreads : ThreadInv(u)'
<1>1. /\ DOMAIN emails \subseteq DOMAIN emails'
      /\ \A i \in DOMAIN emails : emails'[i] = emails[i]
  BY InsertFacts DEF NewMail, ActInv, ActTypeOK, StoreTypeOK
<1>2. \A i \in DOMAIN emails : SameMail(emails[i], emails'[i])
  BY <1>1 DEF SameMail
<1> QED
  BY <1>1, <1>2, OtherThreads DEF NewMail, actVars, ActInv

----
LEMMA ActInvInit == ActInit => ActInv
<1> SUFFICES ASSUME ActInit PROVE ActInv
  OBVIOUS
<1>1. ActTypeOK
  BY EmptySeq DEF StoreInit, ActInit, ActTypeOK, StoreTypeOK, Answered, NoRequest, Kinds
<1>2. \A t \in ActThreads : ThreadInv(t)
  BY EmptySeq
  DEF ActInit, ThreadInv, InLoop, CopyOfItsRow, FreshUnlessTouched, OneIdToOpen,
      DoneSoFar, DoneAfterLoop, Ids, Kind, NoRequest
<1> QED
  BY <1>1, <1>2 DEF ActInv

LEMMA RowsToInsert ==
    ASSUME ActTypeOK, NEW a \in Registered
    PROVE  /\ \A u \in UIDs : MailFor(u, FindAccount(a), "inbox", NoWriter) \in Mail
           /\ MailFor(NoUid, FindAccount(a), "sent", NoWriter) \in Mail
<1>1. FindAccount(a) \in Account
  BY DEF FindAccount, Registered, HasAccount, Account, ActTypeOK, StoreTypeOK
<1> QED
  BY <1>1, MailForIsMail

LEMMA ActInvStep == ActInv /\ [ActNext]_actAllVars => ActInv'
<1> SUFFICES ASSUME ActInv, [ActNext]_actAllVars PROVE ActInv'
  OBVIOUS
<1>1. ActTypeOK'
  BY ActTypeStep
<1>2. \A u \in ActThreads : ThreadInv(u)'
  <2>1. ASSUME NEW a \in Registered, NEW u \in UIDs,
               NewMail(MailFor(u, FindAccount(a), "inbox", NoWriter))
        PROVE  \A v \in ActThreads : ThreadInv(v)'
    BY <2>1, RowsToInsert, NewMailStep DEF ActInv
  <2>2. ASSUME NEW a \in Registered,
               NewMail(MailFor(NoUid, FindAccount(a), "sent", NoWriter))
        PROVE  \A v \in ActThreads : ThreadInv(v)'
    BY <2>2, RowsToInsert, NewMailStep DEF ActInv
  <2>3. ASSUME NEW t \in ActThreads, ActStep(t)
        PROVE  \A v \in ActThreads : ThreadInv(v)'
    BY <2>3, ReceiveStep, AnswerErrorStep, FindStep, SaveStep, RenderStep
    DEF ActStep, ReceiveWithoutId, Throws
  <2>4. CASE UNCHANGED <<emails, actVars>>
    <3>1. \A i \in DOMAIN emails : SameMail(emails[i], emails'[i])
      BY <2>4 DEF SameMail
    <3> QED
      BY <2>4, <3>1, OtherThreads DEF ActInv, actVars
  <2> QED
    BY <2>1, <2>2, <2>3, <2>4 DEF ActNext, MoveAccount, SaveAccount, actAllVars, storeVars
<1> QED
  BY <1>1, <1>2 DEF ActInv

\* The values of the component's variables stay in their types, and a thread in
\* the loop of MailActionsPage.doAction always writes back a copy of the row at its id.
THEOREM ActInvAlways == ActSpec => []ActInv
<1>1. ActInit => ActInv
  BY ActInvInit
<1>2. ActInv /\ [ActNext]_actAllVars => ActInv'
  BY ActInvStep
<1> QED
  BY <1>1, <1>2, PTL DEF ActSpec

\* Type correctness of the requests of MailActionsPage and ReadMailPage.
THEOREM ActTypesAlways == ActSpec => []ActTypeOK
<1>1. ActInv => ActTypeOK
  BY DEF ActInv
<1> QED
  BY <1>1, ActInvAlways, PTL

\* With any number of requests and messages, the copy a request of MailActionsPage
\* is about to save differs from its row only if another request wrote the row.
THEOREM StaleCopyNeedsAnotherRequest == ActSpec => []StaleOnlyIfTouched
<1>1. ActInv => StaleOnlyIfTouched
  BY DEF ActInv, ThreadInv, FreshUnlessTouched, StaleOnlyIfTouched
<1> QED
  BY <1>1, ActInvAlways, PTL

\* A request of MailActionsPage that answers ok has done what it was asked, for
\* each of its ids that no other request has written since.
THEOREM OkIsTrue == ActSpec => []OkMeansDone
<1>1. ActInv => OkMeansDone
  BY DEF ActInv, ThreadInv, DoneAfterLoop, OkMeansDone
<1> QED
  BY <1>1, ActInvAlways, PTL

\* The step form of MailIsKept: no row disappears or becomes another message.
LEMMA StepKeepsRows == ActInv /\ [ActNext]_actAllVars => [KeepsRows]_actAllVars
<1> SUFFICES ASSUME ActInv, ActNext PROVE KeepsRows
  BY DEF ActNext
<1>1. /\ DOMAIN emails \subseteq DOMAIN emails'
      /\ \A i \in DOMAIN emails : SameMail(emails[i], emails'[i])
  <2>1. ASSUME NEW mail \in Mail, NewMail(mail)
        PROVE  /\ DOMAIN emails \subseteq DOMAIN emails'
               /\ \A i \in DOMAIN emails : SameMail(emails[i], emails'[i])
    BY <2>1, NewMailStep DEF SameMail
  <2>2. ASSUME NEW t \in ActThreads, Save(t)
        PROVE  /\ DOMAIN emails \subseteq DOMAIN emails'
               /\ \A i \in DOMAIN emails : SameMail(emails[i], emails'[i])
    BY <2>2, SaveWrites
  <2>3. CASE UNCHANGED emails
    BY <2>3 DEF SameMail
  <2> QED
    BY <2>1, <2>2, <2>3, RowsToInsert
    DEF ActInv, ActNext, ActStep, Receive, ReceiveWithoutId, AnswerError, Find, Render,
        Throws, MoveAccount, SaveAccount, storeVars
<1>2. emails \in Seq(Mail) /\ emails' \in Seq(Mail)
  BY ActTypeStep DEF ActInv, ActTypeOK, StoreTypeOK
<1>3. Len(emails') >= Len(emails)
  BY <1>1, <1>2, LenProperties
<1> QED
  BY <1>1, <1>3 DEF KeepsRows

\* No interleaving of the requests of MailActionsPage and ReadMailPage loses a
\* message or writes one over another.
THEOREM NoRequestLosesMail == ActSpec => MailIsKept
<1>1. ActInv /\ [ActNext]_actAllVars => [KeepsRows]_actAllVars
  BY StepKeepsRows
<1> QED
  BY <1>1, ActInvAlways, PTL DEF ActSpec, MailIsKept

----
\* Which rows the three lists of an account show: the condition of
\* MailServiceImpl.findPage, column by column.
ListedAs(mail) == \/ mail.del = FLAG_NO /\ mail.folder \in {"inbox", "sent"}
                  \/ mail.del = FLAG_TRASH /\ mail.folder = "inbox"

LEMMA ListsOfARow ==
    ASSUME NEW account, NEW i
    PROVE  /\ InListsOf(account, i) <=>
                i \in DOMAIN emails /\ OwnedBy(account, emails[i]) /\ ListedAs(emails[i])
           /\ InListsOf(account, i)' <=>
                i \in DOMAIN emails' /\ OwnedBy(account, emails[i])' /\ ListedAs(emails[i])'
<1> QED
  BY DEF InListsOf, FindPage, FolderFlags, SystemFolder, ListedAs, OwnedBy

\* The writes that leave a row in one of the lists: all but a deletion, and the
\* trashing of a sent mail.
LEMMA EffectKeepsListed ==
    ASSUME NEW mail \in Mail, NEW kind \in Kinds \ {"delete"},
           kind = "trash" => mail.folder # "sent", ListedAs(mail)
    PROVE  ListedAs(Effect(kind, mail))
<1>1. CASE kind \in {"trash", "untrash"}
  BY <1>1 DEF Effect, Mail, ListedAs
<1>2. CASE kind \notin {"trash", "untrash"}
  BY <1>2 DEF Effect, Mail, Kinds, ListedAs
<1> QED
  BY <1>1, <1>2

\* A row that a step leaves alone stays in the lists of its mailbox.
LEMMA UntouchedStaysListed ==
    ASSUME NEW a, NEW address, NEW account, account = [id |-> a, address |-> address],
           NEW i, InListsOf(account, i), i \in DOMAIN emails', emails'[i] = emails[i]
    PROVE  InListsOf(account, i)'
<1> QED
  BY ListsOfARow DEF OwnedBy, ListedAs

LEMMA SaveKeepsListed ==
    ASSUME ActInv, NEW t \in ActThreads, Save(t), NEW i \in DOMAIN emails,
           NEW a, NEW address, NEW account, account = [id |-> a, address |-> address],
           InListsOf(account, i), ~ClickedAway(i)
    PROVE  InListsOf(account, i)'
<1>1. /\ DOMAIN emails' = DOMAIN emails
      /\ \A j \in DOMAIN emails \ {CurrentId(t)} : emails'[j] = emails[j]
  BY SaveWrites DEF Save
<1>2. CASE CurrentId(t) # i
  BY <1>1, <1>2, UntouchedStaysListed
<1>3. CASE CurrentId(t) = i
  <2>1. /\ actPC[t] = "save" /\ i \notin touched[t]
        /\ Kind(t) # "delete" /\ (Kind(t) = "trash" => emails[i].folder # "sent")
    BY <1>3 DEF ClickedAway, Save
  <2>2. HoldsRow(t) /\ emails[i] \in Mail /\ Kind(t) \in Kinds
    BY <1>3, <2>1, ElementOfSeq, LenProperties
    DEF ActInv, ActTypeOK, StoreTypeOK, ThreadInv, FreshUnlessTouched, Kind
  <2>3. emails'[i] = Effect(Kind(t), emails[i])
    BY <1>3, <2>2 DEF Save, DoUpdate, HoldsRow
  <2>4. SameMail(emails[i], emails'[i])
    BY SaveWrites
  <2>5. OwnedBy(account, emails[i]) /\ OwnedBy(account, emails[i])'
    BY <2>4, ListsOfARow DEF OwnedBy, SameMail
  <2>6. ListedAs(emails'[i])
    BY <2>1, <2>2, <2>3, ListsOfARow, EffectKeepsListed
  <2> QED
    BY <1>1, <2>5, <2>6, ListsOfARow DEF ListedAs
<1> QED
  BY <1>2, <1>3

\* No step takes a row out of the lists of its mailbox, but for the clicks that may.
LeavesByClick ==
    \A a \in Accounts, i \in DOMAIN emails, address \in Addresses \cup {NoAccount} :
        LET account == [id |-> a, address |-> address]
        IN  InListsOf(account, i) /\ ~InListsOf(account, i)' => ClickedAway(i)

LEMMA SaveLeavesByClick ==
    ASSUME ActInv, NEW t \in ActThreads, Save(t)
    PROVE  LeavesByClick
<1> SUFFICES ASSUME NEW a \in Accounts, NEW i \in DOMAIN emails,
                    NEW address \in Addresses \cup {NoAccount},
                    NEW account, account = [id |-> a, address |-> address],
                    InListsOf(account, i), ~ClickedAway(i)
             PROVE  InListsOf(account, i)'
  BY DEF LeavesByClick
<1> QED
  BY SaveKeepsListed

LEMMA KeptRowsLeaveNot ==
    ASSUME DOMAIN emails \subseteq DOMAIN emails',
           \A i \in DOMAIN emails : emails'[i] = emails[i]
    PROVE  LeavesByClick
<1> SUFFICES ASSUME NEW a \in Accounts, NEW i \in DOMAIN emails,
                    NEW address \in Addresses \cup {NoAccount},
                    NEW account, account = [id |-> a, address |-> address],
                    InListsOf(account, i)
             PROVE  InListsOf(account, i)'
  BY DEF LeavesByClick
<1> QED
  BY UntouchedStaysListed

\* What an account shows are the lists of the mailbox it is set to.
Vanishing ==
    \A a \in Accounts, i \in DOMAIN emails :
      /\ InSomeList(a, i) /\ ~InSomeList(a, i)' =>
             accounts'[a] # emails[i].owner \/ ClickedAway(i)
      /\ \A address \in Addresses :
             LET account == [id |-> a, address |-> address]
             IN  InListsOf(account, i) /\ ~InListsOf(account, i)' => ClickedAway(i)

LEMMA VanishingFromLists ==
    ASSUME StoreTypeOK, LeavesByClick
    PROVE  Vanishing
<1> SUFFICES ASSUME NEW a \in Accounts, NEW i \in DOMAIN emails,
                    InSomeList(a, i), ~InSomeList(a, i)', accounts'[a] = emails[i].owner
             PROVE  ClickedAway(i)
  BY DEF Vanishing, LeavesByClick
<1>1. PICK address \in Addresses \cup {NoAccount} : accounts[a] = address
  BY DEF StoreTypeOK
<1>2. InListsOf([id |-> a, address |-> address], i)
  BY <1>1 DEF InSomeList, FindAccount
<1>3. accounts'[a] = address
  BY <1>2, ListsOfARow DEF OwnedBy
<1>4. ~InListsOf([id |-> a, address |-> address], i)'
  BY <1>3 DEF InSomeList, FindAccount, InListsOf
<1> QED
  BY <1>2, <1>4 DEF LeavesByClick

LEMMA StepVanishing == ActInv /\ [ActNext]_actAllVars => [Vanishing]_storeVars
<1> SUFFICES ASSUME ActInv, ActNext PROVE LeavesByClick
  BY VanishingFromLists DEF ActInv, ActTypeOK, actAllVars
<1>1. ASSUME NEW mail \in Mail, NewMail(mail)
      PROVE  LeavesByClick
  BY <1>1, NewMailStep, KeptRowsLeaveNot
<1>2. ASSUME NEW t \in ActThreads, Save(t)
      PROVE  LeavesByClick
  BY <1>2, SaveLeavesByClick
<1>3. CASE UNCHANGED emails
  BY <1>3, KeptRowsLeaveNot
<1> QED
  BY <1>1, <1>2, <1>3, RowsToInsert
  DEF ActInv, ActNext, ActStep, Receive, ReceiveWithoutId, AnswerError, Find, Render, Throws,
      MoveAccount, SaveAccount, storeVars

\* With any number of requests, and settings that move the accounts to and fro between
\* any two statements, a message leaves the lists of MailServiceImpl.findPage only by a
\* click on it that says so, by a copy that another request made stale, or with its
\* whole mailbox; and from the lists of its mailbox by the first two alone.
THEOREM ListedMailStays == ActSpec => MailVanishesByClick
<1>1. ActInv /\ [ActNext]_actAllVars => [Vanishing]_storeVars
  BY StepVanishing
<1> QED
  BY <1>1, ActInvAlways, PTL DEF ActSpec, MailVanishesByClick, Vanishing
====
