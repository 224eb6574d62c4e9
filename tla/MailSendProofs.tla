---- MODULE MailSendProofs ----
(***************************************************************************)
(* Proofs about MailSend, for any number of threads, letters, recipients   *)
(* and messages.                                                           *)
(***************************************************************************)
EXTENDS MailSend, SequenceTheorems, TLAPS

\* A Message-ID belongs to one request, and none is used that was not given out.
IdsAreGivenOut ==
    /\ \A t \in SendThreads : messageID[t] <= seed
    /\ \A t, u \in SendThreads : t # u /\ messageID[t] # 0 => messageID[t] # messageID[u]
    /\ \A d \in delivered : d[1] <= seed
    /\ \A f \in filed : f[1] <= seed

\* A request under way works on the letter that is on record under its
\* Message-ID, and has not filed its copy yet.
OnRecord(t) == sendPC[t] \notin Idle =>
    /\ messageID[t] \in 1..seed
    /\ sendAccount[t] \in Account
    /\ letter[t] \in Letters
    /\ written[messageID[t]] = [from |-> sendAccount[t].address, letter |-> letter[t]]
    /\ \A f \in filed : f[1] # messageID[t]

\* The recipients of the letter before position p.
Before(l, p) == {Rcpts(l)[q] : q \in 1..(p - 1)}

\* The server holds the recipients that the loops have passed, and no other.
EnvelopeFollows(t) ==
    /\ sendPC[t] \in {"connect", "mail"} => rcptPos[t] = 1
    /\ sendPC[t] = "mail" => envelope[t] = {}
    /\ sendPC[t] = "rcpt" =>
        /\ rcptPos[t] <= Len(Rcpts(letter[t]))
        /\ envelope[t] = Before(letter[t], rcptPos[t])
    /\ sendPC[t] \in {"data", "dot"} => envelope[t] = Everybody(letter[t])

SentAfterDot(t) == sendPC[t] \in {"quit", "save", "ok"} =>
    <<messageID[t], Everybody(letter[t])>> \in delivered

FiledWhenOk(t) == sendPC[t] = "ok" => \E f \in filed : f[1] = messageID[t]

RequestInv(t) == OnRecord(t) /\ EnvelopeFollows(t) /\ SentAfterDot(t) /\ FiledWhenOk(t)

SendInv ==
    /\ SendTypeOK
    /\ IdsAreGivenOut
    /\ \A t \in SendThreads : RequestInv(t)
    /\ AllOrNobody
    /\ CopyIsOfASentMail

----
\* The loops over TO and then CC and BCC pass every recipient of a letter.
LEMMA LoopFacts ==
    ASSUME NEW l \in Letters
    PROVE  /\ Rcpts(l) \in Seq(Recipients)
           /\ Everybody(l) \subseteq Recipients
           /\ l.to # << >> => 1 <= Len(Rcpts(l))
           /\ Before(l, 1) = {}
           /\ \A p \in 1..Len(Rcpts(l)) :
                Before(l, p + 1) = Before(l, p) \cup {Rcpts(l)[p]}
           /\ Before(l, Len(Rcpts(l)) + 1) = Everybody(l)
<1>1. l.to \in Seq(Recipients) /\ l.others \in Seq(Recipients)
  BY SendAssumption
<1>2. Rcpts(l) \in Seq(Recipients) /\ Len(Rcpts(l)) = Len(l.to) + Len(l.others)
  BY <1>1, ConcatProperties DEF Rcpts
<1>3. Len(Rcpts(l)) \in Nat /\ DOMAIN Rcpts(l) = 1..Len(Rcpts(l))
  BY <1>2, LenProperties
<1>4. \A q \in 1..Len(Rcpts(l)) : Rcpts(l)[q] \in Recipients
  BY <1>2, ElementOfSeq
<1>5. Everybody(l) \subseteq Recipients
  BY <1>3, <1>4 DEF Everybody, Range
<1>6. l.to # << >> => 1 <= Len(Rcpts(l))
  <2>1. Len(l.to) \in Nat /\ Len(l.others) \in Nat
    BY <1>1, LenProperties
  <2> HAVE l.to # << >>
  <2>2. Len(l.to) # 0
    BY <1>1, EmptySeq
  <2>3. Len(Rcpts(l)) = Len(l.to) + Len(l.others)
    BY <1>2
  <2>4. \A m, n \in Nat : m # 0 => 1 <= m + n
    OBVIOUS
  <2> QED
    BY <2>1, <2>2, <2>3, <2>4
<1>7. Before(l, 1) = {}
  BY DEF Before
<1>8. ASSUME NEW p \in 1..Len(Rcpts(l))
      PROVE  Before(l, p + 1) = Before(l, p) \cup {Rcpts(l)[p]}
  <2>1. 1..((p + 1) - 1) = 1..(p - 1) \cup {p}
    BY <1>3
  <2> QED
    BY <2>1 DEF Before
<1>9. Before(l, Len(Rcpts(l)) + 1) = Everybody(l)
  <2>1. 1..((Len(Rcpts(l)) + 1) - 1) = DOMAIN Rcpts(l)
    BY <1>3
  <2> QED
    BY <2>1 DEF Before, Everybody, Range
<1> QED
  BY <1>2, <1>5, <1>6, <1>7, <1>8, <1>9

\* What another request does leaves a request as it is, if it keeps off its
\* locals, its session and its entry of the record.
LEMMA OtherRequests ==
    ASSUME NEW u \in SendThreads, RequestInv(u),
           sendPC'[u] = sendPC[u], messageID'[u] = messageID[u],
           sendAccount'[u] = sendAccount[u], letter'[u] = letter[u],
           rcptPos'[u] = rcptPos[u], envelope'[u] = envelope[u],
           seed \in Nat, seed' \in Nat, seed <= seed',
           messageID[u] \in 1..seed => written'[messageID[u]] = written[messageID[u]],
           delivered \subseteq delivered', filed \subseteq filed',
           \A f \in filed' \ filed : f[1] # messageID[u]
    PROVE  RequestInv(u)'
<1>1. OnRecord(u)'
  BY DEF RequestInv, OnRecord
<1>2. EnvelopeFollows(u)'
  BY DEF RequestInv, EnvelopeFollows, Before
<1>3. SentAfterDot(u)'
  BY DEF RequestInv, SentAfterDot
<1>4. FiledWhenOk(u)'
  BY DEF RequestInv, FiledWhenOk
<1> QED
  BY <1>1, <1>2, <1>3, <1>4 DEF RequestInv

\* A step that moves one request on, without a delivery and without a copy.
LEMMA MoveStep ==
    ASSUME SendInv, NEW t \in SendThreads, SendTypeOK', RequestInv(t)',
           UNCHANGED <<emails, sendAccount, letter, messageID, seed, written,
                       delivered, filed>>,
           \A u \in SendThreads \ {t} : /\ sendPC'[u] = sendPC[u]
                                       /\ rcptPos'[u] = rcptPos[u]
                                       /\ envelope'[u] = envelope[u]
    PROVE  SendInv'
<1>1. IdsAreGivenOut' /\ AllOrNobody' /\ CopyIsOfASentMail'
  BY DEF SendInv, IdsAreGivenOut, AllOrNobody, CopyIsOfASentMail
<1>2. ASSUME NEW u \in SendThreads
      PROVE  RequestInv(u)'
  <2>1. CASE u = t
    BY <2>1
  <2>2. CASE u # t
    <3>1. RequestInv(u) /\ seed \in Nat
      BY SendAssumption DEF SendInv, SendTypeOK
    <3> QED
      BY <2>2, <3>1, OtherRequests
  <2> QED
    BY <2>1, <2>2
<1> QED
  BY <1>1, <1>2 DEF SendInv

\* The copy is one new row, and no other row changes.
LEMMA CopyAdds ==
    ASSUME StoreTypeOK, NEW t \in SendThreads, sendAccount[t] \in Account, FileCopy(t)
    PROVE  /\ emails' \in Seq(Mail)
           /\ DOMAIN emails' = DOMAIN emails \cup {Len(emails) + 1}
           /\ Len(emails) + 1 \notin DOMAIN emails
           /\ emails'[Len(emails) + 1] =
                MailFor(NoUid, sendAccount[t], "sent", NoWriter)
           /\ \A i \in DOMAIN emails : emails'[i] = emails[i]
<1> DEFINE mail == MailFor(NoUid, sendAccount[t], "sent", NoWriter)
<1>1. mail \in Mail
  BY DEF MailFor, Mail, Account, FLAG_NO, FLAG_YES
<1>2. emails \in Seq(Mail) /\ emails' = Append(emails, mail)
  BY DEF StoreTypeOK, FileCopy, DoInsert
<1> HIDE DEF mail
<1>3. /\ emails' \in Seq(Mail)
      /\ DOMAIN emails' = DOMAIN emails \cup {Len(emails) + 1}
      /\ Len(emails) + 1 \notin DOMAIN emails
      /\ emails'[Len(emails) + 1] = mail
      /\ \A i \in DOMAIN emails : emails'[i] = emails[i]
  BY <1>1, <1>2, AppendProperties, LenProperties
<1> QED
  BY <1>3 DEF mail

----
\* Type correctness.
LEMMA SendTypeStep ==
    ASSUME SendInv, [SendNext]_sendAllVars
    PROVE  SendTypeOK'
<1> USE SendAssumption DEF SendTypeOK, StoreTypeOK, Idle, Talking
<1>1. SendTypeOK
  BY DEF SendInv
<1>2. ASSUME NEW t \in SendThreads, sendPC[t] \notin Idle
      PROVE  /\ messageID[t] \in 1..MaxSends
             /\ sendAccount[t] \in Account
             /\ letter[t] \in Letters
             /\ Everybody(letter[t]) \subseteq Recipients
  <2>1. OnRecord(t)
    BY DEF SendInv, RequestInv
  <2>2. messageID[t] \in 1..seed /\ sendAccount[t] \in Account /\ letter[t] \in Letters
    BY <1>2, <2>1 DEF OnRecord
  <2>3. seed \in 0..MaxSends /\ MaxSends \in Nat
    BY <1>1
  <2> QED
    BY <2>2, <2>3, LoopFacts
<1>3. ASSUME NEW a \in Accounts, NEW ad \in Addresses, ChangeSender(a, ad)
      PROVE  SendTypeOK'
  BY <1>1, <1>3 DEF ChangeSender, SaveAccount, sendVars, sessionVars
<1>4. ASSUME NEW t \in SendThreads, RefuseForm(t)
      PROVE  SendTypeOK'
  BY <1>1, <1>4 DEF RefuseForm, SendGoto, storeVars, sessionVars
<1>5. ASSUME NEW t \in SendThreads, NEW a \in Accounts, NEW l \in Letters,
             StartSend(t, a, l)
      PROVE  SendTypeOK'
  <2>1. FindAccount(a) \in Account /\ accounts[a] \in Addresses
    BY <1>1, <1>5 DEF StartSend, HasAccount, FindAccount, Account
  <2>2. seed \in 0..MaxSends /\ seed < MaxSends
    BY <1>1, <1>5 DEF StartSend
  <2>3. seed + 1 \in 0..MaxSends
    BY <2>2
  <2>4. written' \in [1..MaxSends -> [from : Addresses \cup {NoAccount},
                                     letter : Letters \cup {NoLetter}]]
    BY <1>1, <1>5, <2>1 DEF StartSend
  <2> QED
    BY <1>1, <1>5, <2>1, <2>3, <2>4
       DEF StartSend, SendGoto, FirstRcpt, storeVars, sessionVars
<1>6. ASSUME NEW t \in SendThreads, RcptTo(t)
      PROVE  SendTypeOK'
  <2>0. sendPC[t] = "rcpt" /\ letter[t] \in Letters /\ rcptPos[t] \in Nat \ {0}
    BY <1>1, <1>2, <1>6 DEF RcptTo
  <2>1. rcptPos[t] \in 1..Len(Rcpts(letter[t]))
    <3>1. rcptPos[t] <= Len(Rcpts(letter[t]))
      BY <2>0 DEF SendInv, RequestInv, EnvelopeFollows
    <3>2. Len(Rcpts(letter[t])) \in Nat
      BY <2>0, LoopFacts, LenProperties
    <3> QED
      BY <2>0, <3>1, <3>2
  <2>2. Rcpts(letter[t])[rcptPos[t]] \in Recipients
    BY <2>0, <2>1, LoopFacts, ElementOfSeq
  <2>3. envelope' \in [SendThreads -> SUBSET Recipients]
    BY <1>1, <1>6, <2>2 DEF RcptTo
  <2>4. rcptPos' \in [SendThreads -> Nat \ {0}]
    <3>1. rcptPos' = rcptPos \/ rcptPos' = [rcptPos EXCEPT ![t] = @ + 1]
      BY <1>6 DEF RcptTo
    <3>2. rcptPos[t] + 1 \in Nat \ {0}
      BY <2>0
    <3>3. rcptPos \in [SendThreads -> Nat \ {0}]
      BY <1>1
    <3> QED
      BY <3>1, <3>2, <3>3
  <2>5. sendPC' = sendPC \/ sendPC' = [sendPC EXCEPT ![t] = "data"]
    BY <1>6 DEF RcptTo, SendGoto
  <2>6. UNCHANGED <<emails, accounts, sendAccount, letter, messageID, seed, written,
                    delivered, filed>>
    BY <1>6 DEF RcptTo, storeVars
  <2> QED
    BY <1>1, <2>3, <2>4, <2>5, <2>6
<1>7. ASSUME NEW t \in SendThreads,
             Login(t) \/ LoginFails(t) \/ MailFrom(t) \/ Data(t) \/ SendThrows(t)
               \/ Abort(t) \/ Quit(t) \/ QuitFails(t)
      PROVE  SendTypeOK'
  BY <1>1, <1>7 DEF Login, LoginFails, MailFrom, Data, SendThrows, Abort, Quit, QuitFails,
     SendGoto, KeepLocals, storeVars, sessionVars
<1>8. ASSUME NEW t \in SendThreads, Dot(t) \/ DotReplyLost(t)
      PROVE  SendTypeOK'
  <2>1. messageID[t] \in 1..MaxSends /\ envelope[t] \in SUBSET Recipients
    BY <1>1, <1>2, <1>8 DEF Dot, DotReplyLost
  <2>2. delivered' = delivered \cup {<<messageID[t], envelope[t]>>}
    BY <1>8 DEF Dot, DotReplyLost, Deliver
  <2>3. delivered' \subseteq (1..MaxSends) \X SUBSET Recipients
    BY <1>1, <2>1, <2>2
  <2>4. sendPC' = [sendPC EXCEPT ![t] = "quit"] \/ sendPC' = [sendPC EXCEPT ![t] = "abort"]
    BY <1>8 DEF Dot, DotReplyLost, SendGoto
  <2>5. UNCHANGED <<emails, accounts, sendAccount, letter, messageID, rcptPos, seed,
                    written, envelope, filed>>
    BY <1>8 DEF Dot, DotReplyLost, KeepLocals, storeVars
  <2> QED
    BY <1>1, <2>3, <2>4, <2>5
<1>9. ASSUME NEW t \in SendThreads, SaveCopy(t) \/ SaveCopyFails(t)
      PROVE  SendTypeOK'
  <2>1. messageID[t] \in 1..MaxSends /\ sendAccount[t] \in Account
    BY <1>2, <1>9 DEF SaveCopy, SaveCopyFails
  <2>2. MailFor(NoUid, sendAccount[t], "sent", NoWriter) \in Mail
    BY <2>1 DEF MailFor, Mail, Account, FLAG_NO, FLAG_YES
  <2>3. emails' \in Seq(Mail) /\ filed' \subseteq (1..MaxSends) \X Nat
    <3>1. CASE FileCopy(t)
      BY <1>1, <2>1, <3>1, CopyAdds, LenProperties DEF FileCopy, StoreTypeOK
    <3>2. CASE UNCHANGED <<emails, filed>>
      BY <1>1, <3>2
    <3> QED
      BY <1>9, <3>1, <3>2 DEF SaveCopy, SaveCopyFails
  <2> QED
    BY <1>1, <1>9, <2>3 DEF SaveCopy, SaveCopyFails, SendGoto, KeepLocals, sessionVars
<1>10. CASE UNCHANGED sendAllVars
  BY <1>1, <1>10 DEF sendAllVars, sendVars, storeVars, sessionVars
<1> QED
  BY <1>3, <1>4, <1>5, <1>6, <1>7, <1>8, <1>9, <1>10 DEF SendNext, SendProceeds

----
\* The steps, by what they change.

LEMMA StartSendStep ==
    ASSUME SendInv, SendTypeOK', NEW t \in SendThreads, NEW a \in Accounts,
           NEW l \in Letters, StartSend(t, a, l)
    PROVE  SendInv'
<1> DEFINE entry == [from |-> accounts[a], letter |-> l]
<1>1. /\ seed \in Nat /\ seed + 1 \in 1..MaxSends /\ accounts[a] \in Addresses
      /\ written \in [1..MaxSends -> [from : Addresses \cup {NoAccount},
                                      letter : Letters \cup {NoLetter}]]
      /\ messageID \in [SendThreads -> 0..MaxSends]
      /\ delivered \subseteq (1..MaxSends) \X SUBSET Recipients
      /\ filed \subseteq (1..MaxSends) \X Nat
  BY SendAssumption DEF SendInv, SendTypeOK, StoreTypeOK, StartSend, HasAccount
<1>2. /\ seed' = seed + 1
      /\ messageID'[t] = seed + 1
      /\ \A u \in SendThreads \ {t} : messageID'[u] = messageID[u]
      /\ written'[seed + 1] = entry
      /\ \A m \in 1..seed : written'[m] = written[m]
      /\ UNCHANGED <<emails, accounts, envelope, delivered, filed>>
  BY <1>1 DEF StartSend, storeVars, sessionVars
<1>3. /\ sendPC'[t] = "connect" /\ sendAccount'[t] = FindAccount(a)
      /\ letter'[t] = l /\ rcptPos'[t] = 1
      /\ \A u \in SendThreads \ {t} :
           /\ sendPC'[u] = sendPC[u] /\ sendAccount'[u] = sendAccount[u]
           /\ letter'[u] = letter[u] /\ rcptPos'[u] = rcptPos[u]
  BY DEF SendInv, SendTypeOK, StartSend, SendGoto, FirstRcpt
<1>4. /\ \A u \in SendThreads : messageID[u] \in Nat /\ messageID[u] <= seed
      /\ \A d \in delivered : d[1] \in 1..seed
      /\ \A f \in filed : f[1] \in 1..seed
  BY <1>1 DEF SendInv, IdsAreGivenOut
<1>5. IdsAreGivenOut'
  <2>1. ASSUME NEW u \in SendThreads, NEW v \in SendThreads, u # v, messageID'[u] # 0
        PROVE  messageID'[u] # messageID'[v]
    <3>1. messageID'[u] = messageID[u] \/ (messageID'[u] = seed + 1 /\ u = t)
      BY <1>2
    <3>2. messageID'[v] = messageID[v] \/ (messageID'[v] = seed + 1 /\ v = t)
      BY <1>2
    <3> QED
      BY <1>1, <1>4, <2>1, <3>1, <3>2 DEF SendInv, IdsAreGivenOut
  <2>2. \A u \in SendThreads : messageID'[u] <= seed'
    BY <1>1, <1>2, <1>4
  <2>3. (\A d \in delivered' : d[1] <= seed') /\ \A f \in filed' : f[1] <= seed'
    BY <1>1, <1>2, <1>4
  <2> QED
    BY <2>1, <2>2, <2>3 DEF IdsAreGivenOut
<1>6. AllOrNobody'
  BY <1>2, <1>4 DEF SendInv, AllOrNobody
<1>7. CopyIsOfASentMail'
  BY <1>2, <1>4 DEF SendInv, CopyIsOfASentMail
<1>8. RequestInv(t)'
  <2>1. FindAccount(a) \in Account /\ FindAccount(a).address = accounts[a]
    BY <1>1 DEF FindAccount, Account
  <2>2. messageID'[t] \in 1..seed'
    BY <1>1, <1>2
  <2>3. \A f \in filed' : f[1] # messageID'[t]
    BY <1>1, <1>2, <1>4
  <2>4. written'[messageID'[t]] = [from |-> sendAccount'[t].address, letter |-> letter'[t]]
    BY <1>2, <1>3, <2>1
  <2>5. OnRecord(t)'
    BY <1>3, <2>1, <2>2, <2>3, <2>4 DEF OnRecord
  <2> QED
    BY <1>3, <2>5 DEF RequestInv, EnvelopeFollows, SentAfterDot, FiledWhenOk
<1>9. ASSUME NEW u \in SendThreads \ {t}
      PROVE  RequestInv(u)'
  <2>1. RequestInv(u)
    BY DEF SendInv
  <2>2. messageID[u] \in 1..seed => written'[messageID[u]] = written[messageID[u]]
    BY <1>2
  <2> QED
    BY <1>1, <1>2, <1>3, <2>1, <2>2, OtherRequests
<1> QED
  BY <1>5, <1>6, <1>7, <1>8, <1>9 DEF SendInv

LEMMA RefuseFormStep ==
    ASSUME SendInv, SendTypeOK', NEW t \in SendThreads, RefuseForm(t)
    PROVE  SendInv'
<1>1. /\ sendPC'[t] = "error" /\ messageID'[t] = 0
      /\ \A u \in SendThreads \ {t} : sendPC'[u] = sendPC[u] /\ messageID'[u] = messageID[u]
      /\ UNCHANGED <<emails, accounts, sendAccount, letter, rcptPos, seed, written,
                     envelope, delivered, filed>>
  BY DEF SendInv, SendTypeOK, RefuseForm, SendGoto, storeVars, sessionVars
<1>2. seed \in Nat
  BY SendAssumption DEF SendInv, SendTypeOK
<1>3. IdsAreGivenOut'
  <2>1. ASSUME NEW u \in SendThreads, NEW v \in SendThreads, u # v, messageID'[u] # 0
        PROVE  messageID'[u] # messageID'[v]
    BY <1>1, <2>1 DEF SendInv, IdsAreGivenOut
  <2> QED
    BY <1>1, <1>2, <2>1 DEF SendInv, IdsAreGivenOut
<1>4. AllOrNobody' /\ CopyIsOfASentMail'
  BY <1>1 DEF SendInv, AllOrNobody, CopyIsOfASentMail
<1>5. RequestInv(t)'
  BY <1>1 DEF RequestInv, OnRecord, EnvelopeFollows, SentAfterDot, FiledWhenOk, Idle
<1>6. ASSUME NEW u \in SendThreads \ {t}
      PROVE  RequestInv(u)'
  <2>1. RequestInv(u)
    BY DEF SendInv
  <2> QED
    BY <1>1, <1>2, <2>1, OtherRequests
<1> QED
  BY <1>3, <1>4, <1>5, <1>6 DEF SendInv

\* The commands and the ends of a session that neither deliver nor file.
LEMMA CommandStep ==
    ASSUME SendInv, SendTypeOK', NEW t \in SendThreads,
           \/ Login(t) \/ LoginFails(t) \/ MailFrom(t) \/ RcptTo(t) \/ Data(t)
           \/ SendThrows(t) \/ Abort(t) \/ Quit(t) \/ QuitFails(t)
    PROVE  SendInv'
<1> USE DEF KeepLocals, SendGoto, storeVars, sessionVars
<1>1. /\ RequestInv(t)
      /\ sendPC \in [SendThreads -> Idle \cup Talking \cup {"connect", "abort", "quit", "save"}]
      /\ envelope \in [SendThreads -> SUBSET Recipients]
      /\ rcptPos \in [SendThreads -> Nat \ {0}]
  BY DEF SendInv, SendTypeOK
<1>2. /\ UNCHANGED <<emails, sendAccount, letter, messageID, seed, written, delivered, filed>>
      /\ sendPC[t] \notin Idle
  BY DEF Login, LoginFails, MailFrom, RcptTo, Data, SendThrows, Abort, Quit, QuitFails,
     Idle, Talking
<1>3. \A u \in SendThreads \ {t} :
        sendPC'[u] = sendPC[u] /\ rcptPos'[u] = rcptPos[u] /\ envelope'[u] = envelope[u]
  BY <1>1 DEF Login, LoginFails, MailFrom, RcptTo, Data, SendThrows, Abort, Quit, QuitFails
<1>4. OnRecord(t)'
  BY <1>1, <1>2 DEF RequestInv, OnRecord
<1>5. letter[t] \in Letters
  BY <1>1, <1>2 DEF RequestInv, OnRecord
<1>6. EnvelopeFollows(t)' /\ SentAfterDot(t)' /\ FiledWhenOk(t)'
  <2> USE DEF RequestInv, EnvelopeFollows, SentAfterDot, FiledWhenOk
  <2>1. CASE Login(t)
    BY <1>1, <1>2, <2>1 DEF Login
  <2>2. CASE MailFrom(t)
    <3>1. /\ sendPC[t] = "mail" /\ rcptPos' = rcptPos /\ envelope' = envelope
          /\ sendPC'[t] = IF letter[t].to = << >> THEN "abort" ELSE "rcpt"
      BY <1>1, <2>2 DEF MailFrom
    <3>2. rcptPos[t] = 1 /\ envelope[t] = {}
      BY <1>1, <3>1
    <3>3. letter[t].to # << >> => 1 <= Len(Rcpts(letter[t]))
      BY <1>5, LoopFacts
    <3>4. Before(letter[t], 1) = {}
      BY <1>5, LoopFacts
    <3> QED
      BY <1>2, <3>1, <3>2, <3>3, <3>4 DEF Before
  <2>3. CASE RcptTo(t)
    <3> DEFINE all == Rcpts(letter[t])
    <3>1. /\ sendPC[t] = "rcpt"
          /\ envelope'[t] = envelope[t] \cup {all[rcptPos[t]]}
          /\ \/ /\ rcptPos[t] < Len(all)
                /\ rcptPos'[t] = rcptPos[t] + 1 /\ sendPC'[t] = "rcpt"
             \/ ~(rcptPos[t] < Len(all)) /\ sendPC'[t] = "data"
      BY <1>1, <2>3 DEF RcptTo
    <3>2. rcptPos[t] \in Nat \ {0} /\ rcptPos[t] <= Len(all)
      BY <1>1, <3>1
    <3>3. Len(all) \in Nat
      BY <1>5, LoopFacts, LenProperties
    <3>4. rcptPos[t] \in 1..Len(all) /\ envelope[t] = Before(letter[t], rcptPos[t])
      BY <1>1, <3>1, <3>2, <3>3
    <3>5. envelope'[t] = Before(letter[t], rcptPos[t] + 1)
      BY <1>5, <3>1, <3>4, LoopFacts
    <3>6. CASE rcptPos[t] < Len(all) /\ rcptPos'[t] = rcptPos[t] + 1 /\ sendPC'[t] = "rcpt"
      <4>1. rcptPos'[t] <= Len(all)
        BY <3>2, <3>3, <3>6
      <4> QED
        BY <1>2, <3>5, <3>6, <4>1 DEF Before
    <3>7. CASE ~(rcptPos[t] < Len(all)) /\ sendPC'[t] = "data"
      <4>1. rcptPos[t] = Len(all)
        BY <3>2, <3>3, <3>7
      <4>2. envelope'[t] = Everybody(letter[t])
        BY <1>5, <3>5, <4>1, LoopFacts
      <4> QED
        BY <1>2, <3>7, <4>2
    <3> QED
      BY <3>1, <3>6, <3>7
  <2>4. CASE Data(t)
    BY <1>1, <1>2, <2>4 DEF Data
  <2>5. CASE Quit(t)
    BY <1>1, <1>2, <2>5 DEF Quit
  <2>6. CASE LoginFails(t) \/ SendThrows(t) \/ Abort(t) \/ QuitFails(t)
    <3>1. sendPC'[t] \in {"error", "abort"}
      BY <1>1, <2>6 DEF LoginFails, SendThrows, Abort, QuitFails
    <3> QED
      BY <3>1
  <2> QED
    BY <2>1, <2>2, <2>3, <2>4, <2>5, <2>6
<1> QED
  BY <1>2, <1>3, <1>4, <1>6, MoveStep DEF RequestInv

\* The dot, whether its reply arrives or not.
LEMMA DotStep ==
    ASSUME SendInv, SendTypeOK', NEW t \in SendThreads, Dot(t) \/ DotReplyLost(t)
    PROVE  SendInv'
<1>1. /\ sendPC[t] = "dot" /\ sendPC'[t] \in {"quit", "abort"}
      /\ delivered' = delivered \cup {<<messageID[t], envelope[t]>>}
      /\ \A u \in SendThreads \ {t} : sendPC'[u] = sendPC[u]
      /\ UNCHANGED <<emails, sendAccount, letter, messageID, rcptPos, seed, written,
                     envelope, filed>>
  BY DEF SendInv, SendTypeOK, Dot, DotReplyLost, Deliver, SendGoto, KeepLocals, storeVars
<1>2. seed \in Nat
  BY SendAssumption DEF SendInv, SendTypeOK
<1>3. OnRecord(t) /\ EnvelopeFollows(t)
  BY DEF SendInv, RequestInv
<1>4. /\ messageID[t] \in 1..seed /\ envelope[t] = Everybody(letter[t])
      /\ written[messageID[t]].letter = letter[t]
  BY <1>1, <1>3 DEF OnRecord, EnvelopeFollows, Idle
<1>5. IdsAreGivenOut'
  <2>1. \A d \in delivered' : d[1] <= seed'
    BY <1>1, <1>2, <1>4 DEF SendInv, IdsAreGivenOut
  <2> QED
    BY <1>1, <2>1 DEF SendInv, IdsAreGivenOut
<1>6. AllOrNobody'
  BY <1>1, <1>4 DEF SendInv, AllOrNobody
<1>7. CopyIsOfASentMail'
  BY <1>1 DEF SendInv, CopyIsOfASentMail
<1>8. RequestInv(t)'
  <2>1. OnRecord(t)'
    BY <1>1, <1>3 DEF OnRecord, Idle
  <2>2. <<messageID'[t], Everybody(letter'[t])>> \in delivered'
    BY <1>1, <1>4
  <2> QED
    BY <1>1, <2>1, <2>2 DEF RequestInv, EnvelopeFollows, SentAfterDot, FiledWhenOk
<1>9. ASSUME NEW u \in SendThreads \ {t}
      PROVE  RequestInv(u)'
  <2>1. RequestInv(u)
    BY DEF SendInv
  <2> QED
    BY <1>1, <1>2, <2>1, OtherRequests
<1> QED
  BY <1>5, <1>6, <1>7, <1>8, <1>9 DEF SendInv

\* The copy: the account is the one the message was sent from.
LEMMA SaveCopyStep ==
    ASSUME SendInv, SendTypeOK', NEW t \in SendThreads,
           SaveCopy(t) \/ SaveCopyFails(t)
    PROVE  SendInv'
<1> DEFINE row == Len(emails) + 1
           mail == MailFor(NoUid, sendAccount[t], "sent", NoWriter)
<1>1. /\ sendPC[t] = "save" /\ sendPC'[t] \in {"ok", "error"}
      /\ sendPC'[t] = "ok" => FileCopy(t)
      /\ FileCopy(t) \/ UNCHANGED <<emails, filed>>
      /\ \A u \in SendThreads \ {t} : sendPC'[u] = sendPC[u]
      /\ UNCHANGED <<sendAccount, letter, messageID, rcptPos, seed, written,
                     envelope, delivered>>
  BY DEF SendInv, SendTypeOK, SaveCopy, SaveCopyFails, SendGoto, KeepLocals, sessionVars
<1>2. seed \in Nat /\ emails \in Seq(Mail) /\ filed \subseteq (1..MaxSends) \X Nat
  BY SendAssumption DEF SendInv, SendTypeOK, StoreTypeOK
<1>3. /\ messageID[t] \in 1..seed /\ sendAccount[t] \in Account
      /\ written[messageID[t]].from = sendAccount[t].address
      /\ \A f \in filed : f[1] # messageID[t]
      /\ <<messageID[t], Everybody(letter[t])>> \in delivered
  <2>1. OnRecord(t) /\ SentAfterDot(t)
    BY DEF SendInv, RequestInv
  <2>2. sendPC[t] \notin Idle /\ sendPC[t] \in {"quit", "save", "ok"}
    BY <1>1 DEF Idle
  <2>3. written[messageID[t]] = [from |-> sendAccount[t].address, letter |-> letter[t]]
    BY <2>1, <2>2 DEF OnRecord
  <2>4. written[messageID[t]].from = sendAccount[t].address
    BY <2>3
  <2> QED
    BY <2>1, <2>2, <2>4 DEF OnRecord, SentAfterDot
<1>4. ASSUME FileCopy(t)
      PROVE  /\ filed' = filed \cup {<<messageID[t], row>>}
             /\ DOMAIN emails' = DOMAIN emails \cup {row} /\ row \notin DOMAIN emails
             /\ emails'[row] = mail
             /\ \A i \in DOMAIN emails : emails'[i] = emails[i]
             /\ mail.folder = "sent" /\ mail.owner = sendAccount[t].address
  <2>1. /\ DOMAIN emails' = DOMAIN emails \cup {row} /\ row \notin DOMAIN emails
        /\ emails'[row] = mail
        /\ \A i \in DOMAIN emails : emails'[i] = emails[i]
    BY <1>3, <1>4, CopyAdds DEF SendInv, SendTypeOK
  <2> QED
    BY <1>4, <2>1 DEF FileCopy, MailFor
<1>5. IdsAreGivenOut'
  <2>1. \A f \in filed' : f[1] <= seed'
    <3>1. CASE FileCopy(t)
      BY <1>1, <1>2, <1>3, <1>4, <3>1 DEF SendInv, IdsAreGivenOut
    <3>2. CASE UNCHANGED <<emails, filed>>
      BY <1>1, <3>2 DEF SendInv, IdsAreGivenOut
    <3> QED
      BY <1>1, <3>1, <3>2
  <2> QED
    BY <1>1, <2>1 DEF SendInv, IdsAreGivenOut
<1>6. AllOrNobody'
  BY <1>1 DEF SendInv, AllOrNobody
<1>7. CopyIsOfASentMail'
  <2>1. CASE FileCopy(t)
    <3>1. ASSUME NEW f \in filed
          PROVE  /\ \E d \in delivered' : d[1] = f[1]
                 /\ f[2] \in DOMAIN emails' /\ f[2] # row
                 /\ emails'[f[2]].folder = "sent"
                 /\ emails'[f[2]].owner = written'[f[1]].from
      BY <1>1, <1>4, <2>1 DEF SendInv, CopyIsOfASentMail
    <3>2. /\ \E d \in delivered' : d[1] = messageID[t]
          /\ row \in DOMAIN emails' /\ emails'[row].folder = "sent"
          /\ emails'[row].owner = written'[messageID[t]].from
      BY <1>1, <1>3, <1>4, <2>1
    <3>3. ASSUME NEW f \in filed', NEW g \in filed', f # g
          PROVE  f[1] # g[1] /\ f[2] # g[2]
      <4>1. CASE f \in filed /\ g \in filed
        BY <3>3, <4>1 DEF SendInv, CopyIsOfASentMail
      <4>2. CASE f \in filed /\ g = <<messageID[t], row>>
        BY <1>3, <3>1, <4>2
      <4>3. CASE f = <<messageID[t], row>> /\ g \in filed
        BY <1>3, <3>1, <4>3
      <4> QED
        BY <1>4, <2>1, <3>3, <4>1, <4>2, <4>3
    <3> QED
      BY <1>4, <2>1, <3>1, <3>2, <3>3 DEF CopyIsOfASentMail
  <2>2. CASE UNCHANGED <<emails, filed>>
    BY <1>1, <2>2 DEF SendInv, CopyIsOfASentMail
  <2> QED
    BY <1>1, <2>1, <2>2
<1>8. RequestInv(t)'
  <2>1. sendPC'[t] = "ok" => \E f \in filed' : f[1] = messageID'[t]
    <3> HAVE sendPC'[t] = "ok"
    <3>1. <<messageID[t], row>> \in filed'
      BY <1>1, <1>4
    <3> WITNESS <<messageID[t], row>> \in filed'
    <3> QED
      BY <1>1
  <2>2. <<messageID'[t], Everybody(letter'[t])>> \in delivered'
    BY <1>1, <1>3
  <2> QED
    BY <1>1, <2>1, <2>2
       DEF RequestInv, OnRecord, EnvelopeFollows, SentAfterDot, FiledWhenOk, Idle
<1>9. ASSUME NEW u \in SendThreads \ {t}
      PROVE  RequestInv(u)'
  <2>1. RequestInv(u)
    BY DEF SendInv
  <2>2. messageID[u] # messageID[t]
    BY <1>2, <1>3 DEF SendInv, IdsAreGivenOut
  <2>3. filed \subseteq filed' /\ \A f \in filed' \ filed : f[1] # messageID[u]
    BY <1>1, <1>4, <2>2
  <2> QED
    BY <1>1, <1>2, <2>1, <2>3, OtherRequests
<1> QED
  BY <1>5, <1>6, <1>7, <1>8, <1>9 DEF SendInv

----
LEMMA SendInvInit == SendInit => SendInv
<1> SUFFICES ASSUME SendInit PROVE SendInv
  OBVIOUS
<1> USE DEF SendInit, StoreInit
<1>1. SendTypeOK
  BY SendAssumption DEF SendTypeOK, StoreTypeOK, Idle
<1>2. IdsAreGivenOut /\ AllOrNobody /\ CopyIsOfASentMail
  BY DEF IdsAreGivenOut, AllOrNobody, CopyIsOfASentMail
<1>3. ASSUME NEW t \in SendThreads
      PROVE  RequestInv(t)
  BY DEF RequestInv, OnRecord, EnvelopeFollows, SentAfterDot, FiledWhenOk, Idle
<1> QED
  BY <1>1, <1>2, <1>3 DEF SendInv

LEMMA SendInvStep ==
    ASSUME SendInv, [SendNext]_sendAllVars
    PROVE  SendInv'
<1>1. SendTypeOK'
  BY SendTypeStep
<1>2. ASSUME UNCHANGED <<emails, sendVars>>
      PROVE  SendInv'
  <2>1. IdsAreGivenOut' /\ AllOrNobody' /\ CopyIsOfASentMail'
    BY <1>2 DEF SendInv, IdsAreGivenOut, AllOrNobody, CopyIsOfASentMail, sendVars, sessionVars
  <2>2. ASSUME NEW u \in SendThreads
        PROVE  RequestInv(u)'
    <3>1. RequestInv(u) /\ seed \in Nat
      BY SendAssumption DEF SendInv, SendTypeOK
    <3> QED
      BY <1>2, <3>1, OtherRequests DEF sendVars, sessionVars
  <2> QED
    BY <1>1, <2>1, <2>2 DEF SendInv
<1>3. CASE UNCHANGED sendAllVars
  BY <1>2, <1>3 DEF sendAllVars, storeVars
<1>4. ASSUME NEW a \in Accounts, NEW ad \in Addresses, ChangeSender(a, ad)
      PROVE  SendInv'
  BY <1>2, <1>4 DEF ChangeSender, SaveAccount
<1>5. ASSUME NEW t \in SendThreads, RefuseForm(t)
      PROVE  SendInv'
  BY <1>1, <1>5, RefuseFormStep
<1>6. ASSUME NEW t \in SendThreads, NEW a \in Accounts, NEW l \in Letters,
             StartSend(t, a, l)
      PROVE  SendInv'
  BY <1>1, <1>6, StartSendStep
<1>7. ASSUME NEW t \in SendThreads, SendProceeds(t)
      PROVE  SendInv'
  BY <1>1, <1>7, CommandStep, DotStep, SaveCopyStep DEF SendProceeds
<1> QED
  BY <1>3, <1>4, <1>5, <1>6, <1>7 DEF SendNext

THEOREM SendInvAlways == SendSpec => []SendInv
<1>1. SendInv /\ [SendNext]_sendAllVars => SendInv'
  BY SendInvStep
<1> QED
  BY <1>1, SendInvInit, PTL DEF SendSpec

\* The requests to send keep to the types of their locals and of the table.
THEOREM SendTypesAlways == SendSpec => []SendTypeOK
<1>1. SendInv => SendTypeOK
  BY DEF SendInv
<1> QED
  BY <1>1, SendInvAlways, PTL

\* Whatever fails and whoever sends at the same time, the SMTP server is never
\* made to deliver a message to some of its recipients only, or to others.
THEOREM EverybodyOrNobody == SendSpec => []AllOrNobody
<1>1. SendInv => AllOrNobody
  BY DEF SendInv
<1> QED
  BY <1>1, SendInvAlways, PTL

\* The answer ok is true: delivered to everybody, and filed.
THEOREM OkIsSent == SendSpec => []OkMeansSent
<1>1. SendInv => OkMeansSent
  BY DEF SendInv, RequestInv, SentAfterDot, FiledWhenOk, OkMeansSent
<1> QED
  BY <1>1, SendInvAlways, PTL

\* No copy without a delivery, none twice, and each under its sender.
THEOREM CopiesAreOfSentMail == SendSpec => []CopyIsOfASentMail
<1>1. SendInv => CopyIsOfASentMail
  BY DEF SendInv
<1> QED
  BY <1>1, SendInvAlways, PTL
====
