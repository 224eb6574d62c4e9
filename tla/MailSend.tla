---- MODULE MailSend ----
(***************************************************************************)
(* POST /rest/mail/send: MailSendPage.doSendMail, the SMTP session it      *)
(* drives (SMTPClient.send, SocketClient.close) and the copy it files.     *)
(***************************************************************************)
EXTENDS MailStore, FiniteSets, Functions

CONSTANTS
    SendThreads,   \* request threads
    Recipients,    \* the addresses users write to
    Letters,       \* what users write: the recipients of TO, and those of CC and BCC
    MaxSends       \* bound: messages given a Message-ID in one behaviour

ASSUME SendAssumption ==
    /\ Letters \subseteq [to : Seq(Recipients), others : Seq(Recipients)]
    /\ MaxSends \in Nat

VARIABLES
    sendPC,        \* per thread: the statement it is about to run
    sendAccount,   \* the account, as read at the start of the request
    letter,        \* the form it was posted
    messageID,     \* generateMessageID; 0 while the request has none
    rcptPos,       \* the recipient the RCPT loops are at
    seed,          \* MESSAGE_SEED, shared by all threads
    envelope,      \* on the SMTP server: the recipients it accepted in this session
    delivered,     \* on the SMTP server: <<Message-ID, recipients>> it took over
    written,       \* history: the sender and the letter of each Message-ID
    filed          \* history: <<Message-ID, row>> of the copies in the sent folder

sessionVars == <<envelope, delivered>>
sendVars == <<sendPC, sendAccount, letter, messageID, rcptPos, seed,
              sessionVars, written, filed>>
sendAllVars == <<storeVars, sendVars>>

Idle == {"none", "ok", "error"}
Talking == {"mail", "rcpt", "data", "dot"}
NoLetter == [to |-> << >>, others |-> << >>]

Rcpts(l) == l.to \o l.others
Everybody(l) == Range(Rcpts(l))

SendGoto(t, label) == sendPC' = [sendPC EXCEPT ![t] = label]

\* The locals of doSendMail stay as they are.
KeepLocals == UNCHANGED <<sendAccount, letter, messageID, rcptPos, seed, written>>

----
\* MailSendPage.

\* The form has no "to", or the user has no account: an exception before any SMTP.
RefuseForm(t) ==
    /\ sendPC[t] \in Idle
    /\ SendGoto(t, "error")
    /\ messageID' = [messageID EXCEPT ![t] = 0]
    /\ UNCHANGED <<sendAccount, letter, rcptPos, seed, written>>
    /\ UNCHANGED <<storeVars, sessionVars, filed>>

\* Seeded fault (SendTypeOK): the loops count from zero.
FirstRcptZero == 0

FirstRcpt == 1

StartSend(t, a, l) ==
    /\ sendPC[t] \in Idle
    /\ HasAccount(a)
    /\ seed < MaxSends
    /\ SendGoto(t, "connect")
    /\ sendAccount' = [sendAccount EXCEPT ![t] = FindAccount(a)]
    /\ letter' = [letter EXCEPT ![t] = l]
    /\ seed' = seed + 1
    /\ messageID' = [messageID EXCEPT ![t] = seed + 1]
    /\ written' = [written EXCEPT ![seed + 1] = [from |-> accounts[a], letter |-> l]]
    /\ rcptPos' = [rcptPos EXCEPT ![t] = FirstRcpt]
    /\ UNCHANGED <<storeVars, sessionVars, filed>>

\* prepareSender: connect and login.
Login(t) ==
    /\ sendPC[t] = "connect"
    /\ SendGoto(t, "mail")
    /\ envelope' = [envelope EXCEPT ![t] = {}]
    /\ KeepLocals
    /\ UNCHANGED <<storeVars, delivered, filed>>

\* It is outside the try: nothing closes the connection.
LoginFails(t) ==
    /\ sendPC[t] = "connect"
    /\ SendGoto(t, "error")
    /\ KeepLocals
    /\ UNCHANGED <<storeVars, sessionVars, filed>>

----
\* SMTPClient.send: each command waits for its reply.

MailFrom(t) ==
    /\ sendPC[t] = "mail"
    /\ SendGoto(t, IF letter[t].to = << >> THEN "abort" ELSE "rcpt")
    /\ KeepLocals
    /\ UNCHANGED <<storeVars, sessionVars, filed>>

\* Seeded fault (AllOrNobody): a recipient the server refuses is passed over.
RcptToUnchecked(t) ==
    /\ sendPC[t] = "rcpt"
    /\ \/ envelope' = [envelope EXCEPT ![t] = @ \cup {Rcpts(letter[t])[rcptPos[t]]}]
       \/ UNCHANGED envelope
    /\ IF rcptPos[t] < Len(Rcpts(letter[t]))
       THEN rcptPos' = [rcptPos EXCEPT ![t] = @ + 1] /\ UNCHANGED sendPC
       ELSE SendGoto(t, "data") /\ UNCHANGED rcptPos
    /\ UNCHANGED <<storeVars, sendAccount, letter, messageID, seed, written,
                   delivered, filed>>

\* One RCPT of the three loops; the server accepts the recipient.
RcptTo(t) ==
    /\ sendPC[t] = "rcpt"
    /\ envelope' = [envelope EXCEPT ![t] = @ \cup {Rcpts(letter[t])[rcptPos[t]]}]
    /\ IF rcptPos[t] < Len(Rcpts(letter[t]))
       THEN rcptPos' = [rcptPos EXCEPT ![t] = @ + 1] /\ UNCHANGED sendPC
       ELSE SendGoto(t, "data") /\ UNCHANGED rcptPos
    /\ UNCHANGED <<storeVars, sendAccount, letter, messageID, seed, written,
                   delivered, filed>>

Data(t) ==
    /\ sendPC[t] = "data"
    /\ SendGoto(t, "dot")
    /\ KeepLocals
    /\ UNCHANGED <<storeVars, sessionVars, filed>>

\* The server has the message from here on, whether or not its reply arrives.
Deliver(t) == delivered' = delivered \cup {<<messageID[t], envelope[t]>>}

\* Seeded fault (OkMeansSent): the reply to the dot is not looked at.
DotUnchecked(t) ==
    /\ sendPC[t] = "dot"
    /\ Deliver(t) \/ UNCHANGED delivered
    /\ SendGoto(t, "quit")
    /\ KeepLocals
    /\ UNCHANGED <<storeVars, envelope, filed>>

Dot(t) ==
    /\ sendPC[t] = "dot"
    /\ Deliver(t)
    /\ SendGoto(t, "quit")
    /\ KeepLocals
    /\ UNCHANGED <<storeVars, envelope, filed>>

DotReplyLost(t) ==
    /\ sendPC[t] = "dot"
    /\ Deliver(t)
    /\ SendGoto(t, "abort")
    /\ KeepLocals
    /\ UNCHANGED <<storeVars, envelope, filed>>

\* Seeded fault (SendIsAnswered): a failed dialogue is tried again, without a limit.
SendThrowsRetries(t) ==
    /\ sendPC[t] \in Talking
    /\ SendGoto(t, "mail")
    /\ rcptPos' = [rcptPos EXCEPT ![t] = FirstRcpt]
    /\ UNCHANGED <<sendAccount, letter, messageID, seed, written>>
    /\ UNCHANGED <<storeVars, sessionVars, filed>>

\* A refusal of any command, or a connection that breaks.
SendThrows(t) ==
    /\ sendPC[t] \in Talking
    /\ SendGoto(t, "abort")
    /\ KeepLocals
    /\ UNCHANGED <<storeVars, sessionVars, filed>>

----
\* finally: close, and the copy.

\* After an exception: QUIT, and then the exception, or the one of QUIT itself.
Abort(t) ==
    /\ sendPC[t] = "abort"
    /\ SendGoto(t, "error")
    /\ KeepLocals
    /\ UNCHANGED <<storeVars, sessionVars, filed>>

Quit(t) ==
    /\ sendPC[t] = "quit"
    /\ SendGoto(t, "save")
    /\ KeepLocals
    /\ UNCHANGED <<storeVars, sessionVars, filed>>

\* QUIT throws although the message is delivered: no copy is filed.
QuitFails(t) ==
    /\ sendPC[t] = "quit"
    /\ SendGoto(t, "error")
    /\ KeepLocals
    /\ UNCHANGED <<storeVars, sessionVars, filed>>

\* Seeded fault (CopyIsOfASentMail): the account is looked up again for the copy.
FileCopyForCurrentAddress(t) ==
    /\ DoInsert(MailFor(NoUid, FindAccount(sendAccount[t].id), "sent", NoWriter))
    /\ filed' = filed \cup {<<messageID[t], Len(emails) + 1>>}

FileCopy(t) ==
    /\ DoInsert(MailFor(NoUid, sendAccount[t], "sent", NoWriter))
    /\ filed' = filed \cup {<<messageID[t], Len(emails) + 1>>}

SaveCopy(t) ==
    /\ sendPC[t] = "save"
    /\ FileCopy(t)
    /\ SendGoto(t, "ok")
    /\ KeepLocals
    /\ UNCHANGED <<accounts, sessionVars>>

\* The insert fails, or the lookup of the new row after it was committed.
SaveCopyFails(t) ==
    /\ sendPC[t] = "save"
    /\ FileCopy(t) \/ UNCHANGED <<emails, filed>>
    /\ SendGoto(t, "error")
    /\ KeepLocals
    /\ UNCHANGED <<accounts, sessionVars>>

\* The settings or the registration form saves the account meanwhile.
ChangeSender(a, address) == SaveAccount(a, address) /\ UNCHANGED sendVars

----
SendInit ==
    /\ StoreInit
    /\ sendPC = [t \in SendThreads |-> "none"]
    /\ sendAccount = [t \in SendThreads |-> NoAccount]
    /\ letter = [t \in SendThreads |-> NoLetter]
    /\ messageID = [t \in SendThreads |-> 0]
    /\ rcptPos = [t \in SendThreads |-> 1]
    /\ seed = 0
    /\ envelope = [t \in SendThreads |-> {}]
    /\ delivered = {}
    /\ written = [m \in 1..MaxSends |-> [from |-> NoAccount, letter |-> NoLetter]]
    /\ filed = {}

SendProceeds(t) ==
    \/ Login(t) \/ LoginFails(t)
    \/ MailFrom(t) \/ RcptTo(t) \/ Data(t) \/ Dot(t) \/ DotReplyLost(t) \/ SendThrows(t)
    \/ Abort(t) \/ Quit(t) \/ QuitFails(t) \/ SaveCopy(t) \/ SaveCopyFails(t)

SendNext ==
    \/ \E a \in Accounts, ad \in Addresses : ChangeSender(a, ad)
    \/ \E t \in SendThreads :
        \/ RefuseForm(t)
        \/ \E a \in Accounts, l \in Letters : StartSend(t, a, l)
        \/ SendProceeds(t)

SendSpec == SendInit /\ [][SendNext]_sendAllVars

\* Jetty runs every request to its end, and the SMTP server answers or hangs up.
SendFairSpec == SendSpec /\ \A t \in SendThreads : WF_sendAllVars(SendProceeds(t))

----
\* Type invariant of the component.
SendTypeOK ==
    /\ StoreTypeOK
    /\ sendPC \in [SendThreads -> Idle \cup Talking \cup
                                   {"connect", "abort", "quit", "save"}]
    /\ sendAccount \in [SendThreads -> Account \cup {NoAccount}]
    /\ letter \in [SendThreads -> Letters \cup {NoLetter}]
    /\ messageID \in [SendThreads -> 0..MaxSends]
    /\ rcptPos \in [SendThreads -> Nat \ {0}]
    /\ seed \in 0..MaxSends
    /\ envelope \in [SendThreads -> SUBSET Recipients]
    /\ delivered \subseteq (1..MaxSends) \X SUBSET Recipients
    /\ written \in [1..MaxSends -> [from : Addresses \cup {NoAccount},
                                     letter : Letters \cup {NoLetter}]]
    /\ filed \subseteq (1..MaxSends) \X Nat

\* A message goes to everybody it names in TO, CC and BCC, or to nobody: no
\* recipient is passed over, and none is left from an earlier message.
AllOrNobody ==
    \A d \in delivered : d[2] = Everybody(written[d[1]].letter)

\* x-state: ok, "Mail send successfully.": the server took the message over for
\* everybody it names, and its copy is in the table.
OkMeansSent ==
    \A t \in SendThreads : sendPC[t] = "ok" =>
        /\ <<messageID[t], Everybody(letter[t])>> \in delivered
        /\ \E f \in filed : f[1] = messageID[t]

\* A copy in the sent folder stands for a message that was delivered, has a row
\* of its own, and is filed under the address the message was sent from, also
\* when the account was changed in between.
CopyIsOfASentMail ==
    /\ \A f \in filed :
        /\ \E d \in delivered : d[1] = f[1]
        /\ f[2] \in DOMAIN emails
        /\ emails[f[2]].folder = "sent"
        /\ emails[f[2]].owner = written[f[1]].from
    /\ \A f, g \in filed : f # g => f[1] # g[1] /\ f[2] # g[2]

\* Every request to send is answered.
SendIsAnswered ==
    \A t \in SendThreads : sendPC[t] \notin Idle ~> sendPC[t] \in Idle
====
