---- MODULE UsersProofs ----
(***************************************************************************)
(* Proofs about Users: whose a session is, whose accounts a settings       *)
(* dialog writes, who can change a password, and how many accounts a       *)
(* registration makes, for any number of request threads, browsers, users  *)
(* and accounts.                                                           *)
(***************************************************************************)
EXTENDS Users, SequenceTheorems, FiniteSetTheorems, WellFoundedInduction, TLAPS

\* The users' rows: LOGID is unique, and a password is among those the user has had.
UsersInv ==
    /\ \A i, j \in DOMAIN users : users[i].log = users[j].log => i = j
    /\ \A i \in DOMAIN users : users[i].pass \in users[i].had

\* User u exists, goes by this login id, and has had this password.
IsUser(u, log, pass) ==
    u \in DOMAIN users /\ users[u].log = log /\ pass \in users[u].had

\* What a request has found out is still so, since login ids never change.
VisitOK(t) ==
    /\ req[t].pc = "created" =>
        \E u \in DOMAIN users : IsUser(u, req[t].log, req[t].pass)
    /\ req[t].pc \in {"account", "next", "enter"} =>
        IsUser(req[t].user, req[t].log, req[t].pass)

\* The account a settings request writes is of the user it runs for, before and after.
SettingsOK(t) ==
    /\ req[t].pc = "save" =>
        /\ req[t].id \in DOMAIN accountRows
        /\ accountRows[req[t].id].user = req[t].user
        /\ req[t].row.user = req[t].user
    /\ req[t].pc \in {"save", "password", "update", "verify", "add", "clear"} =>
        req[t].user \in DOMAIN users
    /\ req[t].pc \in {"password", "update"} => req[t].change \in Passwords
    /\ req[t].pc = "update" => req[t].pass \in users[req[t].user].had

\* The dialog shows an account that exists; its row may have changed, its user not.
FormOK(b) == form[b] # NoForm =>
    form[b].id \in DOMAIN accountRows /\ accountRows[form[b].id].user = form[b].row.user

UInv ==
    /\ UsersTypeOK /\ SessionIsOwn /\ UsersInv
    /\ \A t \in UserThreads : VisitOK(t) /\ SettingsOK(t)
    /\ \A b \in Browsers : FormOK(b)

----
\* The statements.

\* The row of a login id is the one row that has it.
LEMMA LogIdIsFound ==
    ASSUME UsersTypeOK, UsersInv, NEW log, \E i \in DOMAIN users : users[i].log = log
    PROVE  FindUserByLogId(log) \in DOMAIN users /\ users[FindUserByLogId(log)].log = log
<1>1. PICK i \in DOMAIN users : users[i].log = log
  OBVIOUS
<1>2. DOMAIN users \subseteq Nat
  BY LenProperties DEF UsersTypeOK
<1>3. \A j \in DOMAIN users : users[j].log = log => i <= j
  BY <1>1, <1>2 DEF UsersInv
<1> QED
  BY <1>1, <1>3 DEF FindUserByLogId

\* A login id with a password that fits leads to its user.
LEMMA VerifiedIsUser ==
    ASSUME UsersTypeOK, UsersInv, NEW log, NEW pass,
           VerifyUser(FindUserByLogId(log), pass)
    PROVE  IsUser(FindUserByLogId(log), log, pass)
<1>1. \E i \in DOMAIN users : users[i].log = log
  BY DEF VerifyUser, FindUserByLogId
<1> QED
  BY <1>1, LogIdIsFound DEF VerifyUser, IsUser, UsersInv

\* No statement takes a user away, or a login id, or the memory of a password.
UsersKept ==
    /\ DOMAIN users \subseteq DOMAIN users'
    /\ \A i \in DOMAIN users : users'[i].log = users[i].log /\ users[i].had \subseteq users'[i].had

\* Nor an account, or its user.
AccountsKept ==
    /\ DOMAIN accountRows \subseteq DOMAIN accountRows'
    /\ \A i \in DOMAIN accountRows : accountRows'[i].user = accountRows[i].user

\* The requests, sessions and dialogs that a step leaves alone.
LEMMA KeptRequest ==
    ASSUME NEW t \in UserThreads, VisitOK(t), SettingsOK(t), UsersKept, AccountsKept,
           req'[t] = req[t]
    PROVE  VisitOK(t)' /\ SettingsOK(t)'
<1>1. \A u, log, pass : IsUser(u, log, pass) => IsUser(u, log, pass)'
  BY DEF IsUser, UsersKept
<1>2. VisitOK(t)'
  BY <1>1 DEF VisitOK, UsersKept, IsUser
<1>3. SettingsOK(t)'
  BY DEF SettingsOK, UsersKept, AccountsKept
<1> QED
  BY <1>2, <1>3

LEMMA KeptForm ==
    ASSUME NEW b \in Browsers, FormOK(b), AccountsKept, form'[b] = form[b]
    PROVE  FormOK(b)'
BY DEF FormOK, AccountsKept

LEMMA KeptSessions ==
    ASSUME SessionIsOwn, UsersKept, UNCHANGED session
    PROVE  SessionIsOwn'
BY DEF SessionIsOwn, UsersKept

\* A request that is over owes nothing.
LEMMA IdleIsOK ==
    ASSUME NEW t \in UserThreads, req'[t] = NoRequest
    PROVE  VisitOK(t)' /\ SettingsOK(t)'
BY DEF VisitOK, SettingsOK, NoRequest

----
\* What kind of request a thread runs.
LEMMA KindsOfRequests ==
    /\ \A r \in Visit : r.pc \in
            {"find", "account", "insert", "created", "next", "check", "enter"}
    /\ \A r \in Finish : r.pc \in {"verify", "add", "clear"}
    /\ \A r \in Settings : r.pc \in {"save", "password", "update"}
    /\ NoRequest.pc = "idle"
<1>1. \A r \in Visit : r.pc \in
            {"find", "account", "insert", "created", "next", "check", "enter"}
  BY DEF Visit
<1>2. \A r \in Finish : r.pc \in {"verify", "add", "clear"}
  BY DEF Finish
<1>3. \A r \in Settings : r.pc \in {"save", "password", "update"}
  BY DEF Settings
<1> QED
  BY <1>1, <1>2, <1>3 DEF NoRequest

LEMMA RequestIsOneOf ==
    ASSUME UsersTypeOK, NEW t \in UserThreads
    PROVE  req[t] \in Visit \/ req[t] \in Finish \/ req[t] \in Settings \/ req[t] = NoRequest
BY DEF UsersTypeOK

LEMMA VisitIsVisit ==
    ASSUME UsersTypeOK, NEW t \in UserThreads,
           req[t].pc \in {"find", "account", "insert", "created", "next", "check", "enter"}
    PROVE  req[t] \in Visit
BY RequestIsOneOf, KindsOfRequests

LEMMA FinishIsFinish ==
    ASSUME UsersTypeOK, NEW t \in UserThreads, req[t].pc \in {"verify", "add", "clear"}
    PROVE  req[t] \in Finish
BY RequestIsOneOf, KindsOfRequests

LEMMA SettingsIsSettings ==
    ASSUME UsersTypeOK, NEW t \in UserThreads, req[t].pc \in {"save", "password", "update"}
    PROVE  req[t] \in Settings
BY RequestIsOneOf, KindsOfRequests

\* A step that only takes the request of one thread further.
LEMMA RequestGoesOn ==
    ASSUME UInv, NEW t \in UserThreads,
           UNCHANGED <<users, accountRows, session, form>>,
           NEW r \in Visit \cup Finish \cup Settings \cup {NoRequest},
           req' = [req EXCEPT ![t] = r],
           VisitOK(t)', SettingsOK(t)'
    PROVE  UInv'
<1>1. UsersTypeOK' /\ SessionIsOwn' /\ UsersInv'
  BY DEF UInv, UsersTypeOK, SessionIsOwn, UsersInv
<1>2. UsersKept /\ AccountsKept
  BY DEF UsersKept, AccountsKept
<1>3. \A u \in UserThreads : VisitOK(u)' /\ SettingsOK(u)'
  <2>1. \A u \in UserThreads \ {t} : req'[u] = req[u]
    BY DEF UInv, UsersTypeOK
  <2> QED
    BY <1>2, <2>1, KeptRequest DEF UInv
<1>4. \A b \in Browsers : FormOK(b)'
  BY <1>2, KeptForm DEF UInv
<1> QED
  BY <1>1, <1>3, <1>4 DEF UInv

\* A request that is answered without another statement.
LEMMA AnswerStep ==
    ASSUME UInv, NEW t \in UserThreads, Answer(t),
           UNCHANGED <<users, accountRows, session, form>>
    PROVE  UInv'
<1>1. req' = [req EXCEPT ![t] = NoRequest] /\ req'[t] = NoRequest
  BY DEF Answer, UInv, UsersTypeOK
<1> QED
  BY <1>1, IdleIsOK, RequestGoesOn

\* The least of a set of rows depends on the set only through what is least in it.
LEMMA SameFirst ==
    ASSUME NEW S, NEW T,
           \A k : (k \in S /\ \A j \in S : k <= j) <=> (k \in T /\ \A j \in T : k <= j)
    PROVE  (CHOOSE i \in S : \A j \in S : i <= j) = (CHOOSE i \in T : \A j \in T : i <= j)
OBVIOUS

\* findSingleByUserId finds a row when there is one.
LEMMA FirstIsFound ==
    ASSUME UsersTypeOK, NEW u, AccountsOf(u) # {}
    PROVE  /\ FindSingleByUserId(u) \in AccountsOf(u)
           /\ FindSingleByUserId(u) \in Nat \ {0}
<1> DEFINE R == OpToRel(<, Nat)
           S == AccountsOf(u)
<1>1. S \subseteq DOMAIN accountRows /\ DOMAIN accountRows \subseteq Nat \ {0}
  BY LenProperties DEF AccountsOf, UsersTypeOK
<1>2. S \subseteq Nat
  BY <1>1
<1>3. IsWellFoundedOn(R, Nat)
  BY NatLessThanWellFounded
<1>4. \A x, y \in Nat : <<x, y>> \in R <=> x < y
  BY DEF OpToRel
<1> HIDE DEF R, S
<1>5. S # {}
  BY DEF S
<1>6. PICK x \in S : \A y \in S : ~(<<y, x>> \in R)
  BY <1>2, <1>3, <1>5, WFMin
<1>7. ASSUME NEW y \in S PROVE x <= y
  <2>1. x \in Nat /\ y \in Nat
    BY <1>2
  <2>2. ~(y < x)
    BY <1>4, <1>6, <2>1
  <2> QED
    BY <2>1, <2>2
<1>8. \A y \in AccountsOf(u) : x <= y
  BY <1>7 DEF S
<1>9. x \in AccountsOf(u)
  BY DEF S
<1>10. FindSingleByUserId(u) \in AccountsOf(u)
  BY <1>8, <1>9 DEF FindSingleByUserId
<1> QED
  BY <1>1, <1>10 DEF S

----
\* One lemma per action.  The first form.

LEMMA RegisterStep ==
    ASSUME UInv, NEW t \in UserThreads, NEW b \in Browsers, NEW log \in LoginIds,
           NEW pass \in Passwords, Register(t, b, log, pass) \/ Login(t, b, log, pass)
    PROVE  UInv'
<1>1. PICK label \in {"find", "check"} :
        req' = [req EXCEPT ![t] =
                    [pc |-> label, by |-> b, log |-> log, pass |-> pass, user |-> 0]]
  BY DEF Register, Login
<1> DEFINE r == [pc |-> label, by |-> b, log |-> log, pass |-> pass, user |-> 0]
<1>2. r \in Visit
  BY DEF Visit
<1>3. VisitOK(t)' /\ SettingsOK(t)'
  BY <1>1 DEF VisitOK, SettingsOK, UInv, UsersTypeOK
<1> QED
  BY <1>1, <1>2, <1>3, RequestGoesOn DEF Register, Login

\* A visit goes on with the user that has been found.
LEMMA VisitGoesOn ==
    ASSUME UInv, NEW t \in UserThreads, req[t] \in Visit,
           UNCHANGED <<users, accountRows, session, form>>,
           NEW label \in {"account", "next", "enter"}, NEW u \in Nat,
           req' = [req EXCEPT ![t] = [req[t] EXCEPT !.pc = label, !.user = u]],
           IsUser(u, req[t].log, req[t].pass)
    PROVE  UInv'
<1> DEFINE r == [req[t] EXCEPT !.pc = label, !.user = u]
<1>1. /\ r \in Visit /\ r.pc = label /\ r.user = u
      /\ r.log = req[t].log /\ r.pass = req[t].pass
  BY DEF Visit
<1>2. req'[t] = r
  BY DEF UInv, UsersTypeOK
<1>3. VisitOK(t)' /\ SettingsOK(t)'
  BY <1>1, <1>2 DEF VisitOK, SettingsOK, IsUser
<1> QED
  BY <1>1, <1>3, RequestGoesOn

LEMMA FindUserStep ==
    ASSUME UInv, NEW t \in UserThreads, FindUser(t)
    PROVE  UInv'
<1> USE DEF UInv
<1>1. req[t] \in Visit /\ req[t].pc = "find"
  BY VisitIsVisit DEF FindUser, At
<1>2. CASE Goto(t, "insert")
  <2> DEFINE r == [req[t] EXCEPT !.pc = "insert"]
  <2>1. r \in Visit /\ r.pc = "insert"
    BY <1>1 DEF Visit
  <2>2. req' = [req EXCEPT ![t] = r] /\ req'[t] = r
    BY <1>2 DEF Goto, UsersTypeOK
  <2>3. VisitOK(t)' /\ SettingsOK(t)'
    BY <2>1, <2>2 DEF VisitOK, SettingsOK
  <2> QED
    BY <2>1, <2>2, <2>3, RequestGoesOn DEF FindUser
<1>3. CASE Answer(t)
  BY <1>3, AnswerStep DEF FindUser
<1>4. CASE /\ VerifyUser(FindUserByLogId(req[t].log), req[t].pass)
           /\ req' = [req EXCEPT ![t].pc = "account",
                                 ![t].user = FindUserByLogId(req[t].log)]
  <2>1. IsUser(FindUserByLogId(req[t].log), req[t].log, req[t].pass)
    BY <1>4, VerifiedIsUser
  <2>2. FindUserByLogId(req[t].log) \in Nat
    BY <2>1, LenProperties DEF IsUser, UsersTypeOK
  <2>3. req' = [req EXCEPT ![t] = [req[t] EXCEPT !.pc = "account",
                                        !.user = FindUserByLogId(req[t].log)]]
    BY <1>4 DEF UsersTypeOK
  <2> QED
    BY <1>1, <2>1, <2>2, <2>3, VisitGoesOn DEF FindUser
<1> QED
  BY <1>2, <1>3, <1>4 DEF FindUser

LEMMA LookForAccountStep ==
    ASSUME UInv, NEW t \in UserThreads, LookForAccount(t)
    PROVE  UInv'
<1> USE DEF UInv
<1>1. req[t] \in Visit /\ IsUser(req[t].user, req[t].log, req[t].pass)
  BY VisitIsVisit DEF LookForAccount, At, VisitOK
<1>2. CASE Goto(t, "next")
  <2>1. req[t].user \in Nat
    BY <1>1 DEF Visit
  <2>2. [req[t] EXCEPT !.pc = "next"] = [req[t] EXCEPT !.pc = "next", !.user = req[t].user]
    BY <1>1 DEF Visit
  <2>3. req' = [req EXCEPT ![t] = [req[t] EXCEPT !.pc = "next", !.user = req[t].user]]
    BY <1>2, <2>2 DEF Goto, UsersTypeOK
  <2> QED
    BY <1>1, <2>1, <2>3, VisitGoesOn DEF LookForAccount
<1> QED
  BY <1>2, AnswerStep DEF LookForAccount

LEMMA AddUserStep ==
    ASSUME UInv, NEW t \in UserThreads, AddUser(t)
    PROVE  UInv'
<1> USE DEF UInv, UsersTypeOK
<1> DEFINE new == Len(users) + 1
           row == [log |-> req[t].log, pass |-> req[t].pass, had |-> {req[t].pass},
                   started |-> 0, together |-> FALSE]
           r == [req[t] EXCEPT !.pc = "created"]
<1>1. req[t] \in Visit /\ \A i \in DOMAIN users : users[i].log # req[t].log
  BY VisitIsVisit DEF AddUser, At, LogIdFree
<1>2. row \in User
  BY <1>1 DEF User, Visit
<1>3. /\ users' \in Seq(User) /\ DOMAIN users' = DOMAIN users \cup {new}
      /\ new \notin DOMAIN users /\ users'[new] = row
      /\ \A i \in DOMAIN users : users'[i] = users[i]
  BY <1>2, AppendProperties, LenProperties DEF AddUser, InsertUser
<1>4. /\ r \in Visit /\ r.pc = "created" /\ r.log = req[t].log /\ r.pass = req[t].pass
  BY <1>1 DEF Visit
<1>5. req' = [req EXCEPT ![t] = r] /\ req'[t] = r
  BY DEF AddUser, Goto
<1>6. UNCHANGED <<accountRows, session, form>>
  BY DEF AddUser
<1>7. UsersKept /\ AccountsKept
  BY <1>3, <1>6 DEF UsersKept, AccountsKept
<1>8. UsersTypeOK'
  BY <1>3, <1>4, <1>5, <1>6
<1>9. UsersInv'
  BY <1>1, <1>3 DEF UsersInv
<1>10. SessionIsOwn'
  BY <1>6, <1>7, KeptSessions
<1>11. VisitOK(t)' /\ SettingsOK(t)'
  <2>1. \E u \in DOMAIN users' :
            users'[u].log = req'[t].log /\ req'[t].pass \in users'[u].had
    BY <1>3, <1>4, <1>5
  <2> QED
    BY <1>4, <1>5, <2>1 DEF VisitOK, SettingsOK, IsUser
<1>12. \A u \in UserThreads \ {t} : VisitOK(u)' /\ SettingsOK(u)'
  BY <1>5, <1>7, KeptRequest
<1>13. \A b \in Browsers : FormOK(b)'
  BY <1>6, <1>7, KeptForm
<1> QED
  BY <1>8, <1>9, <1>10, <1>11, <1>12, <1>13

LEMMA LookUpAddedUserStep ==
    ASSUME UInv, NEW t \in UserThreads, LookUpAddedUser(t)
    PROVE  UInv'
<1> USE DEF UInv
<1> DEFINE u == FindUserByLogId(req[t].log)
<1>1. req[t] \in Visit /\ \E i \in DOMAIN users : IsUser(i, req[t].log, req[t].pass)
  BY VisitIsVisit DEF LookUpAddedUser, At, VisitOK
<1>2. IsUser(u, req[t].log, req[t].pass)
  BY <1>1, LogIdIsFound DEF IsUser, UsersInv
<1>3. u \in Nat
  BY <1>2, LenProperties DEF IsUser, UsersTypeOK
<1>4. req' = [req EXCEPT ![t] = [req[t] EXCEPT !.pc = "next", !.user = u]]
  BY DEF LookUpAddedUser, UsersTypeOK
<1> HIDE DEF u
<1> QED
  BY <1>1, <1>2, <1>3, <1>4, VisitGoesOn DEF LookUpAddedUser

\* A step that writes fields of one user's row, and leaves the accounts alone.
LEMMA UserRowWritten ==
    ASSUME UInv, NEW u \in DOMAIN users, NEW row \in User,
           users' = [users EXCEPT ![u] = row],
           row.log = users[u].log, users[u].had \subseteq row.had, row.pass \in row.had,
           UNCHANGED accountRows
    PROVE  users' \in Seq(User) /\ UsersInv' /\ UsersKept /\ AccountsKept
<1> USE DEF UInv, UsersTypeOK
<1>1. u \in 1..Len(users)
  BY LenProperties
<1>2. /\ users' \in Seq(User) /\ DOMAIN users' = DOMAIN users /\ users'[u] = row
      /\ \A i \in DOMAIN users \ {u} : users'[i] = users[i]
  BY <1>1, ExceptSeq, LenProperties
<1> QED
  BY <1>2 DEF UsersInv, UsersKept, AccountsKept

LEMMA JumpStep ==
    ASSUME UInv, NEW t \in UserThreads, JumpToNextStep(t)
    PROVE  UInv'
<1> USE DEF UInv, UsersTypeOK
<1> DEFINE u == req[t].user
           b == req[t].by
           row == [users[u] EXCEPT !.started = @ + 1]
<1>1. req[t] \in Visit /\ IsUser(u, req[t].log, req[t].pass)
  BY VisitIsVisit DEF JumpToNextStep, At, VisitOK
<1>2. u \in DOMAIN users /\ users[u] \in User
  BY <1>1, ElementOfSeq, LenProperties DEF IsUser
<1>3. /\ row \in User /\ row.log = users[u].log /\ row.had = users[u].had
      /\ row.pass = users[u].pass
  <2>1. users[u].started + 1 \in Nat
    BY <1>2 DEF User
  <2>2. /\ row.log = users[u].log /\ row.had = users[u].had /\ row.pass = users[u].pass
        /\ row.started = users[u].started + 1 /\ row.together = users[u].together
    BY <1>2 DEF User
  <2>3. row = [log |-> row.log, pass |-> row.pass, had |-> row.had,
               started |-> row.started, together |-> row.together]
    BY <1>2 DEF User
  <2> HIDE DEF row
  <2>4. row \in User
    BY <1>2, <2>1, <2>2, <2>3 DEF User
  <2> QED
    BY <2>2, <2>4
<1>4. /\ users' = [users EXCEPT ![u] = row]
      /\ session' = [session EXCEPT ![b] = [session[b] EXCEPT !.registering = VisitorOf(t)]]
      /\ UNCHANGED <<accountRows, form>> /\ Answer(t)
  <2>1. b \in Browsers
    BY <1>1 DEF Visit
  <2> QED
    BY <1>2, <2>1 DEF JumpToNextStep
<1>5. users' \in Seq(User) /\ UsersInv' /\ UsersKept /\ AccountsKept
  <2>1. row.pass \in row.had
    BY <1>2, <1>3 DEF UsersInv
  <2> HIDE DEF row
  <2> QED
    BY <1>2, <1>3, <1>4, <2>1, UserRowWritten
<1> HIDE DEF row
<1>6. VisitorOf(t) \in Visitor /\ b \in Browsers /\ session[b] \in Session
  BY <1>1, <1>2, LenProperties DEF Visit, VisitorOf, Visitor
<1>7. session' \in [Browsers -> Session]
  BY <1>4, <1>6 DEF Session
<1>8. SessionIsOwn'
  <2>1. SUFFICES ASSUME NEW c \in Browsers,
                        NEW v \in {session'[c].login, session'[c].registering} \ {Nobody}
                 PROVE  /\ v.user \in DOMAIN users' /\ users'[v.user].log = v.log
                        /\ v.pass \in users'[v.user].had
    BY DEF SessionIsOwn, Nobody
  <2>2. CASE v = VisitorOf(t)
    BY <1>1, <1>5, <2>2 DEF VisitorOf, IsUser, UsersKept
  <2>3. CASE v # VisitorOf(t)
    <3>1. v \in {session[c].login, session[c].registering} \ {Nobody}
      BY <1>4, <1>6, <2>1, <2>3 DEF Session
    <3> QED
      BY <1>5, <3>1 DEF SessionIsOwn, UsersKept
  <2> QED
    BY <2>2, <2>3
<1>9. /\ req' \in [UserThreads -> Visit \cup Finish \cup Settings \cup {NoRequest}]
      /\ req'[t] = NoRequest /\ \A v \in UserThreads \ {t} : req'[v] = req[v]
  BY <1>4 DEF Answer
<1>10. \A v \in UserThreads : VisitOK(v)' /\ SettingsOK(v)'
  BY <1>5, <1>9, IdleIsOK, KeptRequest
<1>11. \A c \in Browsers : FormOK(c)'
  BY <1>4, <1>5, KeptForm
<1> QED
  BY <1>4, <1>5, <1>7, <1>8, <1>9, <1>10, <1>11

----
\* The second form.

LEMMA RegisterNextStep ==
    ASSUME UInv, NEW t \in UserThreads, NEW b \in Browsers, NEW mailbox \in Mailboxes,
           RegisterNext(t, b, mailbox)
    PROVE  UInv'
<1> USE DEF UInv, UsersTypeOK
<1> DEFINE u == session[b].registering.user
           twice == users[u].together \/ FormUnderWay(b)
           row == [users[u] EXCEPT !.together = twice]
           r == [pc |-> "verify", by |-> b, user |-> u, mailbox |-> mailbox]
<1>1. u \in DOMAIN users /\ users[u] \in User
  <2>1. u \in DOMAIN users
    BY DEF RegisterNext, SessionIsOwn
  <2> QED
    BY <2>1, ElementOfSeq, LenProperties
<1>2. twice \in BOOLEAN
  OBVIOUS
<1>3. /\ row \in User /\ row.log = users[u].log /\ row.had = users[u].had
      /\ row.pass = users[u].pass
  <2> HIDE DEF twice
  <2>1. /\ row.log = users[u].log /\ row.had = users[u].had /\ row.pass = users[u].pass
        /\ row.started = users[u].started /\ row.together = twice
    BY <1>1 DEF User
  <2>2. row = [log |-> row.log, pass |-> row.pass, had |-> row.had,
               started |-> row.started, together |-> row.together]
    BY <1>1 DEF User
  <2> HIDE DEF row
  <2>3. row \in User
    BY <1>1, <1>2, <2>1, <2>2 DEF User
  <2> QED
    BY <2>1, <2>3
<1>4. /\ users' = [users EXCEPT ![u] = row] /\ req' = [req EXCEPT ![t] = r]
      /\ UNCHANGED <<accountRows, session, form>>
  BY <1>1 DEF RegisterNext
<1>5. users' \in Seq(User) /\ UsersInv' /\ UsersKept /\ AccountsKept
  <2>1. row.pass \in row.had
    BY <1>1, <1>3 DEF UsersInv
  <2> HIDE DEF row
  <2> QED
    BY <1>1, <1>3, <1>4, <2>1, UserRowWritten
<1> HIDE DEF row
<1>6. r \in Finish
  BY <1>1, LenProperties DEF Finish
<1>7. /\ req' \in [UserThreads -> Visit \cup Finish \cup Settings \cup {NoRequest}]
      /\ req'[t] = r /\ \A v \in UserThreads \ {t} : req'[v] = req[v]
  BY <1>4, <1>6
<1>8. VisitOK(t)' /\ SettingsOK(t)'
  BY <1>1, <1>5, <1>7 DEF VisitOK, SettingsOK, UsersKept
<1>9. \A v \in UserThreads : VisitOK(v)' /\ SettingsOK(v)'
  BY <1>5, <1>7, <1>8, KeptRequest
<1>10. SessionIsOwn' /\ \A c \in Browsers : FormOK(c)'
  BY <1>4, <1>5, KeptForm, KeptSessions
<1> QED
  BY <1>4, <1>5, <1>7, <1>9, <1>10

LEMMA VerifyAccountStep ==
    ASSUME UInv, NEW t \in UserThreads, VerifyAccount(t)
    PROVE  UInv'
<1> USE DEF UInv
<1> DEFINE r == [req[t] EXCEPT !.pc = "add"]
<1>1. CASE Goto(t, "add")
  <2>1. req[t] \in Finish /\ req[t].pc = "verify" /\ req[t].user \in DOMAIN users
    BY FinishIsFinish DEF VerifyAccount, At, SettingsOK
  <2>2. r \in Finish /\ r.pc = "add" /\ r.user = req[t].user
    BY <2>1 DEF Finish
  <2>3. req' = [req EXCEPT ![t] = r] /\ req'[t] = r
    BY <1>1 DEF Goto, UsersTypeOK
  <2>4. VisitOK(t)' /\ SettingsOK(t)'
    BY <2>1, <2>2, <2>3 DEF VerifyAccount, VisitOK, SettingsOK
  <2> QED
    BY <2>2, <2>3, <2>4, RequestGoesOn DEF VerifyAccount
<1> QED
  BY <1>1, AnswerStep DEF VerifyAccount

LEMMA AddAccountStep ==
    ASSUME UInv, NEW t \in UserThreads, AddAccount(t)
    PROVE  UInv'
<1> USE DEF UInv, UsersTypeOK
<1> DEFINE row == [user |-> req[t].user, mailbox |-> req[t].mailbox, wraps |-> 1]
           r == [req[t] EXCEPT !.pc = "clear"]
           new == Len(accountRows) + 1
<1>1. req[t] \in Finish /\ req[t].user \in DOMAIN users
  BY FinishIsFinish DEF AddAccount, At, SettingsOK
<1>2. row \in AccountRow /\ r \in Finish /\ r.pc = "clear" /\ r.user = req[t].user
  <2>1. row \in AccountRow
    BY <1>1 DEF Finish, AccountRow
  <2>2. r \in Finish /\ r.pc = "clear" /\ r.user = req[t].user
    BY <1>1 DEF Finish
  <2> QED
    BY <2>1, <2>2
<1>3. /\ accountRows' \in Seq(AccountRow) /\ DOMAIN accountRows' = DOMAIN accountRows \cup {new}
      /\ \A i \in DOMAIN accountRows : accountRows'[i] = accountRows[i]
  BY <1>2, AppendProperties, LenProperties DEF AddAccount, InsertAccount
<1>4. req' = [req EXCEPT ![t] = r] /\ UNCHANGED <<users, session, form>>
  BY DEF AddAccount, Goto
<1>5. UsersKept /\ AccountsKept
  BY <1>3, <1>4 DEF UsersKept, AccountsKept
<1>6. /\ req' \in [UserThreads -> Visit \cup Finish \cup Settings \cup {NoRequest}]
      /\ req'[t] = r /\ \A v \in UserThreads \ {t} : req'[v] = req[v]
  BY <1>2, <1>4
<1>7. VisitOK(t)' /\ SettingsOK(t)'
  BY <1>1, <1>2, <1>4, <1>6 DEF VisitOK, SettingsOK
<1>8. \A v \in UserThreads : VisitOK(v)' /\ SettingsOK(v)'
  BY <1>5, <1>6, <1>7, KeptRequest
<1>9. SessionIsOwn' /\ UsersInv' /\ \A c \in Browsers : FormOK(c)'
  BY <1>4, <1>5, KeptForm, KeptSessions DEF UsersInv
<1> QED
  BY <1>3, <1>4, <1>6, <1>8, <1>9

\* Sessions change, users and accounts do not.
LEMMA SessionsChange ==
    ASSUME UInv, UNCHANGED <<users, accountRows, form>>, SessionIsOwn',
           session' \in [Browsers -> Session],
           req' \in [UserThreads -> Visit \cup Finish \cup Settings \cup {NoRequest}],
           \A t \in UserThreads : req'[t] = req[t] \/ req'[t] = NoRequest
    PROVE  UInv'
<1>1. UsersKept /\ AccountsKept
  BY DEF UsersKept, AccountsKept
<1>2. \A t \in UserThreads : VisitOK(t)' /\ SettingsOK(t)'
  BY <1>1, KeptRequest, IdleIsOK DEF UInv
<1>3. UsersInv' /\ \A c \in Browsers : FormOK(c)'
  BY <1>1, KeptForm DEF UsersInv, UInv
<1> QED
  BY <1>2, <1>3 DEF UInv, UsersTypeOK

LEMMA ClearStep ==
    ASSUME UInv, NEW t \in UserThreads, ClearRegistering(t)
    PROVE  UInv'
<1> USE DEF UInv, UsersTypeOK
<1>1. req[t].by \in Browsers
  BY FinishIsFinish DEF ClearRegistering, At, Finish
<1>2. session' = [session EXCEPT ![req[t].by] = [session[req[t].by] EXCEPT !.registering = Nobody]]
  BY <1>1 DEF ClearRegistering
<1>3. session' \in [Browsers -> Session] /\ SessionIsOwn'
  BY <1>1, <1>2 DEF Session, SessionIsOwn, ClearRegistering
<1>4. /\ req' \in [UserThreads -> Visit \cup Finish \cup Settings \cup {NoRequest}]
      /\ \A v \in UserThreads : req'[v] = req[v] \/ req'[v] = NoRequest
  BY DEF ClearRegistering, Answer
<1> QED
  BY <1>3, <1>4, SessionsChange DEF ClearRegistering

----
\* Login, logout, and the end of a session.

LEMMA CheckLoginStep ==
    ASSUME UInv, NEW t \in UserThreads, CheckLogin(t)
    PROVE  UInv'
<1> USE DEF UInv
<1> DEFINE u == FindUserByLogId(req[t].log)
<1>1. req[t] \in Visit
  BY VisitIsVisit DEF CheckLogin, At
<1>2. CASE VerifyUser(u, req[t].pass)
  <2>1. IsUser(u, req[t].log, req[t].pass)
    BY <1>2, VerifiedIsUser
  <2>2. u \in Nat
    BY <2>1, LenProperties DEF IsUser, UsersTypeOK
  <2>3. req' = [req EXCEPT ![t] = [req[t] EXCEPT !.pc = "enter", !.user = u]]
    BY <1>2 DEF CheckLogin, UsersTypeOK
  <2> HIDE DEF u
  <2> QED
    BY <1>1, <2>1, <2>2, <2>3, VisitGoesOn DEF CheckLogin
<1>3. CASE ~VerifyUser(u, req[t].pass)
  BY <1>3, AnswerStep DEF CheckLogin
<1> QED
  BY <1>2, <1>3

LEMMA EnterStep ==
    ASSUME UInv, NEW t \in UserThreads, EnterSession(t)
    PROVE  UInv'
<1> USE DEF UInv, UsersTypeOK
<1> DEFINE b == req[t].by
<1>1. req[t] \in Visit /\ IsUser(req[t].user, req[t].log, req[t].pass)
  BY VisitIsVisit DEF EnterSession, At, VisitOK
<1>2. VisitorOf(t) \in Visitor /\ b \in Browsers
  BY <1>1, LenProperties DEF Visit, VisitorOf, Visitor, IsUser
<1>3. session' = [session EXCEPT ![b] = [session[b] EXCEPT !.login = VisitorOf(t)]]
  BY <1>2 DEF EnterSession
<1>4. session' \in [Browsers -> Session]
  BY <1>2, <1>3 DEF Session
<1>5. SessionIsOwn'
  <2>1. SUFFICES ASSUME NEW c \in Browsers,
                        NEW v \in {session'[c].login, session'[c].registering} \ {Nobody}
                 PROVE  /\ v.user \in DOMAIN users /\ users[v.user].log = v.log
                        /\ v.pass \in users[v.user].had
    BY DEF SessionIsOwn, Nobody, EnterSession
  <2>2. CASE v = VisitorOf(t)
    BY <1>1, <2>2 DEF VisitorOf, IsUser
  <2>3. CASE v # VisitorOf(t)
    <3>1. v \in {session[c].login, session[c].registering} \ {Nobody}
      BY <1>2, <1>3, <2>1, <2>3 DEF Session
    <3> QED
      BY <3>1 DEF SessionIsOwn
  <2> QED
    BY <2>2, <2>3
<1>6. /\ req' \in [UserThreads -> Visit \cup Finish \cup Settings \cup {NoRequest}]
      /\ \A v \in UserThreads : req'[v] = req[v] \/ req'[v] = NoRequest
  BY DEF EnterSession, Answer
<1> QED
  BY <1>4, <1>5, <1>6, SessionsChange DEF EnterSession

LEMMA SessionEndsStep ==
    ASSUME UInv, Restart \/ \E b \in Browsers : SessionEnds(b)
    PROVE  UInv'
<1> USE DEF UInv, UsersTypeOK
<1>1. NewSession \in Session /\ NewSession.login = Nobody /\ NewSession.registering = Nobody
  BY DEF NewSession, Session
<1>2. /\ session' \in [Browsers -> Session]
      /\ \A b \in Browsers : session'[b] = session[b] \/ session'[b] = NewSession
      /\ UNCHANGED <<users, accountRows, form>>
  BY <1>1 DEF Restart, SessionEnds
<1>3. SessionIsOwn'
  BY <1>1, <1>2 DEF SessionIsOwn
<1>4. /\ req' \in [UserThreads -> Visit \cup Finish \cup Settings \cup {NoRequest}]
      /\ \A v \in UserThreads : req'[v] = req[v] \/ req'[v] = NoRequest
  BY DEF Restart, SessionEnds
<1> QED
  BY <1>2, <1>3, <1>4, SessionsChange

----
\* The settings.

LEMMA OpenStep ==
    ASSUME UInv, NEW b \in Browsers, OpenSettings(b)
    PROVE  UInv'
<1> USE DEF UInv, UsersTypeOK
<1> DEFINE id == FindSingleByUserId(session[b].login.user)
<1>1. /\ UNCHANGED <<users, accountRows, session, req>>
      /\ \A c \in Browsers \ {b} : form'[c] = form[c]
  BY DEF OpenSettings
<1>2. UsersKept /\ AccountsKept
  BY <1>1 DEF UsersKept, AccountsKept
<1>3. /\ UsersInv' /\ SessionIsOwn' /\ \A c \in Browsers \ {b} : FormOK(c)'
      /\ \A t \in UserThreads : VisitOK(t)' /\ SettingsOK(t)'
  BY <1>1, <1>2, KeptRequest, KeptForm DEF UsersInv, SessionIsOwn
<1>4. CASE form' = [form EXCEPT ![b] = NoForm]
  BY <1>1, <1>3, <1>4 DEF FormOK
<1>5. CASE form \in [Browsers -> Form \cup {NoForm}] /\ id \in DOMAIN accountRows
           /\ form' = [form EXCEPT ![b] = [id |-> id, row |-> accountRows[id]]]
  <2>1. id \in Nat \ {0} /\ accountRows[id] \in AccountRow
    BY <1>5, ElementOfSeq, LenProperties
  <2>2. [id |-> id, row |-> accountRows[id]] \in Form
    BY <2>1 DEF Form
  <2> QED
    BY <1>1, <1>3, <1>5, <2>1, <2>2 DEF FormOK
<1>6. id = 0 \/ id \in DOMAIN accountRows
  <2>1. AccountsOf(session[b].login.user) \subseteq DOMAIN accountRows
    BY DEF AccountsOf
  <2> QED
    BY <2>1, FirstIsFound DEF FindSingleByUserId
<1> QED
  BY <1>4, <1>5, <1>6 DEF OpenSettings

LEMMA SaveSettingsStep ==
    ASSUME UInv, NEW t \in UserThreads, NEW b \in Browsers, NEW mailbox \in Mailboxes,
           NEW typed \in BOOLEAN, NEW pass \in Passwords,
           NEW change \in Passwords \cup {NoPassword},
           SaveSettings(t, b, mailbox, typed, pass, change)
    PROVE  UInv'
<1> USE DEF UInv
<1> DEFINE row == EntityOf(form[b], mailbox, typed)
           r == [pc |-> "save", by |-> b, user |-> session[b].login.user, id |-> form[b].id,
                 row |-> row, pass |-> pass, change |-> change]
<1>1. /\ session[b].login # Nobody /\ form[b] # NoForm
      /\ form[b].row.user = session[b].login.user
      /\ req' = [req EXCEPT ![t] = r] /\ UNCHANGED <<users, accountRows, session, form>>
  BY DEF SaveSettings, SameUser
<1>2. form[b] \in Form /\ form[b].row \in AccountRow
  BY <1>1 DEF UsersTypeOK, Form
<1>3. /\ row \in AccountRow /\ row.user = form[b].row.user
  <2>1. form[b].row.wraps + 1 \in Nat \ {0} /\ 1 \in Nat \ {0}
    BY <1>2 DEF AccountRow
  <2> QED
    BY <1>2, <2>1 DEF EntityOf, AccountRow
<1>4. session[b].login.user \in DOMAIN users /\ session[b].login.user \in Nat \ {0}
  BY <1>1, LenProperties DEF SessionIsOwn, UsersTypeOK
<1> HIDE DEF row
<1>5. r \in Settings
  BY <1>2, <1>3, <1>4 DEF Settings, Form
<1>6. form[b].id \in DOMAIN accountRows /\ accountRows[form[b].id].user = form[b].row.user
  BY <1>1 DEF FormOK
<1>7. req'[t] = r
  BY <1>1 DEF UsersTypeOK
<1>8. VisitOK(t)' /\ SettingsOK(t)'
  BY <1>1, <1>3, <1>4, <1>6, <1>7 DEF VisitOK, SettingsOK
<1> QED
  BY <1>1, <1>5, <1>8, RequestGoesOn

\* The step of a settings request that changes no row.
LEMMA SettingsGoOn ==
    ASSUME UInv, NEW t \in UserThreads, req[t] \in Settings,
           req[t].user \in DOMAIN users, req[t].change \in Passwords,
           NEW label \in {"password", "update"},
           label = "update" => req[t].pass \in users[req[t].user].had,
           UsersKept, AccountsKept,
           req' = [req EXCEPT ![t] = [req[t] EXCEPT !.pc = label]]
    PROVE  /\ VisitOK(t)' /\ SettingsOK(t)'
           /\ req' \in [UserThreads -> Visit \cup Finish \cup Settings \cup {NoRequest}]
           /\ [req[t] EXCEPT !.pc = label] \in Settings
<1> DEFINE r == [req[t] EXCEPT !.pc = label]
<1>1. /\ r \in Settings /\ r.pc = label /\ r.user = req[t].user /\ r.pass = req[t].pass
      /\ r.change = req[t].change
  BY DEF Settings
<1>2. /\ req' \in [UserThreads -> Visit \cup Finish \cup Settings \cup {NoRequest}]
      /\ req'[t] = r
  BY <1>1 DEF UInv, UsersTypeOK
<1> HIDE DEF r
<1>3. VisitOK(t)' /\ SettingsOK(t)'
  BY <1>1, <1>2 DEF VisitOK, SettingsOK, UsersKept
<1> QED
  BY <1>1, <1>2, <1>3 DEF r

\* The rows of the accounts after the save: one is another, of the same user.
LEMMA SavedAccount ==
    ASSUME UInv, NEW t \in UserThreads, SaveAccountRow(t)
    PROVE  /\ req[t] \in Settings /\ req[t].user \in DOMAIN users
           /\ req[t].id \in DOMAIN accountRows
           /\ accountRows' \in Seq(AccountRow) /\ DOMAIN accountRows' = DOMAIN accountRows
           /\ accountRows'[req[t].id] = req[t].row
           /\ \A i \in DOMAIN accountRows \ {req[t].id} : accountRows'[i] = accountRows[i]
           /\ accountRows[req[t].id].user = req[t].user /\ req[t].row.user = req[t].user
<1>1. req[t] \in Settings /\ SettingsOK(t) /\ req[t].pc = "save"
  BY SettingsIsSettings DEF SaveAccountRow, At, UInv
<1>2. /\ req[t].row \in AccountRow /\ req[t].id \in DOMAIN accountRows
      /\ req[t].user \in DOMAIN users
      /\ accountRows[req[t].id].user = req[t].user /\ req[t].row.user = req[t].user
  BY <1>1 DEF Settings, SettingsOK
<1>3. req[t].id \in 1..Len(accountRows)
  BY <1>2, LenProperties DEF UInv, UsersTypeOK
<1>4. accountRows' = [accountRows EXCEPT ![req[t].id] = req[t].row]
  BY DEF SaveAccountRow, UpdateAccount
<1>5. accountRows \in Seq(AccountRow)
  BY DEF UInv, UsersTypeOK
<1> QED
  BY <1>1, <1>2, <1>3, <1>4, <1>5, ExceptSeq, LenProperties

LEMMA SaveAccountStep ==
    ASSUME UInv, NEW t \in UserThreads, SaveAccountRow(t)
    PROVE  UInv'
<1>1. UNCHANGED <<users, session, form>>
  BY DEF SaveAccountRow
<1>2. UsersKept /\ AccountsKept
  BY <1>1, SavedAccount DEF UsersKept, AccountsKept
<1>3. /\ VisitOK(t)' /\ SettingsOK(t)'
      /\ req' \in [UserThreads -> Visit \cup Finish \cup Settings \cup {NoRequest}]
      /\ \A v \in UserThreads \ {t} : req'[v] = req[v]
  <2>1. CASE Answer(t)
    BY <2>1, IdleIsOK DEF Answer, UInv, UsersTypeOK
  <2>2. CASE req[t].change # NoPassword /\ Goto(t, "password")
    <3>0. req[t].change \in Passwords
      BY <2>2, SavedAccount DEF Settings
    <3>1. req' = [req EXCEPT ![t] = [req[t] EXCEPT !.pc = "password"]]
      BY <2>2 DEF Goto, UInv, UsersTypeOK
    <3>2. \A v \in UserThreads \ {t} : req'[v] = req[v]
      BY <3>1 DEF UInv, UsersTypeOK
    <3> QED
      BY <1>2, <3>0, <3>1, <3>2, SavedAccount, SettingsGoOn
  <2> QED
    BY <2>1, <2>2 DEF SaveAccountRow
<1>4. \A v \in UserThreads \ {t} : VisitOK(v)' /\ SettingsOK(v)'
  BY <1>2, <1>3, KeptRequest DEF UInv
<1>5. SessionIsOwn' /\ UsersInv' /\ \A c \in Browsers : FormOK(c)'
  BY <1>1, <1>2, KeptForm, KeptSessions DEF UsersInv, UInv
<1>6. UsersTypeOK'
  BY <1>1, <1>3, SavedAccount DEF UInv, UsersTypeOK
<1> QED
  BY <1>3, <1>4, <1>5, <1>6 DEF UInv

LEMMA CheckPasswordStep ==
    ASSUME UInv, NEW t \in UserThreads, CheckPassword(t)
    PROVE  UInv'
<1>1. /\ req[t] \in Settings /\ req[t].user \in DOMAIN users
      /\ req[t].change \in Passwords
  BY SettingsIsSettings DEF CheckPassword, At, UInv, SettingsOK
<1>2. UsersKept /\ AccountsKept
  BY DEF CheckPassword, UsersKept, AccountsKept
<1>3. CASE VerifyUser(req[t].user, req[t].pass)
  <2>1. req[t].pass \in users[req[t].user].had
    BY <1>1, <1>3 DEF VerifyUser, UInv, UsersInv
  <2>2. req' = [req EXCEPT ![t] = [req[t] EXCEPT !.pc = "update"]]
    BY <1>3 DEF CheckPassword, Goto, UInv, UsersTypeOK
  <2>3. /\ VisitOK(t)' /\ SettingsOK(t)' /\ [req[t] EXCEPT !.pc = "update"] \in Settings
    BY <1>1, <1>2, <2>1, <2>2, SettingsGoOn
  <2> QED
    BY <2>2, <2>3, RequestGoesOn DEF CheckPassword
<1>4. CASE ~VerifyUser(req[t].user, req[t].pass)
  BY <1>4, AnswerStep DEF CheckPassword
<1> QED
  BY <1>3, <1>4

LEMMA PasswordRow ==
    ASSUME NEW old \in User, NEW new, NEW all
    PROVE  [[old EXCEPT !.pass = new] EXCEPT !.had = all] =
           [log |-> old.log, pass |-> new, had |-> all,
            started |-> old.started, together |-> old.together]
<1> DEFINE mid == [log |-> old.log, pass |-> new, had |-> old.had,
                   started |-> old.started, together |-> old.together]
<1>1. [old EXCEPT !.pass = new] = mid
  BY DEF User
<1>2. [mid EXCEPT !.had = all] =
      [log |-> old.log, pass |-> new, had |-> all,
       started |-> old.started, together |-> old.together]
  OBVIOUS
<1> QED
  BY <1>1, <1>2

LEMMA ChangePasswordStep ==
    ASSUME UInv, NEW t \in UserThreads, ChangePassword(t)
    PROVE  UInv'
<1> DEFINE u == req[t].user
           new == req[t].change
           old == users[u]
           all == old.had \cup {new}
           row == [log |-> old.log, pass |-> new, had |-> all,
                   started |-> old.started, together |-> old.together]
<1> USE DEF UInv, UsersTypeOK
<1>1. req[t] \in Settings /\ u \in DOMAIN users /\ req[t].pc = "update"
  BY SettingsIsSettings DEF ChangePassword, At, SettingsOK
<1>2. users[u] \in User /\ new \in Passwords
  BY <1>1, ElementOfSeq, LenProperties DEF SettingsOK
<1>3. /\ row \in User /\ row.log = users[u].log /\ row.had = users[u].had \cup {new}
      /\ row.pass = new
  BY <1>2 DEF User
<1>4. users' = [users EXCEPT ![u] = row] /\ UNCHANGED <<accountRows, session, form>>
  <2>1. /\ users' = [users EXCEPT ![u] =
                [[users[u] EXCEPT !.pass = new] EXCEPT !.had = users[u].had \cup {new}]]
        /\ UNCHANGED <<accountRows, session, form>>
    BY <1>1 DEF ChangePassword, UpdatePass
  <2>2. [[users[u] EXCEPT !.pass = new] EXCEPT !.had = all] = row
    BY <1>2, PasswordRow
  <2> QED
    BY <2>1, <2>2
<1> HIDE DEF row
<1>5. users' \in Seq(User) /\ UsersInv' /\ UsersKept /\ AccountsKept
  BY <1>1, <1>3, <1>4, UserRowWritten
<1>6. /\ req' \in [UserThreads -> Visit \cup Finish \cup Settings \cup {NoRequest}]
      /\ req'[t] = NoRequest /\ \A v \in UserThreads \ {t} : req'[v] = req[v]
  BY DEF ChangePassword, Answer
<1>7. \A v \in UserThreads : VisitOK(v)' /\ SettingsOK(v)'
  BY <1>5, <1>6, IdleIsOK, KeptRequest
<1>8. SessionIsOwn' /\ \A c \in Browsers : FormOK(c)'
  BY <1>4, <1>5, KeptForm, KeptSessions
<1> QED
  BY <1>4, <1>5, <1>6, <1>7, <1>8

LEMMA UserRequestFails ==
    ASSUME UInv, NEW t \in UserThreads, RequestFails(t)
    PROVE  UInv'
BY AnswerStep DEF RequestFails

----
LEMMA UInvInit == UsersInit => UInv
<1> SUFFICES ASSUME UsersInit PROVE UInv
  OBVIOUS
<1>1. DOMAIN << >> = {}
  OBVIOUS
<1>2. NewSession \in Session /\ NewSession.login = Nobody /\ NewSession.registering = Nobody
  BY DEF NewSession, Session
<1>3. UsersTypeOK
  BY <1>2, EmptySeq DEF UsersInit, UsersTypeOK
<1>4. SessionIsOwn /\ UsersInv
  BY <1>1, <1>2 DEF UsersInit, SessionIsOwn, UsersInv
<1>5. \A t \in UserThreads : VisitOK(t) /\ SettingsOK(t)
  BY DEF UsersInit, VisitOK, SettingsOK, NoRequest
<1>6. \A b \in Browsers : FormOK(b)
  BY DEF UsersInit, FormOK
<1> QED
  BY <1>3, <1>4, <1>5, <1>6 DEF UInv

LEMMA UInvStep == UInv /\ [UsersNext]_usersVars => UInv'
<1> SUFFICES ASSUME UInv, [UsersNext]_usersVars PROVE UInv'
  OBVIOUS
<1>1. CASE UNCHANGED usersVars
  <2>1. UsersKept /\ AccountsKept
    BY <1>1 DEF usersVars, UsersKept, AccountsKept
  <2>2. UsersTypeOK' /\ SessionIsOwn' /\ UsersInv'
    BY <1>1 DEF usersVars, UInv, UsersTypeOK, SessionIsOwn, UsersInv
  <2> QED
    BY <1>1, <2>1, <2>2, KeptRequest, KeptForm DEF usersVars, UInv
<1>2. CASE Restart \/ \E b \in Browsers : OpenSettings(b) \/ SessionEnds(b)
  BY <1>2, SessionEndsStep, OpenStep
<1>3. ASSUME NEW t \in UserThreads,
             \/ FindUser(t) \/ LookForAccount(t) \/ AddUser(t) \/ LookUpAddedUser(t)
             \/ JumpToNextStep(t) \/ VerifyAccount(t) \/ AddAccount(t) \/ ClearRegistering(t)
             \/ CheckLogin(t) \/ EnterSession(t)
             \/ SaveAccountRow(t) \/ CheckPassword(t) \/ ChangePassword(t) \/ RequestFails(t)
      PROVE  UInv'
  BY <1>3, FindUserStep, LookForAccountStep, AddUserStep, LookUpAddedUserStep, JumpStep,
     VerifyAccountStep, AddAccountStep, ClearStep, CheckLoginStep, EnterStep,
     SaveAccountStep, CheckPasswordStep, ChangePasswordStep, UserRequestFails
<1>4. ASSUME NEW t \in UserThreads, NEW b \in Browsers, NEW log \in LoginIds,
             NEW pass \in Passwords, Register(t, b, log, pass) \/ Login(t, b, log, pass)
      PROVE  UInv'
  BY <1>4, RegisterStep
<1>5. ASSUME NEW t \in UserThreads, NEW b \in Browsers, NEW mailbox \in Mailboxes,
             \/ RegisterNext(t, b, mailbox)
             \/ \E typed \in BOOLEAN, pass \in Passwords,
                   change \in Passwords \cup {NoPassword} :
                 SaveSettings(t, b, mailbox, typed, pass, change)
      PROVE  UInv'
  BY <1>5, RegisterNextStep, SaveSettingsStep
<1> QED
  BY <1>1, <1>2, <1>3, <1>4, <1>5 DEF UsersNext

\* What the pages keep true of users, accounts, sessions and running requests.
THEOREM UInvAlways == UsersSpec => []UInv
<1> QED
  BY UInvInit, UInvStep, PTL DEF UsersSpec

\* Type correctness of users, accounts, sessions, dialogs and requests.
THEOREM UserTypesAlways == UsersSpec => []UsersTypeOK
<1>1. UInv => UsersTypeOK
  BY DEF UInv
<1> QED
  BY <1>1, UInvAlways, PTL

\* A session belongs to the user whose login id was typed, with a password of that user,
\* however many visitors send the forms with the same login id at once: the column LOGID
\* of webmail.db is unique, and the second insert throws.
THEOREM SessionsAreOwn == UsersSpec => []SessionIsOwn
<1>1. UInv => SessionIsOwn
  BY DEF UInv
<1> QED
  BY <1>1, UInvAlways, PTL

----
\* Which actions write the tables.

LEMMA WhoWritesAccounts ==
    ASSUME UsersNext
    PROVE  \/ UNCHANGED accountRows
           \/ \E t \in UserThreads : AddAccount(t) \/ SaveAccountRow(t)
<1>1. ASSUME Restart \/ \E b \in Browsers : OpenSettings(b) \/ SessionEnds(b)
      PROVE  UNCHANGED accountRows
  BY <1>1 DEF Restart, OpenSettings, SessionEnds
<1>2. ASSUME NEW t \in UserThreads,
             \/ FindUser(t) \/ LookForAccount(t) \/ AddUser(t) \/ LookUpAddedUser(t)
             \/ JumpToNextStep(t) \/ VerifyAccount(t) \/ ClearRegistering(t)
             \/ CheckLogin(t) \/ EnterSession(t)
             \/ CheckPassword(t) \/ ChangePassword(t) \/ RequestFails(t)
      PROVE  UNCHANGED accountRows
  BY <1>2 DEF FindUser, LookForAccount, AddUser, LookUpAddedUser, JumpToNextStep,
              VerifyAccount, ClearRegistering, CheckLogin, EnterSession, CheckPassword,
              ChangePassword, RequestFails
<1>3. ASSUME NEW t \in UserThreads, NEW b \in Browsers,
             \/ \E log \in LoginIds, pass \in Passwords :
                    Register(t, b, log, pass) \/ Login(t, b, log, pass)
             \/ \E mailbox \in Mailboxes :
                \/ RegisterNext(t, b, mailbox)
                \/ \E typed \in BOOLEAN, pass \in Passwords,
                      change \in Passwords \cup {NoPassword} :
                    SaveSettings(t, b, mailbox, typed, pass, change)
      PROVE  UNCHANGED accountRows
  BY <1>3 DEF Register, Login, RegisterNext, SaveSettings
<1> QED
  BY <1>1, <1>2, <1>3 DEF UsersNext

LEMMA WhoWritesUsers ==
    ASSUME UsersNext
    PROVE  \/ UNCHANGED users
           \/ \E t \in UserThreads :
                \/ JumpToNextStep(t) \/ AddUser(t) \/ ChangePassword(t)
                \/ \E b \in Browsers, mailbox \in Mailboxes : RegisterNext(t, b, mailbox)
<1>1. ASSUME Restart \/ \E b \in Browsers : OpenSettings(b) \/ SessionEnds(b)
      PROVE  UNCHANGED users
  BY <1>1 DEF Restart, OpenSettings, SessionEnds
<1>2. ASSUME NEW t \in UserThreads,
             \/ FindUser(t) \/ LookForAccount(t) \/ LookUpAddedUser(t)
             \/ VerifyAccount(t) \/ AddAccount(t) \/ ClearRegistering(t)
             \/ CheckLogin(t) \/ EnterSession(t)
             \/ SaveAccountRow(t) \/ CheckPassword(t) \/ RequestFails(t)
      PROVE  UNCHANGED users
  BY <1>2 DEF FindUser, LookForAccount, LookUpAddedUser, VerifyAccount, AddAccount,
              ClearRegistering, CheckLogin, EnterSession, SaveAccountRow, CheckPassword,
              RequestFails
<1>3. ASSUME NEW t \in UserThreads, NEW b \in Browsers,
             \/ \E log \in LoginIds, pass \in Passwords :
                    Register(t, b, log, pass) \/ Login(t, b, log, pass)
             \/ \E mailbox \in Mailboxes, typed \in BOOLEAN, pass \in Passwords,
                   change \in Passwords \cup {NoPassword} :
                 SaveSettings(t, b, mailbox, typed, pass, change)
      PROVE  UNCHANGED users
  BY <1>3 DEF Register, Login, SaveSettings
<1> QED
  BY <1>1, <1>2, <1>3 DEF UsersNext

LEMMA AddedAccount ==
    ASSUME UInv, NEW t \in UserThreads, AddAccount(t)
    PROVE  /\ DOMAIN accountRows' = DOMAIN accountRows \cup {Len(accountRows) + 1}
           /\ \A i \in DOMAIN accountRows : accountRows'[i] = accountRows[i]
<1>1. req[t] \in Finish
  BY FinishIsFinish DEF AddAccount, At, UInv
<1>2. [user |-> req[t].user, mailbox |-> req[t].mailbox, wraps |-> 1] \in AccountRow
  BY <1>1 DEF Finish, AccountRow
<1>3. accountRows \in Seq(AccountRow)
  BY DEF UInv, UsersTypeOK
<1> QED
  BY <1>2, <1>3, AppendProperties, LenProperties DEF AddAccount, InsertAccount

\* SettingsPage writes only accounts of the user whose request it is, and they stay hers.
THEOREM SettingsWriteOwnAccounts == UsersSpec => SettingsAreOwn
<1> DEFINE Own == \A i \in DOMAIN accountRows : accountRows'[i] # accountRows[i] =>
                    \E t \in UserThreads :
                        /\ At(t, "save")
                        /\ req[t].user = accountRows[i].user
                        /\ accountRows'[i].user = accountRows[i].user
<1>1. UInv /\ [UsersNext]_usersVars => [Own]_usersVars
  <2> SUFFICES ASSUME UInv, UsersNext PROVE Own
    OBVIOUS
  <2>1. ASSUME NEW t \in UserThreads, SaveAccountRow(t) PROVE Own
    BY <2>1, SavedAccount DEF SaveAccountRow
  <2>2. ASSUME NEW t \in UserThreads, AddAccount(t) PROVE Own
    BY <2>2, AddedAccount
  <2> QED
    BY <2>1, <2>2, WhoWritesAccounts
<1> QED
  BY <1>1, UInvAlways, PTL DEF UsersSpec, SettingsAreOwn

\* The first account of a user stays the first: what the mail pages work with does not
\* change under them, whatever is registered or saved.
THEOREM WorkingAccountIsKept == UsersSpec => WorkingAccountStays
<1> DEFINE Stays == \A u \in DOMAIN users :
                FindSingleByUserId(u) # 0 => FindSingleByUserId(u)' = FindSingleByUserId(u)
<1>1. UInv /\ [UsersNext]_usersVars => [Stays]_usersVars
  <2> SUFFICES ASSUME UInv, UsersNext, NEW u \in DOMAIN users, FindSingleByUserId(u) # 0
               PROVE  FindSingleByUserId(u)' = FindSingleByUserId(u)
    OBVIOUS
  <2>1. AccountsOf(u) # {}
    BY DEF FindSingleByUserId
  <2>2. CASE AccountsOf(u)' = AccountsOf(u)
    BY <2>2 DEF FindSingleByUserId
  <2>3. ASSUME NEW t \in UserThreads, SaveAccountRow(t) PROVE AccountsOf(u)' = AccountsOf(u)
    BY <2>3, SavedAccount DEF AccountsOf
  <2>4. CASE UNCHANGED accountRows
    BY <2>2, <2>4 DEF AccountsOf
  <2>5. ASSUME NEW t \in UserThreads, AddAccount(t)
        PROVE  FindSingleByUserId(u)' = FindSingleByUserId(u)
    <3> DEFINE S == AccountsOf(u)
               T == AccountsOf(u)'
    <3>1. Len(accountRows) \in Nat /\ DOMAIN accountRows = 1..Len(accountRows)
      BY LenProperties DEF UInv, UsersTypeOK
    <3>2. S \subseteq T /\ T \subseteq S \cup {Len(accountRows) + 1}
      BY <2>5, AddedAccount DEF AccountsOf
    <3>3. \A k \in S : k \in Nat /\ k <= Len(accountRows) + 1
      BY <3>1 DEF AccountsOf
    <3>4. S # {} /\ T # {}
      BY <2>1, <3>2
    <3> HIDE DEF S, T
    <3>5. PICK f \in S : \A j \in S : f <= j
      BY <2>1, FirstIsFound DEF S, FindSingleByUserId, UInv
    <3>6. \A k : (k \in S /\ \A j \in S : k <= j) <=> (k \in T /\ \A j \in T : k <= j)
      BY <3>1, <3>2, <3>3, <3>5
    <3>7. (CHOOSE i \in S : \A j \in S : i <= j) = (CHOOSE i \in T : \A j \in T : i <= j)
      BY <3>6, SameFirst
    <3> QED
      BY <3>4, <3>7 DEF S, T, FindSingleByUserId
  <2> QED
    BY <2>2, <2>3, <2>4, <2>5, WhoWritesAccounts
<1> QED
  BY <1>1, UInvAlways, PTL DEF UsersSpec, WorkingAccountStays

\* A password changes only by a request that has typed a password of the user's.
THEOREM PasswordsChangeKnown == UsersSpec => PasswordChangeIsKnown
<1> DEFINE Known == \A u \in DOMAIN users : users'[u].pass # users[u].pass =>
                \E t \in UserThreads :
                    At(t, "update") /\ req[t].user = u /\ req[t].pass \in users[u].had
<1>1. UInv /\ [UsersNext]_usersVars => [Known]_usersVars
  <2> SUFFICES ASSUME UInv, UsersNext, NEW u \in DOMAIN users,
                      users'[u].pass # users[u].pass
               PROVE  \E t \in UserThreads :
                        At(t, "update") /\ req[t].user = u /\ req[t].pass \in users[u].had
    OBVIOUS
  <2>1. \A i \in DOMAIN users : users[i] \in User
    BY ElementOfSeq, LenProperties DEF UInv, UsersTypeOK
  <2>2. ASSUME NEW t \in UserThreads, JumpToNextStep(t) PROVE FALSE
    BY <2>1, <2>2 DEF JumpToNextStep, User
  <2>3. ASSUME NEW t \in UserThreads, NEW b \in Browsers, NEW mailbox \in Mailboxes,
               RegisterNext(t, b, mailbox)
        PROVE  FALSE
    BY <2>1, <2>3 DEF RegisterNext, User
  <2>4. ASSUME NEW t \in UserThreads, AddUser(t) PROVE FALSE
    BY <2>4, LenProperties DEF AddUser, InsertUser, UInv, UsersTypeOK
  <2>5. ASSUME NEW t \in UserThreads, ChangePassword(t)
        PROVE  At(t, "update") /\ req[t].user = u /\ req[t].pass \in users[u].had
    BY <2>1, <2>5 DEF ChangePassword, UpdatePass, At, User, UInv, SettingsOK
  <2> QED
    BY <2>2, <2>3, <2>4, <2>5, WhoWritesUsers
<1> QED
  BY <1>1, UInvAlways, PTL DEF UsersSpec, PasswordChangeIsKnown

----
(* Registration: no more accounts than first forms that succeeded.  A first form that
   succeeds allows one account; the allowance is with the session until a second form
   takes it, with that request until its account is added, and goes back to the session
   when the request fails before. *)

\* Thread t is between the start and the end of a second form of user u.
UnderWay(t, u) == req[t].pc \in {"verify", "add", "clear"} /\ req[t].user = u

\* The requests that may still add an account.
Filling(u) == {t \in UserThreads : req[t].pc \in {"verify", "add"} /\ req[t].user = u}

\* The browsers that may still send a second form.
Invited(u) ==
    {b \in Browsers : session[b].registering.user = u
                      /\ \A t \in UserThreads : UnderWay(t, u) => req[t].by # b}

Within(u) ==
    /\ IsFiniteSet(Filling(u)) /\ IsFiniteSet(Invited(u))
    /\ \/ users[u].together
       \/ Cardinality(AccountsOf(u)) + Cardinality(Filling(u)) + Cardinality(Invited(u))
            <= users[u].started

AllowanceInv ==
    /\ \A i \in DOMAIN accountRows : accountRows[i].user \in DOMAIN users
    /\ \A u \in DOMAIN users : Within(u)

LEMMA AccountsAreFinite ==
    ASSUME UsersTypeOK, NEW u
    PROVE  IsFiniteSet(AccountsOf(u))
<1>1. Len(accountRows) \in Nat /\ DOMAIN accountRows = 1..Len(accountRows)
  BY LenProperties DEF UsersTypeOK
<1>2. IsFiniteSet(DOMAIN accountRows)
  BY <1>1, FS_Interval
<1>3. AccountsOf(u) \in SUBSET DOMAIN accountRows
  BY DEF AccountsOf
<1> QED
  BY <1>2, <1>3, FS_Subset

LEMMA UserRowTypes ==
    ASSUME UsersTypeOK, NEW u \in DOMAIN users
    PROVE  /\ users[u] \in User /\ users[u].started \in Nat
           /\ users[u].together \in BOOLEAN /\ u \in Nat \ {0}
<1>1. users[u] \in User /\ u \in Nat \ {0}
  BY ElementOfSeq, LenProperties DEF UsersTypeOK
<1> QED
  BY <1>1 DEF User

\* What the columns of a user's row do in any step.
RowGoesOn(u) ==
    /\ users'[u].started \in Nat /\ users'[u].started >= users[u].started
    /\ users[u].together => users'[u].together

\* One element more, or one less.
LEMMA AtMost ==
    ASSUME NEW S, IsFiniteSet(S), NEW T, T \subseteq S
    PROVE  /\ IsFiniteSet(T) /\ Cardinality(T) <= Cardinality(S)
           /\ Cardinality(S) \in Nat /\ Cardinality(T) \in Nat
BY FS_Subset, FS_CardinalityType

LEMMA AtMostOneMore ==
    ASSUME NEW S, IsFiniteSet(S), NEW T, NEW x, T \subseteq S \cup {x}
    PROVE  /\ IsFiniteSet(T) /\ Cardinality(T) <= Cardinality(S) + 1
           /\ Cardinality(S) \in Nat /\ Cardinality(T) \in Nat
<1>1. /\ IsFiniteSet(S \cup {x}) /\ Cardinality(S) \in Nat
      /\ Cardinality(S \cup {x}) = IF x \in S THEN Cardinality(S) ELSE Cardinality(S) + 1
  BY FS_AddElement, FS_CardinalityType
<1>2. IsFiniteSet(T) /\ Cardinality(T) <= Cardinality(S \cup {x}) /\ Cardinality(T) \in Nat
  BY <1>1, AtMost
<1> QED
  BY <1>1, <1>2

LEMMA OneLess ==
    ASSUME NEW S, IsFiniteSet(S), NEW x \in S, NEW T, T \subseteq S \ {x}
    PROVE  /\ IsFiniteSet(T) /\ Cardinality(T) + 1 <= Cardinality(S)
           /\ Cardinality(S) \in Nat /\ Cardinality(T) \in Nat
<1>1. /\ IsFiniteSet(S \ {x}) /\ Cardinality(S) \in Nat
      /\ Cardinality(S \ {x}) = Cardinality(S) - 1
  BY FS_RemoveElement, FS_CardinalityType
<1>2. IsFiniteSet(T) /\ Cardinality(T) <= Cardinality(S \ {x}) /\ Cardinality(T) \in Nat
  BY <1>1, AtMost
<1> QED
  BY <1>1, <1>2

\* The three sets of user u are finite before the step.
LEMMA ThreeSets ==
    ASSUME UInv, NEW u \in DOMAIN users, Within(u)
    PROVE  /\ IsFiniteSet(AccountsOf(u)) /\ IsFiniteSet(Filling(u)) /\ IsFiniteSet(Invited(u))
           /\ Cardinality(AccountsOf(u)) \in Nat
           /\ Cardinality(Filling(u)) \in Nat /\ Cardinality(Invited(u)) \in Nat
BY AccountsAreFinite, FS_CardinalityType DEF UInv, Within

\* Enough that the sum does not grow by more than the first forms that succeed.
LEMMA StaysWithin ==
    ASSUME UInv, NEW u \in DOMAIN users, Within(u), RowGoesOn(u),
           IsFiniteSet(Filling(u)'), IsFiniteSet(Invited(u)'),
           NEW a \in Nat, a = Cardinality(AccountsOf(u)'),
           NEW f \in Nat, f = Cardinality(Filling(u)'),
           NEW i \in Nat, i = Cardinality(Invited(u)'),
           \/ users'[u].together
           \/ a + f + i + users[u].started <=
                Cardinality(AccountsOf(u)) + Cardinality(Filling(u)) + Cardinality(Invited(u))
                + users'[u].started
    PROVE  Within(u)'
<1>1. users[u].started \in Nat
  BY UserRowTypes DEF UInv
<1>2. CASE users'[u].together
  BY <1>2 DEF Within
<1>3. CASE ~users'[u].together
  <2>1. Cardinality(AccountsOf(u)) + Cardinality(Filling(u)) + Cardinality(Invited(u))
            <= users[u].started
    BY <1>3 DEF Within, RowGoesOn
  <2>2. users'[u].started \in Nat
    BY DEF RowGoesOn
  <2>3. a + f + i <= users'[u].started
    BY <1>1, <1>3, <2>1, <2>2, ThreeSets
  <2> QED
    BY <2>3 DEF Within
<1> QED
  BY <1>2, <1>3

\* No allowance is gained.
LEMMA NothingGained ==
    ASSUME UInv, NEW u \in DOMAIN users, Within(u), RowGoesOn(u),
           AccountsOf(u)' \subseteq AccountsOf(u),
           Filling(u)' \subseteq Filling(u), Invited(u)' \subseteq Invited(u)
    PROVE  Within(u)'
<1>1. /\ Cardinality(AccountsOf(u)') <= Cardinality(AccountsOf(u))
      /\ Cardinality(AccountsOf(u)') \in Nat
  BY ThreeSets, AtMost
<1>2. /\ IsFiniteSet(Filling(u)') /\ Cardinality(Filling(u)') <= Cardinality(Filling(u))
      /\ Cardinality(Filling(u)') \in Nat
  BY ThreeSets, AtMost
<1>3. /\ IsFiniteSet(Invited(u)') /\ Cardinality(Invited(u)') <= Cardinality(Invited(u))
      /\ Cardinality(Invited(u)') \in Nat
  BY ThreeSets, AtMost
<1>4. users'[u].started \in Nat /\ users[u].started <= users'[u].started /\ users[u].started \in Nat
  BY UserRowTypes DEF RowGoesOn, UInv
<1>5. Cardinality(AccountsOf(u)') + Cardinality(Filling(u)') + Cardinality(Invited(u)')
            + users[u].started <=
      Cardinality(AccountsOf(u)) + Cardinality(Filling(u)) + Cardinality(Invited(u))
            + users'[u].started
  BY <1>1, <1>2, <1>3, <1>4, ThreeSets
<1> QED
  BY <1>1, <1>2, <1>3, <1>5, StaysWithin

\* A first form succeeds: one browser more is invited.
LEMMA OneInvited ==
    ASSUME UInv, NEW u \in DOMAIN users, Within(u), NEW b,
           users'[u].started = users[u].started + 1,
           users[u].together => users'[u].together,
           AccountsOf(u)' = AccountsOf(u), Filling(u)' \subseteq Filling(u),
           Invited(u)' \subseteq Invited(u) \cup {b}
    PROVE  Within(u)'
<1>1. /\ IsFiniteSet(Filling(u)') /\ Cardinality(Filling(u)') <= Cardinality(Filling(u))
      /\ Cardinality(Filling(u)') \in Nat
  BY ThreeSets, AtMost
<1>2. /\ IsFiniteSet(Invited(u)') /\ Cardinality(Invited(u)') <= Cardinality(Invited(u)) + 1
      /\ Cardinality(Invited(u)') \in Nat
  BY ThreeSets, AtMostOneMore
<1>3. users[u].started \in Nat
  BY UserRowTypes DEF UInv
<1>4. RowGoesOn(u)
  BY <1>3 DEF RowGoesOn
<1>5. Cardinality(AccountsOf(u)) + Cardinality(Filling(u)') + Cardinality(Invited(u)')
            + users[u].started <=
      Cardinality(AccountsOf(u)) + Cardinality(Filling(u)) + Cardinality(Invited(u))
            + users'[u].started
  BY <1>1, <1>2, <1>3, ThreeSets
<1> QED
  BY <1>1, <1>2, <1>4, <1>5, ThreeSets, StaysWithin

\* A second form of a browser starts: a request takes its allowance.
LEMMA OneTaken ==
    ASSUME UInv, NEW u \in DOMAIN users, Within(u), RowGoesOn(u), NEW t, NEW b,
           AccountsOf(u)' = AccountsOf(u), Filling(u)' \subseteq Filling(u) \cup {t},
           Invited(u)' \subseteq Invited(u) \ {b},
           users'[u].together \/ b \in Invited(u)
    PROVE  Within(u)'
<1>1. /\ IsFiniteSet(Filling(u)') /\ Cardinality(Filling(u)') <= Cardinality(Filling(u)) + 1
      /\ Cardinality(Filling(u)') \in Nat
  <2>1. IsFiniteSet(Filling(u))
    BY ThreeSets
  <2> QED
    BY <2>1, AtMostOneMore
<1>2. IsFiniteSet(Invited(u)') /\ Cardinality(Invited(u)') \in Nat
  BY ThreeSets, AtMost
<1>3. users'[u].started \in Nat /\ users[u].started <= users'[u].started /\ users[u].started \in Nat
  BY UserRowTypes DEF RowGoesOn, UInv
<1>4. CASE users'[u].together
  BY <1>1, <1>2, <1>4, ThreeSets, StaysWithin
<1>5. CASE b \in Invited(u)
  <2>1. Cardinality(Invited(u)') + 1 <= Cardinality(Invited(u))
    BY <1>5, ThreeSets, OneLess
  <2>2. Cardinality(AccountsOf(u)) + Cardinality(Filling(u)') + Cardinality(Invited(u)')
              + users[u].started <=
        Cardinality(AccountsOf(u)) + Cardinality(Filling(u)) + Cardinality(Invited(u))
              + users'[u].started
    BY <1>1, <1>2, <1>3, <2>1, ThreeSets
  <2> QED
    BY <1>1, <1>2, <2>2, ThreeSets, StaysWithin
<1> QED
  BY <1>4, <1>5

\* A request gives its allowance up, to an account or back to the browser.
LEMMA OneGivenUp ==
    ASSUME UInv, NEW u \in DOMAIN users, Within(u), RowGoesOn(u), NEW t \in Filling(u),
           Filling(u)' \subseteq Filling(u) \ {t},
           NEW x,
           \/ /\ AccountsOf(u)' = AccountsOf(u)
              /\ Invited(u)' \subseteq Invited(u) \cup {x}
           \/ /\ AccountsOf(u)' \subseteq AccountsOf(u) \cup {x}
              /\ Invited(u)' \subseteq Invited(u)
    PROVE  Within(u)'
<1>1. /\ IsFiniteSet(Filling(u)') /\ Cardinality(Filling(u)') + 1 <= Cardinality(Filling(u))
      /\ Cardinality(Filling(u)') \in Nat
  BY ThreeSets, OneLess
<1>2. /\ IsFiniteSet(Invited(u)') /\ Cardinality(Invited(u)') \in Nat
      /\ Cardinality(AccountsOf(u)') \in Nat
      /\ \/ /\ Cardinality(Invited(u)') <= Cardinality(Invited(u)) + 1
            /\ Cardinality(AccountsOf(u)') <= Cardinality(AccountsOf(u))
         \/ /\ Cardinality(Invited(u)') <= Cardinality(Invited(u))
            /\ Cardinality(AccountsOf(u)') <= Cardinality(AccountsOf(u)) + 1
  <2>1. CASE /\ AccountsOf(u)' = AccountsOf(u)
             /\ Invited(u)' \subseteq Invited(u) \cup {x}
    <3>1. IsFiniteSet(Invited(u))
      BY ThreeSets
    <3>2. /\ IsFiniteSet(Invited(u)') /\ Cardinality(Invited(u)') <= Cardinality(Invited(u)) + 1
          /\ Cardinality(Invited(u)') \in Nat
      BY <2>1, <3>1, AtMostOneMore
    <3>3. Cardinality(AccountsOf(u)') = Cardinality(AccountsOf(u))
      BY <2>1
    <3> QED
      BY <3>2, <3>3, ThreeSets
  <2>2. CASE /\ AccountsOf(u)' \subseteq AccountsOf(u) \cup {x}
             /\ Invited(u)' \subseteq Invited(u)
    <3>1. IsFiniteSet(Invited(u)) /\ IsFiniteSet(AccountsOf(u))
      BY ThreeSets
    <3>2. /\ IsFiniteSet(Invited(u)') /\ Cardinality(Invited(u)') <= Cardinality(Invited(u))
          /\ Cardinality(Invited(u)') \in Nat
      BY <2>2, <3>1, AtMost
    <3>3. /\ Cardinality(AccountsOf(u)') <= Cardinality(AccountsOf(u)) + 1
          /\ Cardinality(AccountsOf(u)') \in Nat
      BY <2>2, <3>1, AtMostOneMore
    <3> QED
      BY <3>2, <3>3
  <2> QED
    BY <2>1, <2>2
<1>3. users'[u].started \in Nat /\ users[u].started <= users'[u].started /\ users[u].started \in Nat
  BY UserRowTypes DEF RowGoesOn, UInv
<1>4. Cardinality(AccountsOf(u)') + Cardinality(Filling(u)') + Cardinality(Invited(u)')
            + users[u].started <=
      Cardinality(AccountsOf(u)) + Cardinality(Filling(u)) + Cardinality(Invited(u))
            + users'[u].started
  BY <1>1, <1>2, <1>3, ThreeSets
<1> QED
  BY <1>1, <1>2, <1>4, StaysWithin

----
\* The steps.

\* Requests and sessions of a second form are left alone.
SecondFormsStay ==
    /\ \A t \in UserThreads, u \in Nat : UnderWay(t, u)' = UnderWay(t, u)
    /\ \A t \in UserThreads : req[t].pc \in {"verify", "add", "clear"} => req'[t] = req[t]
    /\ \A b \in Browsers : session'[b].registering = session[b].registering

\* A request that is and stays in something else than a second form.
LEMMA OtherRequest ==
    ASSUME UInv, NEW t \in UserThreads, req[t].pc \notin {"verify", "add", "clear"},
           NEW r, r.pc \notin {"verify", "add", "clear"},
           req' = [req EXCEPT ![t] = r],
           \A b \in Browsers : session'[b].registering = session[b].registering
    PROVE  SecondFormsStay
<1>1. req'[t] = r /\ \A v \in UserThreads \ {t} : req'[v] = req[v]
  BY DEF UInv, UsersTypeOK
<1> QED
  BY <1>1 DEF SecondFormsStay, UnderWay

LEMMA StayingGainsNothing ==
    ASSUME UInv, NEW u \in DOMAIN users, SecondFormsStay
    PROVE  Filling(u)' \subseteq Filling(u) /\ Invited(u)' \subseteq Invited(u)
<1>1. u \in Nat
  BY UserRowTypes DEF UInv
<1>2. \A t \in UserThreads : UnderWay(t, u)' = UnderWay(t, u)
  BY <1>1 DEF SecondFormsStay
<1>3. \A t \in UserThreads : UnderWay(t, u) => req'[t] = req[t]
  BY DEF SecondFormsStay, UnderWay
<1>4. Filling(u)' \subseteq Filling(u)
  <2>1. ASSUME NEW t \in Filling(u)' PROVE t \in Filling(u)
    <3>1. t \in UserThreads /\ req'[t].pc \in {"verify", "add"} /\ req'[t].user = u
      BY <2>1 DEF Filling
    <3>2. UnderWay(t, u)'
      BY <3>1 DEF UnderWay
    <3>3. req'[t] = req[t]
      BY <1>2, <1>3, <3>1, <3>2
    <3> QED
      BY <3>1, <3>3 DEF Filling
  <2> QED
    BY <2>1
<1>5. Invited(u)' \subseteq Invited(u)
  <2>1. ASSUME NEW b \in Invited(u)' PROVE b \in Invited(u)
    <3>1. /\ b \in Browsers /\ session'[b].registering.user = u
          /\ \A t \in UserThreads : UnderWay(t, u)' => req'[t].by # b
      BY <2>1 DEF Invited
    <3>2. \A t \in UserThreads : UnderWay(t, u) => req[t].by # b
      BY <1>2, <1>3, <3>1
    <3>3. session[b].registering.user = u
      BY <3>1 DEF SecondFormsStay
    <3> QED
      BY <3>1, <3>2, <3>3 DEF Invited
  <2> QED
    BY <2>1
<1> QED
  BY <1>4, <1>5

\* Steps of other requests, which write no account of another user.
LEMMA OtherStep ==
    ASSUME UInv, AllowanceInv, SecondFormsStay, DOMAIN users' = DOMAIN users,
           DOMAIN accountRows' = DOMAIN accountRows,
           \A i \in DOMAIN accountRows : accountRows'[i].user = accountRows[i].user,
           \A u \in DOMAIN users : RowGoesOn(u)
    PROVE  AllowanceInv'
<1>1. ASSUME NEW u \in DOMAIN users PROVE Within(u)'
  <2>1. AccountsOf(u)' \subseteq AccountsOf(u)
    BY DEF AccountsOf
  <2>2. Within(u) /\ RowGoesOn(u)
    BY DEF AllowanceInv
  <2> QED
    BY <2>1, <2>2, StayingGainsNothing, NothingGained
<1> QED
  BY <1>1 DEF AllowanceInv

LEMMA RowsGoOn ==
    ASSUME UInv, UNCHANGED users
    PROVE  \A u \in DOMAIN users : RowGoesOn(u)
BY UserRowTypes DEF UInv, RowGoesOn

\* One thread that runs no second form goes on with something else.
LEMMA RequestElsewhere ==
    ASSUME UInv, NEW t \in UserThreads, req[t].pc \notin {"verify", "add", "clear"},
           Answer(t) \/ \E label \in {"insert", "next", "created", "update", "password"} :
                            Goto(t, label),
           \A b \in Browsers : session'[b].registering = session[b].registering
    PROVE  SecondFormsStay
<1>1. CASE Answer(t)
  <2>1. NoRequest.pc \notin {"verify", "add", "clear"}
    BY DEF NoRequest
  <2> QED
    BY <1>1, <2>1, OtherRequest DEF Answer
<1>2. ASSUME NEW label \in {"insert", "next", "created", "update", "password"}, Goto(t, label)
      PROVE  SecondFormsStay
  <2> DEFINE r == [req[t] EXCEPT !.pc = label]
  <2>1. r.pc \notin {"verify", "add", "clear"}
    <3>1. req[t] \in Visit \/ req[t] \in Finish \/ req[t] \in Settings \/ req[t] = NoRequest
      BY RequestIsOneOf DEF UInv
    <3> QED
      BY <3>1 DEF Visit, Finish, Settings, NoRequest
  <2>2. req' = [req EXCEPT ![t] = r]
    BY <1>2 DEF Goto, UInv, UsersTypeOK
  <2> HIDE DEF r
  <2> QED
    BY <2>1, <2>2, OtherRequest
<1> QED
  BY <1>1, <1>2

\* Or takes a user it has found along.
LEMMA VisitElsewhere ==
    ASSUME UInv, NEW t \in UserThreads, req[t] \in Visit,
           NEW label \in {"account", "next", "enter"}, NEW u,
           req' = [req EXCEPT ![t].pc = label, ![t].user = u],
           \A b \in Browsers : session'[b].registering = session[b].registering
    PROVE  SecondFormsStay
<1> DEFINE r == [req[t] EXCEPT !.pc = label, !.user = u]
<1>1. r.pc = label /\ req[t].pc \notin {"verify", "add", "clear"}
  BY DEF Visit
<1>2. req' = [req EXCEPT ![t] = r]
  BY DEF UInv, UsersTypeOK
<1> HIDE DEF r
<1> QED
  BY <1>1, <1>2, OtherRequest

\* The steps of OtherStep that change requests only.
LEMMA QuietStep ==
    ASSUME UInv, AllowanceInv, NEW t \in UserThreads,
           \/ FindUser(t) \/ LookForAccount(t) \/ LookUpAddedUser(t) \/ CheckLogin(t)
           \/ CheckPassword(t) \/ (RequestFails(t) /\ req[t].pc # "add")
    PROVE  AllowanceInv'
<1>1. UNCHANGED <<users, accountRows, session, form>>
  BY DEF FindUser, LookForAccount, LookUpAddedUser, CheckLogin, CheckPassword, RequestFails
<1>2. \A b \in Browsers : session'[b].registering = session[b].registering
  BY <1>1
<1>3. SecondFormsStay
  <2>1. req[t].pc \notin {"verify", "add", "clear"}
    BY DEF FindUser, LookForAccount, LookUpAddedUser, CheckLogin, CheckPassword,
           RequestFails, At
  <2>2. CASE FindUser(t)
    <3>1. req[t] \in Visit
      BY <2>2, VisitIsVisit DEF FindUser, At, UInv
    <3> QED
      BY <1>2, <2>1, <2>2, <3>1, RequestElsewhere, VisitElsewhere DEF FindUser
  <2>3. CASE LookForAccount(t) \/ CheckPassword(t) \/ RequestFails(t)
    BY <1>2, <2>1, <2>3, RequestElsewhere DEF LookForAccount, CheckPassword, RequestFails
  <2>4. CASE LookUpAddedUser(t)
    <3>1. req[t] \in Visit
      BY <2>4, VisitIsVisit DEF LookUpAddedUser, At, UInv
    <3> QED
      BY <1>2, <2>4, <3>1, VisitElsewhere DEF LookUpAddedUser
  <2>5. CASE CheckLogin(t)
    <3>1. req[t] \in Visit
      BY <2>5, VisitIsVisit DEF CheckLogin, At, UInv
    <3>2. CASE Answer(t)
      BY <1>2, <2>1, <3>2, RequestElsewhere
    <3>3. CASE req' = [req EXCEPT ![t].pc = "enter", ![t].user = FindUserByLogId(req[t].log)]
      BY <1>2, <3>1, <3>3, VisitElsewhere
    <3> QED
      BY <2>5, <3>2, <3>3 DEF CheckLogin
  <2> QED
    BY <2>2, <2>3, <2>4, <2>5
<1> QED
  BY <1>1, <1>3, RowsGoOn, OtherStep

\* A request begins that is no second form.
LEMMA BeginStep ==
    ASSUME UInv, AllowanceInv, NEW t \in UserThreads, NEW b \in Browsers,
           \/ \E log \in LoginIds, pass \in Passwords :
                Register(t, b, log, pass) \/ Login(t, b, log, pass)
           \/ \E mailbox \in Mailboxes, typed \in BOOLEAN, pass \in Passwords,
                 change \in Passwords \cup {NoPassword} :
                SaveSettings(t, b, mailbox, typed, pass, change)
    PROVE  AllowanceInv'
<1>1. UNCHANGED <<users, accountRows, session, form>> /\ req[t].pc = "idle"
  BY DEF Register, Login, SaveSettings, At
<1>2. \E r : r.pc \notin {"verify", "add", "clear"} /\ req' = [req EXCEPT ![t] = r]
  <2>1. ASSUME NEW log \in LoginIds, NEW pass \in Passwords, NEW label \in {"find", "check"},
               req' = [req EXCEPT ![t] =
                        [pc |-> label, by |-> b, log |-> log, pass |-> pass, user |-> 0]]
        PROVE  \E r : r.pc \notin {"verify", "add", "clear"} /\ req' = [req EXCEPT ![t] = r]
    BY <2>1
  <2>2. ASSUME NEW mailbox \in Mailboxes, NEW typed \in BOOLEAN, NEW pass \in Passwords,
               NEW change \in Passwords \cup {NoPassword},
               SaveSettings(t, b, mailbox, typed, pass, change)
        PROVE  \E r : r.pc \notin {"verify", "add", "clear"} /\ req' = [req EXCEPT ![t] = r]
    <3> DEFINE r == [pc |-> "save", by |-> b, user |-> session[b].login.user, id |-> form[b].id,
                     row |-> EntityOf(form[b], mailbox, typed), pass |-> pass, change |-> change]
    <3>1. r.pc = "save" /\ req' = [req EXCEPT ![t] = r]
      BY <2>2 DEF SaveSettings
    <3> HIDE DEF r
    <3> QED
      BY <3>1
  <2> QED
    BY <2>1, <2>2 DEF Register, Login
<1>3. SecondFormsStay
  <2>1. PICK r : r.pc \notin {"verify", "add", "clear"} /\ req' = [req EXCEPT ![t] = r]
    BY <1>2
  <2>2. \A c \in Browsers : session'[c].registering = session[c].registering
    BY <1>1
  <2>3. req[t].pc \notin {"verify", "add", "clear"}
    BY <1>1
  <2> QED
    BY <2>1, <2>2, <2>3, OtherRequest
<1> QED
  BY <1>1, <1>3, RowsGoOn, OtherStep

LEMMA OpenAllowance ==
    ASSUME UInv, AllowanceInv, NEW b \in Browsers, OpenSettings(b)
    PROVE  AllowanceInv'
<1>1. UNCHANGED <<users, accountRows, session, req>>
  BY DEF OpenSettings
<1>2. SecondFormsStay
  BY <1>1 DEF SecondFormsStay, UnderWay
<1> QED
  BY <1>1, <1>2, RowsGoOn, OtherStep

LEMMA EnterAllowance ==
    ASSUME UInv, AllowanceInv, NEW t \in UserThreads, EnterSession(t)
    PROVE  AllowanceInv'
<1>1. req[t].pc = "enter" /\ Answer(t) /\ UNCHANGED <<users, accountRows>>
  BY DEF EnterSession, At
<1>2. \A b \in Browsers : session'[b].registering = session[b].registering
  BY DEF EnterSession, UInv, UsersTypeOK, Session
<1>3. SecondFormsStay
  BY <1>1, <1>2, RequestElsewhere
<1> QED
  BY <1>1, <1>3, RowsGoOn, OtherStep

LEMMA SaveAllowance ==
    ASSUME UInv, AllowanceInv, NEW t \in UserThreads, SaveAccountRow(t)
    PROVE  AllowanceInv'
<1>1. /\ req[t].pc = "save" /\ (Answer(t) \/ Goto(t, "password"))
      /\ UNCHANGED <<users, session>>
  BY DEF SaveAccountRow, At
<1>2. SecondFormsStay
  BY <1>1, RequestElsewhere
<1>3. /\ DOMAIN accountRows' = DOMAIN accountRows
      /\ \A i \in DOMAIN accountRows : accountRows'[i].user = accountRows[i].user
  BY SavedAccount
<1> QED
  BY <1>1, <1>2, <1>3, RowsGoOn, OtherStep

LEMMA ChangeAllowance ==
    ASSUME UInv, AllowanceInv, NEW t \in UserThreads, ChangePassword(t)
    PROVE  AllowanceInv'
<1>1. /\ req[t].pc = "update" /\ Answer(t) /\ UNCHANGED <<accountRows, session>>
      /\ req[t].user \in DOMAIN users
  BY DEF ChangePassword, At, UInv, SettingsOK
<1>2. SecondFormsStay
  BY <1>1, RequestElsewhere
<1>3. users' = [users EXCEPT ![req[t].user].pass = req[t].change,
                             ![req[t].user].had = @ \cup {req[t].change}]
  BY DEF ChangePassword, UpdatePass
<1>4. \A u \in DOMAIN users : RowGoesOn(u)
  <2>1. SUFFICES ASSUME NEW u \in DOMAIN users PROVE RowGoesOn(u)
    OBVIOUS
  <2>2. users[u] \in User /\ users[u].started \in Nat
    BY UserRowTypes DEF UInv
  <2>3. users'[u].started = users[u].started /\ users'[u].together = users[u].together
    BY <1>3, <2>2 DEF User
  <2> QED
    BY <2>2, <2>3 DEF RowGoesOn
<1>5. DOMAIN users' = DOMAIN users
  BY <1>3
<1> QED
  BY <1>1, <1>2, <1>4, <1>5, OtherStep

\* A user who has just been added has nothing.
LEMMA AddUserAllowance ==
    ASSUME UInv, UInv', AllowanceInv, NEW t \in UserThreads, AddUser(t)
    PROVE  AllowanceInv'
<1>0. PICK new : new = Len(users) + 1
  OBVIOUS
<1>1. /\ req[t].pc = "insert" /\ Goto(t, "created") /\ UNCHANGED <<accountRows, session>>
  BY DEF AddUser, At
<1>2. SecondFormsStay
  BY <1>1, RequestElsewhere
<1>3. /\ DOMAIN users' = DOMAIN users \cup {new} /\ new \notin DOMAIN users /\ new \in Nat \ {0}
      /\ \A i \in DOMAIN users : users'[i] = users[i]
      /\ users'[new].started = 0
  <2>1. users \in Seq(User)
    BY DEF UInv, UsersTypeOK
  <2>2. Len(users) \in Nat /\ DOMAIN users = 1..Len(users)
    BY <2>1, LenProperties
  <2> QED
    BY <1>0, <2>1, <2>2 DEF AddUser, InsertUser
<1>4. ASSUME NEW u \in DOMAIN users PROVE Within(u)'
  <2>1. RowGoesOn(u)
    BY <1>3, UserRowTypes DEF UInv, RowGoesOn
  <2>2. AccountsOf(u)' = AccountsOf(u)
    BY <1>1 DEF AccountsOf
  <2>3. Within(u)
    BY DEF AllowanceInv
  <2> QED
    BY <1>2, <2>1, <2>2, <2>3, StayingGainsNothing, NothingGained
<1>5. \A i \in DOMAIN accountRows : accountRows[i].user # new
  BY <1>3 DEF AllowanceInv
<1>6. \A v \in UserThreads : req[v].pc \in {"verify", "add"} => req[v].user # new
  BY <1>3 DEF UInv, SettingsOK
<1>7. \A b \in Browsers : session[b].registering.user # new
  BY <1>3 DEF UInv, SessionIsOwn, Nobody
<1>8. \A v \in UserThreads : req'[v].pc \in {"verify", "add"} => req'[v].user # new
  <2>1. SUFFICES ASSUME NEW v \in UserThreads, req'[v].pc \in {"verify", "add"},
                        req'[v].user = new
                 PROVE  FALSE
    OBVIOUS
  <2>2. UnderWay(v, new)'
    BY <2>1 DEF UnderWay
  <2>3. UnderWay(v, new)
    BY <1>2, <1>3, <2>2 DEF SecondFormsStay
  <2>4. req'[v] = req[v]
    BY <1>2, <2>3 DEF SecondFormsStay, UnderWay
  <2> QED
    BY <1>6, <2>1, <2>4
<1>9. Within(new)'
  <2>1. AccountsOf(new)' = {}
    BY <1>1, <1>5 DEF AccountsOf
  <2>2. Filling(new)' = {}
    BY <1>8 DEF Filling
  <2>3. Invited(new)' = {}
    BY <1>1, <1>7 DEF Invited
  <2> QED
    BY <1>3, <2>1, <2>2, <2>3, FS_EmptySet DEF Within
<1>10. \A u \in DOMAIN users' : Within(u)'
  BY <1>3, <1>4, <1>9
<1> QED
  BY <1>1, <1>3, <1>10 DEF AllowanceInv

\* The first form succeeds: its browser is invited.
LEMMA JumpAllowance ==
    ASSUME UInv, UInv', AllowanceInv, NEW t \in UserThreads, JumpToNextStep(t)
    PROVE  AllowanceInv'
<1>1. /\ req[t].pc = "next" /\ Answer(t) /\ UNCHANGED <<accountRows, form>>
      /\ req[t] \in Visit /\ req[t].user \in DOMAIN users
  BY VisitIsVisit DEF JumpToNextStep, At, UInv, VisitOK, IsUser
<1>2. PICK v \in DOMAIN users, c \in Browsers : v = req[t].user /\ c = req[t].by
  BY <1>1 DEF Visit
<1>3. /\ users' = [users EXCEPT ![v].started = users[v].started + 1]
      /\ session' = [session EXCEPT ![c].registering = VisitorOf(t)]
  BY <1>2 DEF JumpToNextStep
<1>4. VisitorOf(t).user = v
  BY <1>2 DEF VisitorOf
<1>5. /\ session'[c].registering.user = v
      /\ \A b \in Browsers \ {c} : session'[b].registering = session[b].registering
  BY <1>2, <1>3, <1>4 DEF UInv, UsersTypeOK, Session
<1>6. req'[t].pc = "idle" /\ \A w \in UserThreads \ {t} : req'[w] = req[w]
  BY <1>1 DEF Answer, NoRequest, UInv, UsersTypeOK
<1>7. \A u : Filling(u)' \subseteq Filling(u)
  BY <1>6 DEF Filling
<1>8. \A w \in UserThreads : \A u : UnderWay(w, u) => w # t /\ UnderWay(w, u)' /\ req'[w] = req[w]
  BY <1>1, <1>6 DEF UnderWay
<1>9. \A u \in DOMAIN users :
        Invited(u)' \subseteq IF u = v THEN Invited(u) \cup {c} ELSE Invited(u)
  <2>1. SUFFICES ASSUME NEW u \in DOMAIN users, NEW b \in Invited(u)', ~(u = v /\ b = c)
                 PROVE  b \in Invited(u)
    OBVIOUS
  <2>2. /\ b \in Browsers /\ session'[b].registering.user = u
        /\ \A w \in UserThreads : UnderWay(w, u)' => req'[w].by # b
    BY <2>1 DEF Invited
  <2>3. b # c /\ session[b].registering.user = u
    BY <1>5, <2>1, <2>2
  <2>4. \A w \in UserThreads : UnderWay(w, u) => req[w].by # b
    BY <1>8, <2>2
  <2> QED
    BY <2>2, <2>3, <2>4 DEF Invited
<1>10. \A u : AccountsOf(u)' = AccountsOf(u)
  BY <1>1 DEF AccountsOf
<1>11. /\ DOMAIN users' = DOMAIN users /\ users'[v].started = users[v].started + 1
       /\ users'[v].together = users[v].together
       /\ \A u \in DOMAIN users \ {v} : users'[u] = users[u]
  <2>1. users[v] \in User
    BY UserRowTypes DEF UInv
  <2> QED
    BY <1>3, <2>1 DEF User
<1>12. ASSUME NEW u \in DOMAIN users, u # v PROVE Within(u)'
  <2>1. RowGoesOn(u)
    BY <1>11, <1>12, UserRowTypes DEF UInv, RowGoesOn
  <2>2. Within(u) /\ Invited(u)' \subseteq Invited(u)
    BY <1>9, <1>12 DEF AllowanceInv
  <2> QED
    BY <1>7, <1>10, <2>1, <2>2, NothingGained
<1>13. Within(v)'
  <2>1. Within(v) /\ Invited(v)' \subseteq Invited(v) \cup {c}
    BY <1>9 DEF AllowanceInv
  <2> QED
    BY <1>7, <1>10, <1>11, <2>1, OneInvited
<1> QED
  BY <1>1, <1>11, <1>12, <1>13 DEF AllowanceInv

\* The second form starts: its request takes the allowance of its browser.
LEMMA RegisterNextAllowance ==
    ASSUME UInv, UInv', AllowanceInv, NEW t \in UserThreads, NEW c \in Browsers,
           NEW mailbox \in Mailboxes, RegisterNext(t, c, mailbox)
    PROVE  AllowanceInv'
<1>1. /\ req[t].pc = "idle" /\ UNCHANGED <<accountRows, session, form>>
      /\ session[c].registering.user \in DOMAIN users
  BY DEF RegisterNext, At, UInv, SessionIsOwn
<1>2. PICK v \in DOMAIN users : v = session[c].registering.user
  BY <1>1
<1>3. /\ users' = [users EXCEPT ![v].together = users[v].together \/ FormUnderWay(c)]
      /\ req' = [req EXCEPT ![t] = [pc |-> "verify", by |-> c, user |-> v, mailbox |-> mailbox]]
  BY <1>2 DEF RegisterNext
<1>4. /\ req'[t].pc = "verify" /\ req'[t].by = c /\ req'[t].user = v
      /\ \A w \in UserThreads \ {t} : req'[w] = req[w]
  BY <1>3 DEF UInv, UsersTypeOK
<1>5. \A w \in UserThreads : \A u : UnderWay(w, u) => w # t /\ UnderWay(w, u)' /\ req'[w] = req[w]
  BY <1>1, <1>4 DEF UnderWay
<1>6. \A u : AccountsOf(u)' = AccountsOf(u) /\ Invited(u)' \subseteq Invited(u)
  <2>1. \A u : AccountsOf(u)' = AccountsOf(u)
    BY <1>1 DEF AccountsOf
  <2>2. ASSUME NEW u, NEW b \in Invited(u)' PROVE b \in Invited(u)
    <3>1. /\ b \in Browsers /\ session[b].registering.user = u
          /\ \A w \in UserThreads : UnderWay(w, u)' => req'[w].by # b
      BY <1>1, <2>2 DEF Invited
    <3>2. \A w \in UserThreads : UnderWay(w, u) => req[w].by # b
      BY <1>5, <3>1
    <3> QED
      BY <3>1, <3>2 DEF Invited
  <2> QED
    BY <2>1, <2>2
<1>7. \A u : Filling(u)' \subseteq IF u = v THEN Filling(u) \cup {t} ELSE Filling(u)
  BY <1>4 DEF Filling
<1>8. /\ DOMAIN users' = DOMAIN users /\ users'[v].started = users[v].started
      /\ users'[v].together = (users[v].together \/ FormUnderWay(c))
      /\ \A u \in DOMAIN users \ {v} : users'[u] = users[u]
  <2>1. users[v] \in User
    BY UserRowTypes DEF UInv
  <2> QED
    BY <1>3, <2>1 DEF User
<1>9. \A u \in DOMAIN users : RowGoesOn(u)
  BY <1>8, UserRowTypes DEF UInv, RowGoesOn
<1>10. ASSUME NEW u \in DOMAIN users, u # v PROVE Within(u)'
  <2>1. Within(u) /\ Filling(u)' \subseteq Filling(u)
    BY <1>7, <1>10 DEF AllowanceInv
  <2> QED
    BY <1>6, <1>9, <2>1, NothingGained
<1>11. Within(v)'
  <2>1. c \notin Invited(v)'
    <3>1. UnderWay(t, v)'
      BY <1>4 DEF UnderWay
    <3> QED
      BY <1>4, <3>1 DEF Invited
  <2>2. users'[v].together \/ c \in Invited(v)
    <3>1. ~FormUnderWay(c) => \A w \in UserThreads : UnderWay(w, v) => req[w].by # c
      BY DEF FormUnderWay, UnderWay
    <3>2. ~FormUnderWay(c) => c \in Invited(v)
      BY <1>2, <3>1 DEF Invited
    <3> QED
      BY <1>8, <3>2
  <2>3. Within(v) /\ Filling(v)' \subseteq Filling(v) \cup {t}
    BY <1>7 DEF AllowanceInv
  <2>4. Invited(v)' \subseteq Invited(v) \ {c}
    BY <1>6, <2>1
  <2> QED
    BY <1>6, <1>9, <2>2, <2>3, <2>4, OneTaken
<1> QED
  BY <1>1, <1>8, <1>10, <1>11 DEF AllowanceInv

\* A second form is answered before it has added an account: its browser, if it is
\* still registering this user, may send it again.
LEMMA GiveBackAllowance ==
    ASSUME UInv, AllowanceInv, NEW t \in UserThreads, req[t].pc \in {"verify", "add"},
           Answer(t), UNCHANGED <<users, accountRows, session, form>>
    PROVE  AllowanceInv'
<1>1. PICK v \in DOMAIN users, c \in Browsers : v = req[t].user /\ c = req[t].by
  <2>1. req[t] \in Finish /\ SettingsOK(t)
    BY FinishIsFinish DEF UInv
  <2> QED
    BY <2>1 DEF Finish, SettingsOK
<1>2. req'[t].pc = "idle" /\ \A w \in UserThreads \ {t} : req'[w] = req[w]
  BY DEF Answer, NoRequest, UInv, UsersTypeOK
<1>3. \A u : Filling(u)' \subseteq Filling(u) \ {t} /\ AccountsOf(u)' = AccountsOf(u)
  BY <1>2 DEF Filling, AccountsOf
<1>4. t \in Filling(v)
  BY <1>1 DEF Filling
<1>5. \A w \in UserThreads \ {t} : \A u : UnderWay(w, u) => UnderWay(w, u)' /\ req'[w] = req[w]
  BY <1>2 DEF UnderWay
<1>6. \A u : Invited(u)' \subseteq IF u = v THEN Invited(u) \cup {c} ELSE Invited(u)
  <2>1. SUFFICES ASSUME NEW u, NEW b \in Invited(u)', ~(u = v /\ b = c) PROVE b \in Invited(u)
    OBVIOUS
  <2>2. /\ b \in Browsers /\ session[b].registering.user = u
        /\ \A w \in UserThreads : UnderWay(w, u)' => req'[w].by # b
    BY <2>1 DEF Invited
  <2>3. \A w \in UserThreads \ {t} : UnderWay(w, u) => req[w].by # b
    BY <1>5, <2>2
  <2>4. UnderWay(t, u) => req[t].by # b
    BY <1>1, <2>1 DEF UnderWay
  <2> QED
    BY <2>2, <2>3, <2>4 DEF Invited
<1>7. \A u \in DOMAIN users : RowGoesOn(u)
  BY RowsGoOn
<1>8. ASSUME NEW u \in DOMAIN users, u # v PROVE Within(u)'
  <2>1. Within(u) /\ Invited(u)' \subseteq Invited(u) /\ Filling(u)' \subseteq Filling(u)
    BY <1>3, <1>6, <1>8 DEF AllowanceInv
  <2> QED
    BY <1>3, <1>7, <2>1, NothingGained
<1>9. Within(v)'
  <2>1. Within(v) /\ Invited(v)' \subseteq Invited(v) \cup {c}
    BY <1>6 DEF AllowanceInv
  <2> QED
    BY <1>3, <1>4, <1>7, <2>1, OneGivenUp
<1> QED
  BY <1>8, <1>9 DEF AllowanceInv

LEMMA VerifyAllowance ==
    ASSUME UInv, AllowanceInv, NEW t \in UserThreads, VerifyAccount(t)
    PROVE  AllowanceInv'
<1>1. req[t].pc = "verify" /\ UNCHANGED <<users, accountRows, session, form>>
  BY DEF VerifyAccount, At
<1>2. CASE Answer(t)
  BY <1>1, <1>2, GiveBackAllowance
<1>3. CASE Goto(t, "add")
  <2>1. req[t] \in Finish
    BY <1>1, FinishIsFinish DEF UInv
  <2>2. /\ req'[t].pc = "add" /\ req'[t].user = req[t].user /\ req'[t].by = req[t].by
        /\ \A w \in UserThreads \ {t} : req'[w] = req[w]
    BY <1>3, <2>1 DEF Goto, UInv, UsersTypeOK, Finish
  <2>3. \A u : Filling(u)' \subseteq Filling(u)
    BY <1>1, <2>2 DEF Filling
  <2>4. \A w \in UserThreads : \A u : UnderWay(w, u) => UnderWay(w, u)' /\ req'[w].by = req[w].by
    BY <1>1, <2>2 DEF UnderWay
  <2>5. \A u : Invited(u)' \subseteq Invited(u)
    <3>1. SUFFICES ASSUME NEW u, NEW b \in Invited(u)' PROVE b \in Invited(u)
      OBVIOUS
    <3>2. /\ b \in Browsers /\ session[b].registering.user = u
          /\ \A w \in UserThreads : UnderWay(w, u)' => req'[w].by # b
      BY <1>1, <3>1 DEF Invited
    <3>3. \A w \in UserThreads : UnderWay(w, u) => req[w].by # b
      BY <2>4, <3>2
    <3> QED
      BY <3>2, <3>3 DEF Invited
  <2>6. \A u : AccountsOf(u)' = AccountsOf(u)
    BY <1>1 DEF AccountsOf
  <2>7. \A u \in DOMAIN users : Within(u)'
    BY <1>1, <2>3, <2>5, <2>6, RowsGoOn, NothingGained DEF AllowanceInv
  <2> QED
    BY <1>1, <2>7 DEF AllowanceInv
<1> QED
  BY <1>2, <1>3 DEF VerifyAccount

\* The account is there: the allowance is used up.
LEMMA AddAccountAllowance ==
    ASSUME UInv, AllowanceInv, NEW t \in UserThreads, AddAccount(t)
    PROVE  AllowanceInv'
<1>1. req[t].pc = "add" /\ UNCHANGED <<users, session, form>> /\ req[t] \in Finish
  BY FinishIsFinish DEF AddAccount, At, UInv
<1>2. PICK v \in DOMAIN users : v = req[t].user
  BY <1>1 DEF UInv, SettingsOK
<1>3. PICK new : new = Len(accountRows) + 1
  OBVIOUS
<1>4. /\ DOMAIN accountRows' = DOMAIN accountRows \cup {new}
      /\ \A i \in DOMAIN accountRows : accountRows'[i] = accountRows[i]
  BY <1>3, AddedAccount
<1>5. new \notin DOMAIN accountRows /\ accountRows'[new].user = v
  <2>1. accountRows \in Seq(AccountRow)
    BY DEF UInv, UsersTypeOK
  <2>2. Len(accountRows) \in Nat /\ DOMAIN accountRows = 1..Len(accountRows)
    BY <2>1, LenProperties
  <2> QED
    BY <1>2, <1>3, <2>1, <2>2 DEF AddAccount, InsertAccount
<1>6. \A u : AccountsOf(u)' \subseteq IF u = v THEN AccountsOf(u) \cup {new} ELSE AccountsOf(u)
  BY <1>4, <1>5 DEF AccountsOf
<1>7. /\ req'[t].pc = "clear" /\ req'[t].user = v /\ req'[t].by = req[t].by
      /\ \A w \in UserThreads \ {t} : req'[w] = req[w]
  BY <1>1, <1>2 DEF AddAccount, Goto, UInv, UsersTypeOK, Finish
<1>8. \A u : Filling(u)' \subseteq Filling(u) \ {t}
  BY <1>7 DEF Filling
<1>9. t \in Filling(v)
  BY <1>1, <1>2 DEF Filling
<1>10. \A w \in UserThreads : \A u : UnderWay(w, u) => UnderWay(w, u)' /\ req'[w].by = req[w].by
  BY <1>1, <1>2, <1>7 DEF UnderWay
<1>11. \A u : Invited(u)' \subseteq Invited(u)
  <2>1. SUFFICES ASSUME NEW u, NEW b \in Invited(u)' PROVE b \in Invited(u)
    OBVIOUS
  <2>2. /\ b \in Browsers /\ session[b].registering.user = u
        /\ \A w \in UserThreads : UnderWay(w, u)' => req'[w].by # b
    BY <1>1, <2>1 DEF Invited
  <2>3. \A w \in UserThreads : UnderWay(w, u) => req[w].by # b
    BY <1>10, <2>2
  <2> QED
    BY <2>2, <2>3 DEF Invited
<1>12. \A u \in DOMAIN users : RowGoesOn(u)
  BY <1>1, RowsGoOn
<1>13. ASSUME NEW u \in DOMAIN users, u # v PROVE Within(u)'
  <2>1. Within(u) /\ AccountsOf(u)' \subseteq AccountsOf(u) /\ Filling(u)' \subseteq Filling(u)
    BY <1>6, <1>8, <1>13 DEF AllowanceInv
  <2> QED
    BY <1>11, <1>12, <2>1, NothingGained
<1>14. Within(v)'
  <2>1. Within(v) /\ AccountsOf(v)' \subseteq AccountsOf(v) \cup {new}
    BY <1>6 DEF AllowanceInv
  <2> QED
    BY <1>8, <1>9, <1>11, <1>12, <2>1, OneGivenUp
<1>15. \A i \in DOMAIN accountRows' : accountRows'[i].user \in DOMAIN users
  BY <1>4, <1>5 DEF AllowanceInv
<1> QED
  BY <1>1, <1>13, <1>14, <1>15 DEF AllowanceInv

\* The session forgets that it was registering.
LEMMA ClearAllowance ==
    ASSUME UInv, AllowanceInv, NEW t \in UserThreads, ClearRegistering(t)
    PROVE  AllowanceInv'
<1>1. /\ req[t].pc = "clear" /\ UNCHANGED <<users, accountRows>> /\ Answer(t)
      /\ req[t] \in Finish
  BY FinishIsFinish DEF ClearRegistering, At, UInv
<1>2. PICK c \in Browsers : c = req[t].by
  BY <1>1 DEF Finish
<1>3. /\ session'[c].registering.user = 0
      /\ \A b \in Browsers \ {c} : session'[b].registering = session[b].registering
  <2>1. session' = [session EXCEPT ![c].registering = Nobody]
    BY <1>2 DEF ClearRegistering
  <2> QED
    BY <2>1 DEF UInv, UsersTypeOK, Session, Nobody
<1>4. req'[t].pc = "idle" /\ \A w \in UserThreads \ {t} : req'[w] = req[w]
  BY <1>1 DEF Answer, NoRequest, UInv, UsersTypeOK
<1>5. ASSUME NEW u \in DOMAIN users PROVE Within(u)'
  <2>1. u # 0
    BY UserRowTypes DEF UInv
  <2>2. Filling(u)' \subseteq Filling(u)
    BY <1>4 DEF Filling
  <2>3. Invited(u)' \subseteq Invited(u)
    <3>1. SUFFICES ASSUME NEW b \in Invited(u)' PROVE b \in Invited(u)
      OBVIOUS
    <3>2. /\ b \in Browsers /\ session'[b].registering.user = u
          /\ \A w \in UserThreads : UnderWay(w, u)' => req'[w].by # b
      BY <3>1 DEF Invited
    <3>3. b # c /\ session[b].registering.user = u
      BY <1>3, <2>1, <3>2
    <3>4. \A w \in UserThreads \ {t} : UnderWay(w, u) => req[w].by # b
      BY <1>4, <3>2 DEF UnderWay
    <3> QED
      BY <1>2, <3>2, <3>3, <3>4 DEF Invited
  <2>4. AccountsOf(u)' = AccountsOf(u)
    BY <1>1 DEF AccountsOf
  <2> QED
    BY <1>1, <2>2, <2>3, <2>4, RowsGoOn, NothingGained DEF AllowanceInv
<1> QED
  BY <1>1, <1>5 DEF AllowanceInv

\* A session or the server ends.
LEMMA EndsAllowance ==
    ASSUME UInv, AllowanceInv, Restart \/ \E b \in Browsers : SessionEnds(b)
    PROVE  AllowanceInv'
<1>1. /\ UNCHANGED <<users, accountRows>>
      /\ UNCHANGED req \/ \A t \in UserThreads : req'[t] = NoRequest
      /\ \A b \in Browsers : session'[b] = session[b] \/ session'[b] = NewSession
      /\ UNCHANGED req \/ \A b \in Browsers : session'[b] = NewSession
  BY DEF Restart, SessionEnds, UInv, UsersTypeOK
<1>2. NewSession.registering.user = 0 /\ NoRequest.pc = "idle"
  BY DEF NewSession, Nobody, NoRequest
<1>3. ASSUME NEW u \in DOMAIN users PROVE Within(u)'
  <2>1. u # 0
    BY UserRowTypes DEF UInv
  <2>2. Filling(u)' \subseteq Filling(u)
    BY <1>1, <1>2 DEF Filling
  <2>3. Invited(u)' \subseteq Invited(u)
    BY <1>1, <1>2, <2>1 DEF Invited, UnderWay
  <2>4. AccountsOf(u)' = AccountsOf(u)
    BY <1>1 DEF AccountsOf
  <2> QED
    BY <1>1, <2>2, <2>3, <2>4, RowsGoOn, NothingGained DEF AllowanceInv
<1> QED
  BY <1>1, <1>3 DEF AllowanceInv

LEMMA AllowanceStep ==
    UInv /\ UInv' /\ AllowanceInv /\ [UsersNext]_usersVars => AllowanceInv'
<1> SUFFICES ASSUME UInv, UInv', AllowanceInv, [UsersNext]_usersVars PROVE AllowanceInv'
  OBVIOUS
<1>1. CASE UNCHANGED usersVars
  <2>1. SecondFormsStay
    BY <1>1 DEF usersVars, SecondFormsStay, UnderWay
  <2> QED
    BY <1>1, <2>1, RowsGoOn, OtherStep DEF usersVars
<1>2. CASE Restart \/ \E b \in Browsers : OpenSettings(b) \/ SessionEnds(b)
  BY <1>2, EndsAllowance, OpenAllowance
<1>3. ASSUME NEW t \in UserThreads,
             \/ FindUser(t) \/ LookForAccount(t) \/ AddUser(t) \/ LookUpAddedUser(t)
             \/ JumpToNextStep(t) \/ VerifyAccount(t) \/ AddAccount(t) \/ ClearRegistering(t)
             \/ CheckLogin(t) \/ EnterSession(t)
             \/ SaveAccountRow(t) \/ CheckPassword(t) \/ ChangePassword(t) \/ RequestFails(t)
      PROVE  AllowanceInv'
  <2>1. CASE RequestFails(t) /\ req[t].pc = "add"
    BY <2>1, GiveBackAllowance DEF RequestFails
  <2> QED
    BY <1>3, <2>1, QuietStep, AddUserAllowance, JumpAllowance, VerifyAllowance,
       AddAccountAllowance, ClearAllowance, EnterAllowance, SaveAllowance, ChangeAllowance
<1>4. ASSUME NEW t \in UserThreads, NEW b \in Browsers,
             \/ \E log \in LoginIds, pass \in Passwords :
                    Register(t, b, log, pass) \/ Login(t, b, log, pass)
             \/ \E mailbox \in Mailboxes :
                \/ RegisterNext(t, b, mailbox)
                \/ \E typed \in BOOLEAN, pass \in Passwords,
                      change \in Passwords \cup {NoPassword} :
                    SaveSettings(t, b, mailbox, typed, pass, change)
      PROVE  AllowanceInv'
  BY <1>4, BeginStep, RegisterNextAllowance
<1> QED
  BY <1>1, <1>2, <1>3, <1>4 DEF UsersNext

\* Whatever fails, is sent again or restarts, and however many browsers there are, a user
\* has no more accounts than first forms that succeeded, unless one browser has sent two
\* second forms at once.
THEOREM OneAccountPerFirstForm == UsersSpec => []AccountPerFirstForm
<1>1. UsersInit => AllowanceInv
  <2>1. DOMAIN << >> = {}
    OBVIOUS
  <2> QED
    BY <2>1 DEF UsersInit, AllowanceInv
<1>2. UInv /\ AllowanceInv => AccountPerFirstForm
  <2> SUFFICES ASSUME UInv, AllowanceInv, NEW u \in DOMAIN users, ~users[u].together
               PROVE  Cardinality(AccountsOf(u)) <= users[u].started
    BY DEF AccountPerFirstForm
  <2>1. Within(u) /\ users[u].started \in Nat
    BY UserRowTypes DEF AllowanceInv, UInv
  <2>2. /\ Cardinality(AccountsOf(u)) \in Nat /\ Cardinality(Filling(u)) \in Nat
        /\ Cardinality(Invited(u)) \in Nat
    BY <2>1, ThreeSets
  <2>3. Cardinality(AccountsOf(u)) + Cardinality(Filling(u)) + Cardinality(Invited(u))
            <= users[u].started
    BY <2>1 DEF Within
  <2> QED
    BY <2>1, <2>2, <2>3
<1>3. UsersSpec => []AllowanceInv
  BY <1>1, UInvAlways, AllowanceStep, PTL DEF UsersSpec
<1> QED
  BY <1>2, <1>3, UInvAlways, PTL
====
