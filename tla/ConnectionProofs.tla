---- MODULE ConnectionProofs ----
(***************************************************************************)
(* Proofs about Connection: the types, which connections a finished        *)
(* request may leave open, that an ok is earned, and that the client stays *)
(* in step with a server that answers one line where it reads one.         *)
(***************************************************************************)
EXTENDS Connection, SequenceTheorems, TLAPS

----
(* Types *)

\* The client's variables only: the replies do not disturb these.
ClientTypeOK ==
    /\ job \in Jobs
    /\ command \in Commands
    /\ phase \in {"write", "status", "rest", "body", "done"}
    /\ listed \in Nat /\ todo \in 0..listed
    /\ socket \in {"none", "open", "closed"}
    /\ answer \in (IF phase = "done" THEN {"ok", "error"} ELSE {"none"})
    /\ failed \in BOOLEAN

ServerTypeOK ==
    /\ server \in {"listens", "takesData", "gone"}
    /\ asked \in Seq(Commands)
    /\ wire \in Seq(Lines)
    /\ {taken, loggedIn, wordy} \subseteq BOOLEAN

\* Which job writes which command, and what the dialogue has got to.
Dialogue ==
    /\ command \in {"USER", "PASS"} => job \in Pop
    /\ command \in {"UIDL", "RETR"} => job = "sync"
    /\ command \in {"HELO", "AUTH", "NAME", "PASSWORD"} => job \in {"send", "verifySmtp"}
    /\ command \in {"MAIL", "RCPT", "DATA", "DOT"} => job = "send"
    /\ command = "QUIT" => job # "verifySmtp"
    /\ command = "UIDL" /\ phase \in {"write", "status"} => listed = 0
    /\ command \notin {"UIDL", "RETR", "QUIT"} => listed = 0
    /\ command = "RETR" /\ phase # "done" => todo >= 1
    /\ job = "sync" => ~failed
    /\ failed => command = "QUIT"
    /\ job = "sync" /\ command \in {"RETR", "QUIT"} => listed > 0
    /\ phase = "body" => command = "RETR"
    /\ phase = "rest" => command \in {"UIDL", "RETR", "HELO"}
    /\ phase # "done" => socket = "open"
    /\ phase = "write" => command # "GREETING"

ClientInv == ClientTypeOK /\ Dialogue /\ ClosedUnlessNamed

ConnInv == ClientInv /\ ServerTypeOK

clientVars == <<job, command, phase, listed, todo, socket, failed, answer>>

\* An exception, wherever it goes, keeps the client's part.
LEMMA RaiseKeepsClient ==
  ASSUME ClientInv, phase # "done", NEW e \in {"IO", "runtime"}, Raise(e),
         phase = "write" => command # "GREETING"
  PROVE  ClientInv'
  <1> USE DEF ClientInv, Raise, Throw
  <1>1. ClientTypeOK'
    BY DEF ClientTypeOK, Done, Quit, Commands, Jobs
  <1>2. Dialogue'
    BY DEF ClientTypeOK, Dialogue, Done, Quit, Jobs, Pop
  <1>3. ClosedUnlessNamed'
    BY DEF ClientTypeOK, Dialogue, ClosedUnlessNamed, Done, Quit, Jobs, Pop, Commands
  <1>4. QED
    BY <1>1, <1>2, <1>3

\* So does a reply that is read to its end.
LEMMA ProceedKeepsClient ==
  ASSUME ClientInv, phase # "done", command # "UIDL", Proceed
  PROVE  ClientInv'
  <1> USE DEF ClientInv, Proceed
  <1>1. ClientTypeOK'
    BY DEF ClientTypeOK, Dialogue, Disconnect, Done, After, NextCommand, Commands, Jobs
  <1>2. Dialogue'
    BY DEF ClientTypeOK, Dialogue, Disconnect, Done, After, NextCommand, Commands, Jobs, Pop
  <1>3. ClosedUnlessNamed'
    BY DEF ClientTypeOK, Dialogue, ClosedUnlessNamed, Disconnect, Done, After, NextCommand, Commands, Jobs, Pop
  <1>4. QED
    BY <1>1, <1>2, <1>3

LEMMA ReadsKeepsClient ==
  ASSUME ClientInv, phase # "done",
         NEW next \in {"rest", "body"}, Reads(next),
         next = "body" => command = "RETR",
         next = "rest" => command \in {"UIDL", "RETR", "HELO"}
  PROVE  ClientInv'
  BY DEF ClientInv, ClientTypeOK, Dialogue, ClosedUnlessNamed, Reads, Commands, Jobs, Pop

LEMMA ReadStatusKeepsClient ==
  ASSUME ClientInv, NEW line \in Lines, ReadStatus(line)
  PROVE  ClientInv'
  <1>1. phase = "status" /\ phase # "done" /\ phase # "write"
    BY DEF ReadStatus
  <1>2. CASE line.is = "-ERR"
    <2>1. Raise("runtime")
      BY <1>2 DEF ReadStatus
    <2>2. QED
      BY <2>1, <1>1, RaiseKeepsClient
  <1>3. CASE line.is # "-ERR" /\ ~IsPositive(line)
    <2>1. Raise("IO")
      BY <1>3 DEF ReadStatus
    <2>2. QED
      BY <2>1, <1>1, RaiseKeepsClient
  <1>4. CASE line.is # "-ERR" /\ IsPositive(line)
    <2>1. CASE command \in {"UIDL", "RETR"} \/ ~Complete(line)
      <3>1. Reads("rest")
        BY <1>4, <2>1 DEF ReadStatus
      <3>2. command \in {"UIDL", "RETR", "HELO"}
        BY <2>1 DEF Complete
      <3>3. QED
        BY <1>1, <3>1, <3>2, ReadsKeepsClient
    <2>2. CASE command \notin {"UIDL", "RETR"} /\ Complete(line)
      <3>1. Proceed
        BY <1>4, <2>2 DEF ReadStatus
      <3>2. QED
        BY <1>1, <2>2, <3>1, ProceedKeepsClient
    <2>3. QED
      BY <2>1, <2>2
  <1>5. QED
    BY <1>2, <1>3, <1>4

LEMMA ReadListKeepsClient ==
  ASSUME ClientInv, NEW line \in Lines, ReadList(line)
  PROVE  ClientInv'
  <1> USE DEF ClientInv, ReadList
  <1>1. ClientTypeOK'
    BY DEF ClientTypeOK, Done, Commands, Jobs
  <1>2. Dialogue'
    BY DEF ClientTypeOK, Dialogue, Done, Jobs, Pop
  <1>3. ClosedUnlessNamed'
    BY DEF ClientTypeOK, Dialogue, ClosedUnlessNamed, Done, Jobs, Pop
  <1>4. QED
    BY <1>1, <1>2, <1>3

LEMMA ReadLineKeepsClient ==
  ASSUME ClientInv, ServerTypeOK, ReadLine
  PROVE  ClientInv'
  <1> DEFINE line == Head(wire)
  <1>1. line \in Lines
    BY DEF ReadLine, ServerTypeOK
  <1>2. CASE ReadStatus(line)
    BY <1>1, <1>2, ReadStatusKeepsClient
  <1>3. CASE ReadList(line)
    BY <1>1, <1>3, ReadListKeepsClient
  <1>4. CASE ReadHeader(line)
    BY <1>4, ReadsKeepsClient DEF ReadHeader
  <1>5. CASE ReadBody(line)
    <2>1. phase = "body" /\ command = "RETR"
      BY <1>5 DEF ReadBody, ClientInv, Dialogue
    <2>2. QED
      BY <1>5, <2>1, ReadsKeepsClient, ProceedKeepsClient DEF ReadBody
  <1>6. CASE ReadHelo(line)
    BY <1>6, ReadsKeepsClient, ProceedKeepsClient DEF ReadHelo
  <1>7. QED
    BY <1>2, <1>3, <1>4, <1>5, <1>6 DEF ReadLine

LEMMA ReadEndKeepsClient ==
  ASSUME ClientInv, ReadEnd
  PROVE  ClientInv'
  <1>1. phase # "done" /\ phase # "write"
    BY DEF ReadEnd
  <1>2. CASE Raise("IO") \/ Raise("runtime")
    BY <1>1, <1>2, RaiseKeepsClient
  <1>3. CASE command \in {"GREETING", "USER", "QUIT"} /\ Proceed
    BY <1>1, <1>3, ProceedKeepsClient
  <1>4. CASE command = "UIDL" /\ phase = "status" /\ UNCHANGED socket /\ Done("ok")
    BY <1>4 DEF ClientInv, ClientTypeOK, Dialogue, ClosedUnlessNamed, Done, Jobs, Pop, Commands
  <1>5. CASE command = "RETR" /\ Reads("rest")
    BY <1>1, <1>5, ReadsKeepsClient
  <1>6. QED
    BY <1>2, <1>3, <1>4, <1>5 DEF ReadEnd, ReadNull

LEMMA WriteKeepsClient ==
  ASSUME ClientInv, WriteCommand
  PROVE  ClientInv'
  <1>1. phase = "write" /\ command # "GREETING"
    BY DEF WriteCommand, ClientInv, Dialogue
  <1>2. CASE Raise("IO")
    BY <1>1, <1>2, RaiseKeepsClient
  <1>3. CASE phase' = "status" /\ UNCHANGED <<job, command, listed, todo, socket, failed, answer>>
    BY <1>1, <1>3 DEF ClientInv, ClientTypeOK, Dialogue, ClosedUnlessNamed, Commands, Jobs, Pop
  <1>4. QED
    BY <1>2, <1>3 DEF WriteCommand

LEMMA ClientStays ==
  ASSUME ClientInv, UNCHANGED clientVars
  PROVE  ClientInv'
  BY DEF ClientInv, clientVars, ClientTypeOK, Dialogue, ClosedUnlessNamed

\* Every step keeps the client's part.
LEMMA NextKeepsClient ==
  ASSUME ClientInv, ServerTypeOK, [ConnNext]_connVars
  PROVE  ClientInv'
  <1>1. CASE Server \/ HangsUp \/ UNCHANGED connVars
    <2>1. UNCHANGED clientVars
      BY <1>1 DEF Server, Accepts, Refuses, Lists, Delivers, TakesAsText, HangsUp, connVars,
                  clientVars, serverRest
    <2>2. QED
      BY <2>1, ClientStays
  <1>2. CASE WriteCommand
    BY <1>2, WriteKeepsClient
  <1>3. CASE LetterFails
    BY <1>3, RaiseKeepsClient DEF LetterFails
  <1>4. CASE ReadLine
    BY <1>4, ReadLineKeepsClient
  <1>5. CASE ReadEnd
    BY <1>5, ReadEndKeepsClient
  <1>6. CASE NextJob
    <2>1. ClientTypeOK'
      <3>1. command' \in Commands /\ job' \in Jobs
        BY <1>6 DEF NextJob, Commands
      <3>2. listed' \in Nat /\ todo' \in 0..listed'
        BY <1>6 DEF NextJob
      <3>3. /\ answer' \in (IF phase' = "done" THEN {"ok", "error"} ELSE {"none"})
            /\ phase' \in {"write", "status", "rest", "body", "done"}
        BY <1>6 DEF NextJob
      <3>4. socket' \in {"none", "open", "closed"} /\ failed' \in BOOLEAN
        BY <1>6 DEF NextJob
      <3>5. QED
        BY <3>1, <3>2, <3>3, <3>4 DEF ClientTypeOK
    <2>2. Dialogue' /\ ClosedUnlessNamed'
      BY <1>6 DEF NextJob, Dialogue, ClosedUnlessNamed
    <2>3. QED
      BY <2>1, <2>2 DEF ClientInv
  <1>7. QED
    BY <1>1, <1>2, <1>3, <1>4, <1>5, <1>6 DEF ConnNext, Client

----
(* The server's part *)

LEMMA LinesAreLines ==
  ASSUME NEW c \in Commands
  PROVE  /\ Line(Positive(c)) \in Lines /\ Dashed(Positive(c)) \in Lines
         /\ Line(Negative) \in Lines
  BY DEF Line, Dashed, Positive, Negative, Lines, Statuses, Commands

LEMMA SendsKeepsWire ==
  ASSUME ServerTypeOK, NEW lines \in Seq(Lines), Sends(lines)
  PROVE  wire' \in Seq(Lines)
  BY DEF ServerTypeOK, Sends

LEMMA ServerKeepsServer ==
  ASSUME ServerTypeOK, Server
  PROVE  ServerTypeOK'
  <1>1. ASSUME NEW c \in Commands, Takes(c)
        PROVE  asked' \in Seq(Commands)
    BY <1>1 DEF Takes, ServerTypeOK
  <1>2. CASE Accepts
    <2>1. PICK c \in Commands \ {"UIDL", "RETR"} : Accepts!(c)
      BY <1>2 DEF Accepts
    <2>2. wire' \in Seq(Lines)
      <3>1. /\ <<Line(Positive(c))>> \in Seq(Lines)
            /\ <<Dashed(Positive(c)), Line(Positive(c))>> \in Seq(Lines)
        BY LinesAreLines
      <3>2. QED
        BY <2>1, <3>1, SendsKeepsWire
    <2>3. wordy' \in BOOLEAN
      BY <2>1 DEF ServerTypeOK
    <2>4. QED
      BY <1>1, <2>1, <2>2, <2>3 DEF ServerTypeOK
  <1>3. CASE Refuses
    <2>1. PICK c \in Commands : Refuses!(c)
      BY <1>3 DEF Refuses
    <2>2. wire' \in Seq(Lines)
      <3>1. <<Line(Negative)>> \in Seq(Lines)
        BY LinesAreLines
      <3>2. QED
        BY <2>1, <3>1, SendsKeepsWire
    <2>3. QED
      BY <1>1, <2>1, <2>2 DEF ServerTypeOK
  <1>4. CASE Lists
    <2>1. PICK n \in 0..MaxMessages : Lists!(n)
      BY <1>4 DEF Lists
    <2>2. n \in Nat
      BY <2>1, ConnectionAssumption
    <2>3. <<Line("+OK")>> \o [i \in 1..n |-> Line("entry")] \o <<Line("dot")>> \in Seq(Lines)
      BY <2>2 DEF Line, Lines, Statuses
    <2>4. wire' \in Seq(Lines)
      BY <2>1, <2>3, SendsKeepsWire
    <2>5. QED
      BY <1>1, <2>1, <2>4 DEF ServerTypeOK, Commands
  <1>5. CASE Delivers
    <2>1. PICK rest \in {<< >>, <<Line("blank")>>, <<Line("blank"), Line("text")>>} : Delivers!(rest)
      BY <1>5 DEF Delivers
    <2>2. <<Line("+OK"), Line("header")>> \o rest \o <<Line("dot")>> \in Seq(Lines)
      <3>1. \A is \in {"+OK", "header", "blank", "text", "dot"} : Line(is) \in Lines
        BY DEF Line, Lines, Statuses
      <3>2. rest \in Seq(Lines)
        <4>1. CASE rest = << >>
          BY <4>1
        <4>2. CASE rest = <<Line("blank")>>
          BY <3>1, <4>2
        <4>3. CASE rest = <<Line("blank"), Line("text")>>
          BY <3>1, <4>3
        <4>4. QED
          BY <2>1, <4>1, <4>2, <4>3
      <3>3. <<Line("+OK"), Line("header")>> \in Seq(Lines) /\ <<Line("dot")>> \in Seq(Lines)
        BY <3>1
      <3>4. QED
        BY <3>2, <3>3, ConcatProperties
    <2>3. wire' \in Seq(Lines)
      BY <2>1, <2>2, SendsKeepsWire
    <2>4. QED
      BY <1>1, <2>1, <2>3 DEF ServerTypeOK, Commands
  <1>6. CASE TakesAsText
    BY <1>1, <1>6 DEF TakesAsText, ServerTypeOK
  <1>7. QED
    BY <1>2, <1>3, <1>4, <1>5, <1>6 DEF Server

LEMMA NextKeepsServer ==
  ASSUME ClientInv, ServerTypeOK, [ConnNext]_connVars
  PROVE  ServerTypeOK'
  <1>1. CASE Server
    BY <1>1, ServerKeepsServer
  <1>2. CASE UNCHANGED connVars
    BY <1>2 DEF connVars, ServerTypeOK
  <1>3. CASE HangsUp
    <2>1. asked' \in Seq(Commands)
      BY <1>3 DEF HangsUp
    <2>2. QED
      BY <1>3, <2>1 DEF HangsUp, ServerTypeOK
  <1>4. CASE NextJob
    <2>1. asked' \in Seq(Commands) /\ wire' \in Seq(Lines)
      BY <1>4 DEF NextJob, Commands
    <2>2. /\ server' \in {"listens", "takesData", "gone"}
          /\ {taken', loggedIn', wordy'} \subseteq BOOLEAN
      BY <1>4 DEF NextJob
    <2>3. QED
      BY <2>1, <2>2 DEF ServerTypeOK
  <1>5. CASE LetterFails \/ ReadEnd
    BY <1>5 DEF LetterFails, ReadEnd, serverVars, ServerTypeOK
  <1>6. CASE WriteCommand
    BY <1>6 DEF WriteCommand, ServerTypeOK, ClientInv, ClientTypeOK
  <1>7. CASE ReadLine
    BY <1>7 DEF ReadLine, serverVars, ServerTypeOK
  <1>8. QED
    BY <1>1, <1>2, <1>3, <1>4, <1>5, <1>6, <1>7 DEF ConnNext, Client

LEMMA InitConnInv == ConnInit => ConnInv
  <1> SUFFICES ASSUME ConnInit PROVE ConnInv
    OBVIOUS
  <1>1. ClientTypeOK /\ ServerTypeOK
    <2>1. command \in Commands /\ job \in Jobs
      BY DEF ConnInit, Commands
    <2>2. /\ answer \in (IF phase = "done" THEN {"ok", "error"} ELSE {"none"})
          /\ phase \in {"write", "status", "rest", "body", "done"}
      BY DEF ConnInit
    <2>3. listed \in Nat /\ todo \in 0..listed
      BY DEF ConnInit
    <2>4. socket \in {"none", "open", "closed"} /\ failed \in BOOLEAN
      BY DEF ConnInit
    <2>5. asked \in Seq(Commands) /\ wire \in Seq(Lines)
      BY DEF ConnInit, Commands
    <2>6. /\ server \in {"listens", "takesData", "gone"}
          /\ {taken, loggedIn, wordy} \subseteq BOOLEAN
      BY DEF ConnInit
    <2>7. QED
      BY <2>1, <2>2, <2>3, <2>4, <2>5, <2>6 DEF ClientTypeOK, ServerTypeOK
  <1>2. Dialogue /\ ClosedUnlessNamed
    BY DEF ConnInit, Dialogue, ClosedUnlessNamed
  <1>3. QED
    BY <1>1, <1>2 DEF ConnInv, ClientInv

LEMMA ConnInvInvariant == ConnSpec => []ConnInv
  <1>1. ConnInv /\ [ConnNext]_connVars => ConnInv'
    BY NextKeepsClient, NextKeepsServer DEF ConnInv
  <1>2. QED
    BY <1>1, InitConnInv, PTL DEF ConnSpec

\* The variables keep their types: in particular the messages still to retrieve never
\* exceed those listed, and a caller has its answer when the request ends and not before
\* (doSyncMails, MailServiceImpl.java:180; SocketClient.java).
THEOREM TypesAreKept == ConnSpec => []ConnTypeOK
  <1>1. ConnInv => ConnTypeOK
    BY DEF ConnInv, ClientInv, ClientTypeOK, ServerTypeOK, ConnTypeOK
  <1>2. QED
    BY <1>1, ConnInvInvariant, PTL

\* A finished request has closed its connection, the paths without a close excepted that
\* the property names (MailSendPage.java:158, AccountServiceImpl.java:60,
\* MailServiceImpl.java:244).
THEOREM ConnectionsAreClosed == ConnSpec => []ClosedUnlessNamed
  <1>1. ConnInv => ClosedUnlessNamed
    BY DEF ConnInv, ClientInv
  <1>2. QED
    BY <1>1, ConnInvInvariant, PTL

----
(* An ok is earned *)

Has(s) == \E i \in 1..Len(wire) : wire[i].is = s
Asks(c) == \E i \in 1..Len(asked) : asked[i] = c

\* What is known of the login, whatever the replies were read for.
Login ==
    /\ Has("235") => loggedIn
    /\ job = "send" /\ phase # "done" /\ ~failed
          /\ command \in {"MAIL", "RCPT", "DATA", "DOT", "QUIT"} => loggedIn

\* A POP server answers USER, PASS and QUIT with one line: the client reads that line.
PopReplies ==
    job = "verifyPop" /\ phase # "done" =>
        /\ asked = << >> \/ (asked = <<command>> /\ phase = "status" /\ wire = << >>)
        /\ phase = "write" => wire = << >>
        /\ server = "gone" => asked = << >>
        /\ Len(wire) <= 1
        /\ command = "PASS" /\ wire # << >> /\ Head(wire).is # "-ERR" => loggedIn
        /\ command = "QUIT" /\ ~failed => loggedIn

BeforeData == server # "takesData" /\ ~Asks("DATA") /\ ~Asks("DOT") /\ ~Has("354")

\* The 354 for DATA brings a client that was out of step back into step.
Letter ==
    job = "send" /\ phase # "done" /\ ~failed =>
        /\ command \notin {"DATA", "DOT", "QUIT"} => BeforeData
        /\ command = "DATA" /\ phase = "write" => BeforeData
        /\ command = "DATA" /\ phase = "status" =>
              /\ ~Asks("DOT")
              /\ \A i \in 1..(Len(asked) - 1) : asked[i] # "DATA"
              /\ Has("354") \/ server = "takesData" => asked = << >>
              /\ \A i \in 1..(Len(wire) - 1) : wire[i] # Line("354")
        /\ command = "DOT" =>
              /\ phase \in {"write", "status"}
              /\ asked = << >> \/ (asked = <<"DOT">> /\ phase = "status" /\ wire = << >>)
              /\ phase = "write" => wire = << >>
              /\ Has("250") => taken
        /\ command = "QUIT" => taken

Earned == Login /\ PopReplies /\ Letter /\ OkIsEarned

\* What the client does to the two queues when it reads: nothing new appears.
Shrinks ==
    /\ wire' \in {wire, Tail(wire)} /\ (wire' # wire => wire # << >>)
    /\ UNCHANGED serverVars

LEMMA ShrinksHas ==
  ASSUME ServerTypeOK, Shrinks
  PROVE  /\ wire' \in Seq(Lines) /\ Len(wire') <= Len(wire)
         /\ \A s : Has(s)' => Has(s)
         /\ \A c : Asks(c)' <=> Asks(c)
         /\ (\A i \in 1..(Len(wire) - 1) : wire[i] # Line("354"))
               => (\A i \in 1..(Len(wire') - 1) : wire'[i] # Line("354"))
         /\ Len(wire) <= 1 /\ wire' # wire => wire' = << >>
  <1>1. CASE wire' = wire
    BY <1>1 DEF ServerTypeOK, Shrinks, Has, Asks, serverVars
  <1>2. CASE wire' = Tail(wire) /\ wire # << >>
    <2>1. /\ wire' \in Seq(Lines) /\ Len(wire') = Len(wire) - 1
          /\ \A i \in 1..Len(wire') : wire'[i] = wire[i + 1] /\ i + 1 \in 1..Len(wire)
      BY <1>2 DEF ServerTypeOK
    <2>2. \A s : Has(s)' => Has(s)
      BY <2>1 DEF Has
    <2>3. \A c : Asks(c)' <=> Asks(c)
      BY DEF Asks, Shrinks, serverVars
    <2>4. (\A i \in 1..(Len(wire) - 1) : wire[i] # Line("354"))
             => (\A i \in 1..(Len(wire') - 1) : wire'[i] # Line("354"))
      BY <2>1
    <2>5. Len(wire) <= 1 => wire' = << >>
      BY <2>1
    <2>6. QED
      BY <2>1, <2>2, <2>3, <2>4, <2>5
  <1>3. QED
    BY <1>1, <1>2 DEF Shrinks

LEMMA RaiseShape ==
  ASSUME ClientInv, phase # "done", NEW e \in {"IO", "runtime"}, Raise(e)
  PROVE  /\ job' = job
         /\ \/ phase' = "done" /\ answer' = "error"
            \/ phase' = "done" /\ job = "verifySmtp"
            \/ phase' = "done" /\ job = "verifyPop" /\ command = "QUIT" /\ ~failed
            \/ phase' = "write" /\ command' = "QUIT" /\ failed' /\ job \in {"verifyPop", "send"}
  BY DEF ClientInv, ClientTypeOK, Jobs, Raise, Throw, Done, Quit

LEMMA RaiseKeepsEarned ==
  ASSUME Earned, ClientInv, ServerTypeOK, phase # "done", NEW e \in {"IO", "runtime"}, Raise(e), Shrinks,
         job = "verifyPop" => wire' = << >> /\ asked = << >>
  PROVE  Earned'
  <1> USE RaiseShape
  <1>1. asked' = asked /\ loggedIn' = loggedIn
    BY DEF Shrinks, serverVars
  <1>2. Login'
    <2>1. Has("235")' => loggedIn'
      BY <1>1, ShrinksHas DEF Earned, Login
    <2>2. QED
      BY <2>1 DEF Login
  <1>3. PopReplies'
    BY <1>1 DEF PopReplies
  <1>4. Letter'
    BY DEF Letter
  <1>5. OkIsEarned'
    BY <1>1 DEF OkIsEarned, Earned, PopReplies
  <1>6. QED
    BY <1>2, <1>3, <1>4, <1>5 DEF Earned

LEMMA ProceedShape ==
  ASSUME ClientInv, phase # "done", command # "UIDL", Proceed
  PROVE  /\ job' = job /\ failed' = failed
         /\ \/ /\ phase' = "done" /\ command = "QUIT"
               /\ answer' = IF failed THEN "error" ELSE "ok"
            \/ phase' = "done" /\ job = "verifySmtp"
            \/ phase' = "write" /\ command # "QUIT" /\ command' = After(command)
  BY DEF ClientInv, ClientTypeOK, Proceed, Disconnect, Done

\* What follows what, for the two jobs that a later ok depends on.
LEMMA AfterShape ==
  ASSUME Dialogue, command \in Commands \ {"UIDL", "QUIT"}, phase # "done"
  PROVE  /\ job = "verifyPop" =>
              /\ After(command) \in {"USER", "PASS", "QUIT"}
              /\ After(command) = "QUIT" => command = "PASS"
         /\ job = "send" =>
              /\ After(command) = "DOT" <=> command = "DATA"
              /\ After(command) = "QUIT" <=> command = "DOT"
              /\ After(command) \in {"MAIL", "RCPT", "DATA", "DOT", "QUIT"} <=>
                   command \in {"PASSWORD", "MAIL", "RCPT", "DATA", "DOT"}
  BY DEF Dialogue, After, NextCommand, Pop, Commands

LEMMA ProceedKeepsEarned ==
  ASSUME Earned, ClientInv, ServerTypeOK, phase # "done", command # "UIDL", Proceed, Shrinks,
         job = "verifyPop" => wire' = << >> /\ asked = << >>,
         command = "PASSWORD" => loggedIn,
         command = "PASS" /\ job = "verifyPop" => loggedIn,
         command = "DATA" => wire' = << >> /\ asked = << >>,
         command = "DOT" => taken
  PROVE  Earned'
  <1> USE ProceedShape
  <1>1. /\ asked' = asked /\ loggedIn' = loggedIn /\ taken' = taken /\ server' = server
        /\ command \in Commands /\ Dialogue
    BY DEF Shrinks, serverVars, ClientInv, ClientTypeOK
  <1>2. Login'
    <2>1. Has("235")' => loggedIn'
      BY <1>1, ShrinksHas DEF Earned, Login
    <2>2. job' = "send" /\ phase' # "done" /\ ~failed'
            /\ command' \in {"MAIL", "RCPT", "DATA", "DOT", "QUIT"} => loggedIn'
      BY <1>1, AfterShape DEF Earned, Login
    <2>3. QED
      BY <2>1, <2>2 DEF Login
  <1>3. PopReplies'
    <2> SUFFICES ASSUME job = "verifyPop", phase' # "done" PROVE PopReplies'
      BY DEF PopReplies
    <2>1. phase' = "write" /\ wire' = << >> /\ asked' = << >>
      BY <1>1
    <2>2. command' = "QUIT" => loggedIn'
      BY <1>1, AfterShape
    <2>3. QED
      BY <2>1, <2>2 DEF PopReplies
  <1>4. Letter'
    <2> SUFFICES ASSUME job = "send", phase' # "done", ~failed
                 PROVE  Letter'
      BY DEF Letter
    <2>1. phase' = "write" /\ command' = After(command) /\ command # "QUIT"
      OBVIOUS
    <2>2. CASE command = "DATA"
      <3>1. command' = "DOT" /\ wire' = << >> /\ asked' = << >>
        BY <1>1, <2>1, <2>2, AfterShape
      <3>2. QED
        BY <2>1, <3>1 DEF Letter, Has
    <2>3. CASE command = "DOT"
      <3>1. command' = "QUIT"
        BY <1>1, <2>1, <2>3, AfterShape
      <3>2. QED
        BY <1>1, <2>1, <2>3, <3>1 DEF Letter
    <2>4. CASE command \notin {"DATA", "DOT"}
      <3>1. BeforeData
        BY <2>1, <2>4 DEF Letter, Earned
      <3>2. BeforeData'
        BY <1>1, <3>1, ShrinksHas DEF BeforeData
      <3>3. command' \notin {"DOT", "QUIT"}
        BY <1>1, <2>1, <2>4, AfterShape
      <3>4. QED
        BY <2>1, <3>2, <3>3 DEF Letter
    <2>5. QED
      BY <2>2, <2>3, <2>4
  <1>5. OkIsEarned'
    BY <1>1 DEF OkIsEarned, Earned, PopReplies, Letter, Login
  <1>6. QED
    BY <1>2, <1>3, <1>4, <1>5 DEF Earned

LEMMA ReadsKeepsEarned ==
  ASSUME Earned, ClientInv, ServerTypeOK, NEW next \in {"rest", "body"}, Reads(next), Shrinks,
         command \in {"UIDL", "RETR", "HELO"}, phase # "done"
  PROVE  Earned'
  <1>1. /\ asked' = asked /\ loggedIn' = loggedIn /\ taken' = taken /\ server' = server
        /\ job' = job /\ command' = command /\ phase' # "done" /\ failed' = failed
        /\ job # "verifyPop"
    BY DEF Shrinks, serverVars, Reads, ClientInv, Dialogue, Pop
  <1>2. Login'
    <2>1. Has("235")' => loggedIn'
      BY <1>1, ShrinksHas DEF Earned, Login
    <2>2. QED
      BY <1>1, <2>1 DEF Earned, Login
  <1>3. PopReplies'
    BY <1>1 DEF PopReplies
  <1>4. Letter'
    <2>1. BeforeData => BeforeData'
      BY <1>1, ShrinksHas DEF BeforeData
    <2>2. QED
      BY <1>1, <2>1 DEF Earned, Letter
  <1>5. OkIsEarned'
    BY <1>1 DEF OkIsEarned
  <1>6. QED
    BY <1>2, <1>3, <1>4, <1>5 DEF Earned

\* A line that is read as the reply of a command.
LEMMA StatusProceeds ==
  ASSUME Earned, ClientInv, ServerTypeOK, phase = "status", command # "UIDL", wire # << >>,
         wire' = Tail(wire), UNCHANGED serverVars, Head(wire).is # "-ERR",
         IsPositive(Head(wire)), Proceed
  PROVE  Earned'
  <1>1. Shrinks /\ (job = "verifyPop" => wire' = << >> /\ asked = << >>)
    <2>1. Shrinks
      BY DEF Shrinks
    <2>2. job = "verifyPop" => wire' = << >> /\ asked = << >>
      BY <2>1, ShrinksHas DEF Earned, PopReplies, ServerTypeOK
    <2>3. QED
      BY <2>1, <2>2
  <1>2. Head(wire) = wire[1] /\ 1 \in 1..Len(wire) /\ wire[1] \in Lines
    BY DEF ServerTypeOK
  <1>3. command = "PASSWORD" => loggedIn
    BY <1>2 DEF IsPositive, ReplyOk, Positive, Earned, Login, Has
  <1>4. command = "PASS" /\ job = "verifyPop" => loggedIn
    BY DEF Earned, PopReplies
  <1>5. command = "DATA" /\ job = "send" /\ ~failed => wire' = << >> /\ asked = << >>
    <2> SUFFICES ASSUME command = "DATA", job = "send", ~failed
                 PROVE  wire' = << >> /\ asked = << >>
      OBVIOUS
    <2>1. wire[1].is = "354" /\ ~wire[1].dash
      BY <1>2 DEF IsPositive, ReplyOk, Positive
    <2>2. wire[1] = Line("354")
      BY <1>2, <2>1 DEF Line, Lines
    <2>3. asked = << >>
      BY <1>2, <2>1 DEF Earned, Letter, Has
    <2>4. Len(wire) = 1
      <3>1. \A i \in 1..(Len(wire) - 1) : wire[i] # Line("354")
        BY DEF Earned, Letter
      <3>2. Len(wire) \in Nat /\ Len(wire) >= 1
        BY <1>2 DEF ServerTypeOK
      <3>3. ASSUME Len(wire) # 1 PROVE FALSE
        <4>1. 1 \in 1..(Len(wire) - 1)
          <5>1. \A n \in Nat : n >= 1 /\ n # 1 => 1 \in 1..(n - 1)
            OBVIOUS
          <5>2. QED
            BY <3>2, <3>3, <5>1
        <4>2. QED
          BY <2>2, <3>1, <4>1
      <3>4. QED
        BY <3>3
    <2>5. QED
      BY <2>3, <2>4 DEF ServerTypeOK
  <1>6. command = "DOT" /\ job = "send" /\ ~failed => taken
    BY <1>2 DEF IsPositive, ReplyOk, Earned, Letter, Has
  <1>7. command \in {"DATA", "DOT"} => job = "send" /\ ~failed
    BY DEF ClientInv, Dialogue
  <1>8. QED
    BY <1>1, <1>3, <1>4, <1>5, <1>6, <1>7, ProceedKeepsEarned

LEMMA ReadLineKeepsEarned ==
  ASSUME Earned, ClientInv, ServerTypeOK, ReadLine
  PROVE  Earned'
  <1> DEFINE line == Head(wire)
  <1>1. /\ wire # << >> /\ wire' = Tail(wire) /\ UNCHANGED serverVars /\ Shrinks
        /\ line \in Lines
    BY DEF ReadLine, Shrinks, ServerTypeOK
  <1>2. job = "verifyPop" => wire' = << >> /\ asked = << >>
    <2>1. phase # "done"
      BY DEF ReadLine, ReadStatus, ReadList, ReadHeader, ReadBody, ReadHelo
    <2>2. QED
      BY <1>1, <2>1, ShrinksHas DEF Earned, PopReplies, ServerTypeOK
  <1>3. CASE ReadStatus(line)
    <2>1. phase = "status" /\ phase # "done"
      BY <1>3 DEF ReadStatus
    <2>2. CASE Raise("runtime") \/ Raise("IO")
      BY <1>1, <1>2, <2>1, <2>2, RaiseKeepsEarned
    <2>3. CASE ~(Raise("runtime") \/ Raise("IO"))
      <3>1. line.is # "-ERR" /\ IsPositive(line)
        BY <1>3, <2>3 DEF ReadStatus
      <3>2. CASE command \in {"UIDL", "RETR"} \/ ~Complete(line)
        <4>1. Reads("rest") /\ command \in {"UIDL", "RETR", "HELO"}
          BY <1>3, <3>1, <3>2 DEF ReadStatus, Complete
        <4>2. QED
          BY <1>1, <2>1, <4>1, ReadsKeepsEarned
      <3>3. CASE command \notin {"UIDL", "RETR"} /\ Complete(line)
        <4>1. Proceed
          BY <1>3, <3>1, <3>3 DEF ReadStatus
        <4>2. QED
          BY <1>1, <2>1, <3>1, <3>3, <4>1, StatusProceeds
      <3>4. QED
        BY <3>2, <3>3
    <2>4. QED
      BY <2>2, <2>3
  <1>4. CASE ReadList(line)
    <2>1. /\ job = "sync" /\ job' = "sync" /\ ~failed
          /\ phase' \in {"rest", "write", "done"}
      BY <1>4 DEF ReadList, Done, ClientInv, Dialogue
    <2>2. Has("235")' => loggedIn'
      BY <1>1, ShrinksHas DEF Earned, Login, Shrinks, serverVars
    <2>3. QED
      BY <2>1, <2>2 DEF Earned, Login, PopReplies, Letter, OkIsEarned
  <1>5. CASE ReadHeader(line)
    <2>1. command = "RETR" /\ phase # "done" /\ (Reads("rest") \/ Reads("body"))
      BY <1>5 DEF ReadHeader
    <2>2. QED
      BY <1>1, <2>1, ReadsKeepsEarned
  <1>6. CASE ReadBody(line)
    <2>1. phase # "done" /\ command = "RETR" /\ (Reads("body") \/ Proceed)
      BY <1>6 DEF ReadBody, ClientInv, Dialogue
    <2>2. QED
      BY <1>1, <1>2, <2>1, ReadsKeepsEarned, ProceedKeepsEarned
  <1>7. CASE ReadHelo(line)
    <2>1. phase # "done" /\ command = "HELO" /\ (Reads("rest") \/ Proceed)
      BY <1>7 DEF ReadHelo
    <2>2. QED
      BY <1>1, <1>2, <2>1, ReadsKeepsEarned, ProceedKeepsEarned
  <1>8. QED
    BY <1>3, <1>4, <1>5, <1>6, <1>7 DEF ReadLine

LEMMA ReadEndKeepsEarned ==
  ASSUME Earned, ClientInv, ServerTypeOK, ReadEnd
  PROVE  Earned'
  <1>1. /\ phase # "done" /\ wire = << >> /\ wire' = wire /\ Shrinks
        /\ job = "verifyPop" => asked = << >>
    BY DEF ReadEnd, Shrinks, Earned, PopReplies
  <1>2. CASE Raise("runtime") \/ Raise("IO")
    BY <1>1, <1>2, RaiseKeepsEarned
  <1>3. CASE command \in {"GREETING", "USER", "QUIT"} /\ Proceed
    BY <1>1, <1>3, ProceedKeepsEarned
  <1>4. CASE command = "UIDL" /\ Done("ok")
    <2>1. job = "sync" /\ job' = "sync" /\ loggedIn' = loggedIn /\ wire' = << >>
      BY <1>1, <1>4 DEF ReadEnd, serverVars, Done, ClientInv, Dialogue
    <2>2. ~Has("235")'
      BY <2>1 DEF Has
    <2>3. QED
      BY <2>1, <2>2 DEF Earned, Login, PopReplies, Letter, OkIsEarned
  <1>5. CASE command = "RETR" /\ Reads("rest")
    BY <1>1, <1>5, ReadsKeepsEarned
  <1>6. QED
    BY <1>2, <1>3, <1>4, <1>5 DEF ReadEnd, ReadNull

LEMMA AppendAsks ==
  ASSUME ServerTypeOK, NEW d \in Commands, asked' = Append(asked, d)
  PROVE  /\ Len(asked') = Len(asked) + 1
         /\ \A i \in 1..Len(asked) : asked'[i] = asked[i]
         /\ \A c : Asks(c)' => Asks(c) \/ c = d
  <1>1. /\ Len(asked') = Len(asked) + 1 /\ asked'[Len(asked) + 1] = d
        /\ \A i \in 1..Len(asked) : asked'[i] = asked[i]
    BY DEF ServerTypeOK
  <1>2. ASSUME NEW c, Asks(c)', c # d PROVE Asks(c)
    <2>1. PICK i \in 1..Len(asked') : asked'[i] = c
      BY <1>2 DEF Asks
    <2>2. i \in 1..Len(asked)
      BY <1>1, <1>2, <2>1 DEF ServerTypeOK
    <2>3. QED
      BY <1>1, <2>1, <2>2 DEF Asks
  <1>3. QED
    BY <1>1, <1>2

LEMMA WriteKeepsEarned ==
  ASSUME Earned, ClientInv, ServerTypeOK, WriteCommand
  PROVE  Earned'
  <1>1. /\ phase = "write" /\ wire' = wire /\ job \in Jobs /\ command \in Commands
        /\ UNCHANGED <<server, taken, loggedIn, wordy>>
    BY DEF WriteCommand, ClientInv, ClientTypeOK
  <1>2. CASE Raise("IO") /\ UNCHANGED asked
    <2>1. Shrinks /\ (job = "verifyPop" => wire' = << >> /\ asked = << >>)
      BY <1>1, <1>2 DEF Shrinks, serverVars, Earned, PopReplies
    <2>2. QED
      BY <1>1, <1>2, <2>1, RaiseKeepsEarned
  <1>3. CASE /\ phase' = "status"
             /\ asked' = (IF server = "gone" THEN asked ELSE Append(asked, command))
             /\ UNCHANGED <<job, command, listed, todo, socket, failed, answer>>
    <2>1. \A s : Has(s)' <=> Has(s)
      BY <1>1 DEF Has
    <2>2. Login'
      <3>1. Has("235")' => loggedIn'
        BY <1>1, <2>1 DEF Earned, Login
      <3>2. QED
        BY <1>1, <1>3, <3>1 DEF Earned, Login
    <2>3. PopReplies'
      BY <1>1, <1>3 DEF Earned, PopReplies, ServerTypeOK
    <2>4. OkIsEarned'
      BY <1>3 DEF OkIsEarned
    <2>5. Letter'
      <3> SUFFICES ASSUME job = "send", ~failed PROVE Letter'
        BY <1>3 DEF Letter
      <3>1. \A c : Asks(c)' => Asks(c) \/ c = command
        BY <1>1, <1>3, AppendAsks DEF Asks
      <3>2. CASE command \notin {"DATA", "DOT", "QUIT"}
        <4>1. BeforeData
          BY <1>1, <3>2 DEF Earned, Letter
        <4>2. BeforeData'
          BY <1>1, <2>1, <3>1, <3>2, <4>1 DEF BeforeData
        <4>3. QED
          BY <1>1, <1>3, <3>2, <4>2 DEF Letter
      <3>3. CASE command = "DATA"
        <4>1. BeforeData
          BY <1>1, <3>3 DEF Earned, Letter
        <4>2. ~Has("354")' /\ server' # "takesData" /\ ~Asks("DOT")'
          BY <1>1, <2>1, <3>1, <3>3, <4>1 DEF BeforeData
        <4>3. \A i \in 1..(Len(asked') - 1) : asked'[i] # "DATA"
          <5>1. \A i \in 1..Len(asked) : asked[i] # "DATA"
            BY <4>1 DEF BeforeData, Asks
          <5>2. CASE server = "gone"
            BY <1>3, <5>1, <5>2 DEF ServerTypeOK
          <5>3. CASE server # "gone"
            BY <1>1, <1>3, <5>1, <5>3, AppendAsks DEF ServerTypeOK
          <5>4. QED
            BY <5>2, <5>3
        <4>4. \A i \in 1..(Len(wire') - 1) : wire'[i] # Line("354")
          BY <1>1, <4>1 DEF BeforeData, Has, Line, ServerTypeOK
        <4>5. QED
          BY <1>3, <3>3, <4>2, <4>3, <4>4 DEF Letter
      <3>4. CASE command = "DOT"
        <4>1. wire = << >> /\ asked = << >> /\ (Has("250") => taken)
          BY <1>1, <3>4 DEF Earned, Letter
        <4>2. asked' = << >> \/ asked' = <<"DOT">>
          BY <1>3, <3>4, <4>1
        <4>3. QED
          BY <1>1, <1>3, <2>1, <3>4, <4>1, <4>2 DEF Letter
      <3>5. CASE command = "QUIT"
        BY <1>1, <1>3, <3>5 DEF Earned, Letter
      <3>6. QED
        BY <3>2, <3>3, <3>4, <3>5
    <2>6. QED
      BY <2>2, <2>3, <2>4, <2>5 DEF Earned
  <1>4. QED
    BY <1>2, <1>3 DEF WriteCommand

LEMMA LetterFailsKeepsEarned ==
  ASSUME Earned, ClientInv, ServerTypeOK, LetterFails
  PROVE  Earned'
  <1>1. phase # "done" /\ job # "verifyPop" /\ Shrinks /\ Raise("runtime")
    BY DEF LetterFails, Shrinks, ClientInv, Dialogue, Pop
  <1>2. QED
    BY <1>1, RaiseKeepsEarned

LEMMA HangsUpKeepsEarned ==
  ASSUME Earned, ClientInv, ServerTypeOK, HangsUp
  PROVE  Earned'
  <1>1. /\ UNCHANGED <<clientVars, wire, taken, loggedIn, wordy>>
        /\ server' = "gone" /\ asked' = << >>
    BY DEF HangsUp, serverRest, clientVars
  <1>2. (\A s : Has(s)' <=> Has(s)) /\ \A c : ~Asks(c)'
    BY <1>1 DEF Has, Asks
  <1>3. Login' /\ OkIsEarned'
    BY <1>1, <1>2 DEF Earned, Login, OkIsEarned, clientVars
  <1>4. PopReplies'
    BY <1>1 DEF Earned, PopReplies, clientVars
  <1>5. Letter'
    <2>1. BeforeData => BeforeData'
      BY <1>1, <1>2 DEF BeforeData
    <2>2. QED
      BY <1>1, <1>2, <2>1 DEF Earned, Letter, clientVars
  <1>6. QED
    BY <1>3, <1>4, <1>5 DEF Earned

\* A reply: the server answers the first command it has not answered.
LEMMA Replies ==
  ASSUME ServerTypeOK, Server
  PROVE  \E c \in Commands, lines \in Seq(Lines) :
            /\ asked # << >> /\ c = Head(asked) /\ asked' = Tail(asked)
            /\ wire' = wire \o lines
            /\ \A i \in 1..Len(lines) :
                 /\ lines[i].is = "235" => loggedIn'
                 /\ lines[i].is = "354" => c = "DATA"
                 /\ lines[i].is = "250" /\ c = "DOT" => taken'
                 /\ i < Len(lines) => lines[i] # Line("354")
            /\ job = "verifyPop" /\ c \notin {"UIDL", "RETR"} =>
                 /\ Len(lines) <= 1
                 /\ c = "PASS" /\ lines # << >> /\ Head(lines).is # "-ERR" => loggedIn'
            /\ server' = "takesData" => server = "takesData" \/ c = "DATA"
            /\ taken => taken'
            /\ loggedIn => loggedIn'
            /\ wordy => wordy'
            /\ ~wordy' /\ c \notin {"HELO", "UIDL", "RETR"} => Len(lines) <= 1
            /\ \A i \in 1..(Len(lines) - 1) :
                 /\ c = "HELO" => lines[i] = Dashed("250")
                 /\ c \in {"UIDL", "RETR"} => lines[i].is # "dot"
            /\ UNCHANGED clientVars
  <1> DEFINE Good(c, lines) ==
            /\ asked # << >> /\ c = Head(asked) /\ asked' = Tail(asked)
            /\ wire' = wire \o lines
            /\ \A i \in 1..Len(lines) :
                 /\ lines[i].is = "235" => loggedIn'
                 /\ lines[i].is = "354" => c = "DATA"
                 /\ lines[i].is = "250" /\ c = "DOT" => taken'
                 /\ i < Len(lines) => lines[i] # Line("354")
            /\ job = "verifyPop" /\ c \notin {"UIDL", "RETR"} =>
                 /\ Len(lines) <= 1
                 /\ c = "PASS" /\ lines # << >> /\ Head(lines).is # "-ERR" => loggedIn'
            /\ server' = "takesData" => server = "takesData" \/ c = "DATA"
            /\ taken => taken'
            /\ loggedIn => loggedIn'
            /\ wordy => wordy'
            /\ ~wordy' /\ c \notin {"HELO", "UIDL", "RETR"} => Len(lines) <= 1
            /\ \A i \in 1..(Len(lines) - 1) :
                 /\ c = "HELO" => lines[i] = Dashed("250")
                 /\ c \in {"UIDL", "RETR"} => lines[i].is # "dot"
            /\ UNCHANGED clientVars
  <1>1. CASE Accepts
    <2>1. PICK c \in Commands \ {"UIDL", "RETR"} : Accepts!(c)
      BY <1>1 DEF Accepts
    <2>2. /\ Positive(c) = "235" => c = "PASSWORD"
          /\ Positive(c) = "354" => c = "DATA"
      BY DEF Positive
    <2>3. /\ taken => taken'
          /\ loggedIn => loggedIn'
          /\ c = "DOT" => taken'
          /\ c \in {"PASS", "PASSWORD"} => loggedIn'
      BY <2>1
    <2>4. UNCHANGED clientVars /\ asked # << >> /\ c = Head(asked) /\ asked' = Tail(asked)
      BY <2>1 DEF serverRest, clientVars, Takes
    <2>5. server' = "takesData" => server = "takesData" \/ c = "DATA"
      BY <2>1
    <2>6. CASE Sends(<<Line(Positive(c))>>)
      <3> DEFINE ls == <<Line(Positive(c))>>
      <3>1. ls \in Seq(Lines) /\ Len(ls) = 1 /\ ls[1].is = Positive(c)
        BY LinesAreLines DEF Line
      <3>2. \A i \in 1..Len(ls) :
                 /\ ls[i].is = "235" => loggedIn'
                 /\ ls[i].is = "354" => c = "DATA"
                 /\ ls[i].is = "250" /\ c = "DOT" => taken'
                 /\ i < Len(ls) => ls[i] # Line("354")
        BY <2>2, <2>3, <3>1
      <3>3. wire' = wire \o ls
        BY <2>6 DEF Sends
      <3>6. wordy => wordy'
        BY <2>1
      <3> HIDE DEF ls
      <3>4. Good(c, ls)
        BY <2>3, <2>4, <2>5, <3>1, <3>2, <3>3, <3>6
      <3>5. QED
        BY <3>1, <3>4
    <2>7. CASE /\ Sends(<<Dashed(Positive(c)), Line(Positive(c))>>) /\ job \notin Pop
               /\ wordy' = (wordy \/ c # "HELO")
      <3> DEFINE ls == <<Dashed(Positive(c)), Line(Positive(c))>>
      <3>1. /\ ls \in Seq(Lines) /\ Len(ls) = 2
            /\ ls[1].is = Positive(c) /\ ls[1].dash /\ ls[2].is = Positive(c)
        BY LinesAreLines DEF Line, Dashed
      <3>2. \A i \in 1..Len(ls) :
                 /\ ls[i].is = "235" => loggedIn'
                 /\ ls[i].is = "354" => c = "DATA"
                 /\ ls[i].is = "250" /\ c = "DOT" => taken'
                 /\ i < Len(ls) => ls[i] # Line("354")
        BY <2>2, <2>3, <3>1 DEF Line
      <3>3. wire' = wire \o ls /\ job # "verifyPop"
        BY <2>7 DEF Sends, Pop
      <3>6. \A i \in 1..(Len(ls) - 1) : c = "HELO" => ls[i] = Dashed("250")
        <4>1. c = "HELO" => Positive(c) = "250"
          BY DEF Positive
        <4>2. c = "HELO" => ls[1] = Dashed("250")
          BY <4>1
        <4>3. \A i \in 1..(Len(ls) - 1) : i = 1
          BY <3>1
        <4>4. QED
          BY <4>2, <4>3
      <3> HIDE DEF ls
      <3>4. Good(c, ls)
        BY <2>1, <2>3, <2>4, <2>5, <2>7, <3>1, <3>2, <3>3, <3>6
      <3>5. QED
        BY <3>1, <3>4
    <2>8. QED
      BY <2>1, <2>6, <2>7
  <1>2. CASE Refuses
    <2>1. PICK c \in Commands : Refuses!(c)
      BY <1>2 DEF Refuses
    <2> DEFINE ls == <<Line(Negative)>>
    <2>2. ls \in Seq(Lines) /\ Len(ls) = 1 /\ ls[1].is = Negative
      <3>1. Line(Negative) \in Lines /\ Line(Negative).is = Negative
        BY LinesAreLines DEF Line
      <3>2. QED
        BY <3>1
    <2>3. Negative \in {"-ERR", "5xx"} /\ (job = "verifyPop" => Negative = "-ERR")
      BY DEF Negative, Pop
    <2>4. /\ asked # << >> /\ c = Head(asked) /\ asked' = Tail(asked)
          /\ wire' = wire \o ls /\ server' = "listens"
          /\ UNCHANGED <<clientVars, taken, loggedIn, wordy>>
      BY <2>1 DEF Takes, Sends, serverRest, clientVars
    <2> HIDE DEF ls
    <2>5. Good(c, ls)
      BY <2>2, <2>3, <2>4
    <2>6. QED
      BY <2>2, <2>5
  <1>3. CASE Lists
    <2>1. PICK n \in 0..MaxMessages : Lists!(n)
      BY <1>3 DEF Lists
    <2> DEFINE ls == <<Line("+OK")>> \o [i \in 1..n |-> Line("entry")] \o <<Line("dot")>>
    <2>2. n \in Nat
      BY <2>1, ConnectionAssumption
    <2>3. ls \in Seq(Lines) /\ \A i \in 1..Len(ls) : ls[i].is \in {"+OK", "entry", "dot"}
      BY <2>2 DEF Line, Lines, Statuses
    <2>4. /\ asked # << >> /\ "UIDL" = Head(asked) /\ asked' = Tail(asked)
          /\ wire' = wire \o ls
          /\ UNCHANGED <<clientVars, taken, loggedIn, server, wordy>>
      BY <2>1 DEF Takes, Sends, serverRest, clientVars
    <2>7. \A i \in 1..Len(ls) : ls[i].is \notin {"235", "354", "250"} /\ ls[i] # Line("354")
      BY <2>3 DEF Line
    <2>8. \A i \in 1..(Len(ls) - 1) : ls[i].is # "dot"
      BY <2>2 DEF Line
    <2> HIDE DEF ls
    <2>5. Good("UIDL", ls)
      BY <2>4, <2>7, <2>8
    <2>6. QED
      BY <2>3, <2>5 DEF Commands
  <1>4. CASE Delivers
    <2>1. PICK rest \in {<< >>, <<Line("blank")>>, <<Line("blank"), Line("text")>>} : Delivers!(rest)
      BY <1>4 DEF Delivers
    <2> DEFINE ls == <<Line("+OK"), Line("header")>> \o rest \o <<Line("dot")>>
    <2>2. ls \in Seq(Lines)
          /\ \A i \in 1..Len(ls) : ls[i].is \in {"+OK", "header", "blank", "text", "dot"}
      <3>1. \A is \in {"+OK", "header", "blank", "text", "dot"} : Line(is) \in Lines /\ Line(is).is = is
        BY DEF Line, Lines, Statuses
      <3>2. CASE rest = << >>
        BY <3>1, <3>2
      <3>3. CASE rest = <<Line("blank")>>
        BY <3>1, <3>3
      <3>4. CASE rest = <<Line("blank"), Line("text")>>
        BY <3>1, <3>4
      <3>5. QED
        BY <2>1, <3>2, <3>3, <3>4
    <2>3. /\ asked # << >> /\ "RETR" = Head(asked) /\ asked' = Tail(asked)
          /\ wire' = wire \o ls
          /\ UNCHANGED <<clientVars, taken, loggedIn, server, wordy>>
      BY <2>1 DEF Takes, Sends, serverRest, clientVars
    <2>6. \A i \in 1..Len(ls) : ls[i].is \notin {"235", "354", "250"} /\ ls[i] # Line("354")
      BY <2>2 DEF Line
    <2>7. \A i \in 1..(Len(ls) - 1) : ls[i].is # "dot"
      <3>1. /\ Line("+OK").is # "dot" /\ Line("header").is # "dot"
            /\ Line("blank").is # "dot" /\ Line("text").is # "dot"
        BY DEF Line
      <3>2. CASE rest = << >>
        BY <3>1, <3>2
      <3>3. CASE rest = <<Line("blank")>>
        BY <3>1, <3>3
      <3>4. CASE rest = <<Line("blank"), Line("text")>>
        BY <3>1, <3>4
      <3>5. QED
        BY <2>1, <3>2, <3>3, <3>4
    <2> HIDE DEF ls
    <2>4. Good("RETR", ls)
      BY <2>3, <2>6, <2>7
    <2>5. QED
      BY <2>2, <2>4 DEF Commands
  <1>5. CASE TakesAsText
    <2>1. PICK c \in Commands \ {"DOT"} : TakesAsText!(c)
      BY <1>5 DEF TakesAsText
    <2>2. wire' = wire \o << >> /\ << >> \in Seq(Lines)
      BY <2>1 DEF ServerTypeOK
    <2>3. Good(c, << >>)
      BY <2>1, <2>2 DEF Takes, serverRest, clientVars
    <2>4. QED
      BY <2>2, <2>3
  <1>6. QED
    BY <1>1, <1>2, <1>3, <1>4, <1>5 DEF Server

LEMMA ServerKeepsEarned ==
  ASSUME Earned, ClientInv, ServerTypeOK, Server
  PROVE  Earned'
  <1>1. PICK c \in Commands, lines \in Seq(Lines) :
            /\ asked # << >> /\ c = Head(asked) /\ asked' = Tail(asked)
            /\ wire' = wire \o lines
            /\ \A i \in 1..Len(lines) :
                 /\ lines[i].is = "235" => loggedIn'
                 /\ lines[i].is = "354" => c = "DATA"
                 /\ lines[i].is = "250" /\ c = "DOT" => taken'
                 /\ i < Len(lines) => lines[i] # Line("354")
            /\ job = "verifyPop" /\ c \notin {"UIDL", "RETR"} =>
                 /\ Len(lines) <= 1
                 /\ c = "PASS" /\ lines # << >> /\ Head(lines).is # "-ERR" => loggedIn'
            /\ server' = "takesData" => server = "takesData" \/ c = "DATA"
            /\ taken => taken'
            /\ loggedIn => loggedIn'
            /\ wordy => wordy'
            /\ ~wordy' /\ c \notin {"HELO", "UIDL", "RETR"} => Len(lines) <= 1
            /\ \A i \in 1..(Len(lines) - 1) :
                 /\ c = "HELO" => lines[i] = Dashed("250")
                 /\ c \in {"UIDL", "RETR"} => lines[i].is # "dot"
            /\ UNCHANGED clientVars
    BY Replies
  <1>2. /\ Len(wire') = Len(wire) + Len(lines)
        /\ \A i \in 1..Len(wire) : wire'[i] = wire[i]
        /\ \A i \in 1..Len(lines) : wire'[Len(wire) + i] = lines[i]
    BY <1>1 DEF ServerTypeOK
  <1>3. ASSUME NEW s, Has(s)', ~Has(s)
        PROVE  \E i \in 1..Len(lines) : lines[i].is = s
    <2>1. PICK j \in 1..Len(wire') : wire'[j].is = s
      BY <1>3 DEF Has
    <2>2. j \notin 1..Len(wire)
      BY <1>2, <1>3, <2>1 DEF Has
    <2>3. /\ j - Len(wire) \in 1..Len(lines)
          /\ Len(wire) + (j - Len(wire)) = j
      BY <1>2, <2>2 DEF ServerTypeOK
    <2>4. QED
      BY <1>2, <2>1, <2>3
  <1>4. /\ Len(asked) >= 1 /\ Len(asked') = Len(asked) - 1
        /\ \A i \in 1..Len(asked') : asked'[i] = asked[i + 1] /\ i + 1 \in 1..Len(asked)
        /\ asked[1] = c /\ 1 \in 1..Len(asked) /\ Asks(c)
    BY <1>1 DEF ServerTypeOK, Asks
  <1>5. \A d : Asks(d)' => Asks(d)
    BY <1>4 DEF Asks
  <1>6. Login'
    <2>1. Has("235")' => loggedIn'
      BY <1>1, <1>3 DEF Earned, Login
    <2>2. QED
      BY <1>1, <2>1 DEF Earned, Login, clientVars
  <1>7. OkIsEarned'
    BY <1>1 DEF Earned, OkIsEarned, clientVars
  <1>8. PopReplies'
    <2> SUFFICES ASSUME job = "verifyPop", phase # "done" PROVE PopReplies'
      BY <1>1 DEF PopReplies, clientVars
    <2>1. asked = <<command>> /\ phase = "status" /\ wire = << >> /\ c = command
      BY <1>1 DEF Earned, PopReplies
    <2>2. c \notin {"UIDL", "RETR"}
      BY <2>1 DEF ClientInv, Dialogue
    <2>3. wire' = lines /\ asked' = << >>
      BY <1>1, <2>1
    <2>4. phase' = "status" /\ command' = command /\ failed' = failed
      BY <1>1, <2>1 DEF clientVars
    <2>5. QED
      BY <1>1, <2>1, <2>2, <2>3, <2>4 DEF Earned, PopReplies
  <1>9. Letter'
    <2> SUFFICES ASSUME job = "send", phase # "done", ~failed PROVE Letter'
      BY <1>1 DEF Letter, clientVars
    <2>1. job' = job /\ phase' = phase /\ failed' = failed /\ command' = command
      BY <1>1 DEF clientVars
    <2>2. BeforeData => BeforeData'
      <3> SUFFICES ASSUME BeforeData PROVE BeforeData'
        OBVIOUS
      <3>1. c # "DATA"
        BY <1>4 DEF BeforeData
      <3>2. ~Has("354")'
        BY <1>1, <1>3, <3>1 DEF BeforeData
      <3>3. server' # "takesData"
        BY <1>1, <3>1 DEF BeforeData
      <3>4. QED
        BY <1>5, <3>2, <3>3 DEF BeforeData
    <2>3. CASE command \notin {"DATA", "DOT", "QUIT"} \/ (command = "DATA" /\ phase = "write")
      <3>1. BeforeData
        BY <2>3 DEF Earned, Letter
      <3>2. QED
        BY <2>1, <2>2, <2>3, <3>1 DEF Letter
    <2>4. CASE command = "DATA" /\ phase = "status"
      <3>1. /\ ~Asks("DOT") /\ \A i \in 1..(Len(asked) - 1) : asked[i] # "DATA"
            /\ Has("354") \/ server = "takesData" => asked = << >>
            /\ \A i \in 1..(Len(wire) - 1) : wire[i] # Line("354")
        BY <2>4 DEF Earned, Letter
      <3>2. ~Has("354") /\ server # "takesData"
        BY <1>1, <3>1
      <3>3. c = "DATA" => asked' = << >>
        <4>1. c = "DATA" => ~(1 \in 1..(Len(asked) - 1))
          BY <1>4, <3>1
        <4>2. c = "DATA" => Len(asked) = 1
          BY <1>4, <4>1 DEF ServerTypeOK
        <4>3. QED
          BY <1>1, <4>2 DEF ServerTypeOK
      <3>4. Has("354")' \/ server' = "takesData" => asked' = << >>
        BY <1>1, <1>3, <3>2, <3>3
      <3>5. \A i \in 1..(Len(asked') - 1) : asked'[i] # "DATA"
        <4>1. \A i \in 1..(Len(asked') - 1) : i + 1 \in 1..(Len(asked) - 1) /\ i \in 1..Len(asked')
          BY <1>4 DEF ServerTypeOK
        <4>2. QED
          BY <1>4, <3>1, <4>1
      <3>6. \A i \in 1..(Len(wire') - 1) : wire'[i] # Line("354")
        <4> SUFFICES ASSUME NEW i \in 1..(Len(wire') - 1) PROVE wire'[i] # Line("354")
          OBVIOUS
        <4>1. CASE i \in 1..Len(wire)
          BY <1>2, <3>2, <4>1 DEF Has, Line
        <4>2. CASE i \notin 1..Len(wire)
          <5>1. /\ i - Len(wire) \in 1..Len(lines) /\ i - Len(wire) < Len(lines)
                /\ Len(wire) + (i - Len(wire)) = i
            BY <1>2, <4>2 DEF ServerTypeOK
          <5>2. QED
            BY <1>1, <1>2, <5>1
        <4>3. QED
          BY <4>1, <4>2
      <3>7. ~Asks("DOT")'
        BY <1>5, <3>1
      <3>8. QED
        BY <2>1, <2>4, <3>4, <3>5, <3>6, <3>7 DEF Letter
    <2>5. CASE command = "DATA" /\ phase \notin {"write", "status"}
      BY <2>1, <2>5 DEF Letter
    <2>6. CASE command = "DOT"
      <3>1. asked = <<"DOT">> /\ phase = "status" /\ wire = << >> /\ (Has("250") => taken)
        BY <1>1, <2>6 DEF Earned, Letter
      <3>2. c = "DOT" /\ asked' = << >>
        BY <1>1, <3>1
      <3>3. Has("250")' => taken'
        BY <1>1, <1>3, <3>1, <3>2
      <3>4. QED
        BY <2>1, <2>6, <3>1, <3>2, <3>3 DEF Letter
    <2>7. CASE command = "QUIT"
      BY <1>1, <2>1, <2>7 DEF Earned, Letter
    <2>8. QED
      BY <2>3, <2>4, <2>5, <2>6, <2>7
  <1>10. QED
    BY <1>6, <1>7, <1>8, <1>9 DEF Earned

LEMMA FreshIsEarned ==
  ASSUME /\ phase = "status" /\ command = "GREETING" /\ failed = FALSE
         /\ wire = << >> /\ asked = <<"GREETING">> /\ server = "listens"
  PROVE  Earned
  <1>1. (\A s : ~Has(s)) /\ ~Asks("DATA") /\ ~Asks("DOT")
    BY DEF Has, Asks
  <1>2. QED
    BY <1>1 DEF Earned, Login, PopReplies, Letter, BeforeData, OkIsEarned

LEMMA NextKeepsEarned ==
  ASSUME Earned, ConnInv, [ConnNext]_connVars
  PROVE  Earned'
  <1> USE DEF ConnInv
  <1>1. CASE Server
    BY <1>1, ServerKeepsEarned
  <1>2. CASE HangsUp
    BY <1>2, HangsUpKeepsEarned
  <1>3. CASE WriteCommand
    BY <1>3, WriteKeepsEarned
  <1>4. CASE LetterFails
    BY <1>4, LetterFailsKeepsEarned
  <1>5. CASE ReadLine
    BY <1>5, ReadLineKeepsEarned
  <1>6. CASE ReadEnd
    BY <1>6, ReadEndKeepsEarned
  <1>7. CASE NextJob
    <2>1. (\A s : ~Has(s)') /\ ~Asks("DATA")' /\ ~Asks("DOT")'
      BY <1>7 DEF NextJob, Has, Asks
    <2>2. /\ phase' = "status" /\ command' = "GREETING" /\ ~failed'
          /\ wire' = << >> /\ asked' = <<"GREETING">> /\ server' = "listens"
      BY <1>7 DEF NextJob
    <2>3. QED
      BY <2>1, <2>2 DEF Earned, Login, PopReplies, Letter, BeforeData, OkIsEarned
  <1>8. CASE UNCHANGED connVars
    BY <1>8 DEF connVars, Earned, Login, PopReplies, Letter, BeforeData, OkIsEarned, Has, Asks
  <1>9. QED
    BY <1>1, <1>2, <1>3, <1>4, <1>5, <1>6, <1>7, <1>8 DEF ConnNext, Client

\* A letter is answered with ok only if the server took it, and an account passes the POP
\* check only if the server took its password, whatever the replies look like
\* (SMTPClient.java:137, AccountServiceImpl.java:49).
THEOREM AnOkIsEarned == ConnSpec => []OkIsEarned
  <1>1. ConnInit => Earned
    BY FreshIsEarned DEF ConnInit
  <1>2. ConnInv /\ Earned /\ [ConnNext]_connVars => Earned'
    BY NextKeepsEarned
  <1>3. Earned => OkIsEarned
    BY DEF Earned
  <1>4. QED
    BY <1>1, <1>2, <1>3, ConnInvInvariant, PTL DEF ConnSpec

----
(* In step *)

\* A server that answers with one line where the client reads one has answered the
\* command under way or is about to, and the line that ends a longer reply is its last.
OneReply ==
    ~wordy /\ phase # "done" =>
        /\ asked = << >> \/ (asked = <<command>> /\ phase = "status" /\ wire = << >>)
        /\ phase = "write" => wire = << >>
        /\ server = "gone" => asked = << >>
        /\ command \notin {"HELO", "UIDL", "RETR"} => Len(wire) <= 1
        /\ \A i \in 1..(Len(wire) - 1) :
              /\ command = "HELO" => wire[i] = Dashed("250")
              /\ command \in {"UIDL", "RETR"} => wire[i].is # "dot"

LEMMA EmptyIsOneReply ==
  ASSUME phase' = "done" \/ (wire' = << >> /\ asked' = << >>)
  PROVE  OneReply'
  BY DEF OneReply

\* The client reads a line that is not the last of its reply.
LEMMA NotTheLast ==
  ASSUME OneReply, ClientInv, ServerTypeOK, ReadLine, ~wordy, Len(wire) > 1
  PROVE  phase' = "done" \/ (phase' # "write" /\ command' = command)
  <1> DEFINE line == Head(wire)
  <1>1. /\ 1 \in 1..(Len(wire) - 1) /\ line = wire[1]
        /\ phase # "done"
    BY DEF ServerTypeOK, ReadLine, ReadStatus, ReadList, ReadHeader, ReadBody, ReadHelo
  <1>2. /\ command \in {"HELO", "UIDL", "RETR"}
        /\ command = "HELO" => line = Dashed("250")
        /\ command \in {"UIDL", "RETR"} => line.is # "dot"
    BY <1>1 DEF OneReply
  <1>3. CASE ReadStatus(line)
    <2>1. CASE command \in {"UIDL", "RETR"} /\ line.is = "-ERR"
      BY <1>3, <2>1 DEF ReadStatus, Raise, Throw, Done, ClientInv, Dialogue
    <2>2. CASE command \in {"UIDL", "RETR"} /\ line.is # "-ERR"
      BY <1>3, <2>2 DEF ReadStatus, IsPositive, ReplyOk, Reads
    <2>3. CASE command = "HELO"
      <3>1. line.is # "-ERR" /\ IsPositive(line) /\ ~Complete(line)
        BY <1>2, <2>3 DEF Dashed, IsPositive, ReplyOk, Complete
      <3>2. QED
        BY <1>3, <2>3, <3>1 DEF ReadStatus, Reads
    <2>4. QED
      BY <1>2, <2>1, <2>2, <2>3
  <1>4. CASE ReadList(line)
    BY <1>2, <1>4 DEF ReadList
  <1>5. CASE ReadHeader(line)
    BY <1>5 DEF ReadHeader, Reads
  <1>6. CASE ReadBody(line)
    BY <1>2, <1>6 DEF ReadBody, Reads, ClientInv, Dialogue
  <1>7. CASE ReadHelo(line)
    BY <1>2, <1>7 DEF ReadHelo, Reads, Dashed
  <1>8. QED
    BY <1>3, <1>4, <1>5, <1>6, <1>7 DEF ReadLine

LEMMA ReadLineKeepsStep ==
  ASSUME OneReply, ClientInv, ServerTypeOK, ReadLine, ~wordy
  PROVE  OneReply'
  <1>1. /\ phase # "done" /\ wire # << >> /\ wire' = Tail(wire) /\ UNCHANGED serverVars
    BY DEF ReadLine, ReadStatus, ReadList, ReadHeader, ReadBody, ReadHelo
  <1>2. asked = << >> /\ asked' = << >> /\ Len(wire) >= 1
    BY <1>1 DEF OneReply, serverVars, ServerTypeOK
  <1>3. CASE Len(wire) = 1
    <2>1. wire' = << >>
      BY <1>1, <1>3 DEF ServerTypeOK
    <2>2. QED
      BY <1>2, <2>1, EmptyIsOneReply
  <1>4. CASE Len(wire) > 1
    <2>1. phase' = "done" \/ (phase' # "write" /\ command' = command)
      BY <1>4, NotTheLast
    <2>2. /\ Len(wire') = Len(wire) - 1
          /\ \A i \in 1..(Len(wire') - 1) : wire'[i] = wire[i + 1] /\ i + 1 \in 1..(Len(wire) - 1)
      BY <1>1 DEF ServerTypeOK
    <2>3. command \in {"HELO", "UIDL", "RETR"}
      BY <1>1, <1>4 DEF OneReply
    <2>4. QED
      BY <1>1, <1>2, <2>1, <2>2, <2>3 DEF OneReply
  <1>5. QED
    BY <1>2, <1>3, <1>4 DEF ServerTypeOK

LEMMA ServerKeepsStep ==
  ASSUME OneReply, ClientInv, ServerTypeOK, Server
  PROVE  OneReply'
  <1>1. PICK c \in Commands, lines \in Seq(Lines) :
            /\ asked # << >> /\ c = Head(asked) /\ asked' = Tail(asked)
            /\ wire' = wire \o lines
            /\ wordy => wordy'
            /\ ~wordy' /\ c \notin {"HELO", "UIDL", "RETR"} => Len(lines) <= 1
            /\ \A i \in 1..(Len(lines) - 1) :
                 /\ c = "HELO" => lines[i] = Dashed("250")
                 /\ c \in {"UIDL", "RETR"} => lines[i].is # "dot"
            /\ UNCHANGED clientVars
    BY Replies
  <1> SUFFICES ASSUME ~wordy', phase' # "done" PROVE OneReply'
    BY DEF OneReply
  <1>2. ~wordy /\ phase # "done" /\ phase' = phase /\ command' = command
    BY <1>1 DEF clientVars
  <1>3. asked = <<command>> /\ phase = "status" /\ wire = << >>
    BY <1>1, <1>2 DEF OneReply
  <1>4. c = command /\ asked' = << >> /\ wire' = lines
    BY <1>1, <1>3
  <1>5. QED
    BY <1>1, <1>2, <1>3, <1>4 DEF OneReply

LEMMA NextKeepsStep ==
  ASSUME OneReply, ConnInv, [ConnNext]_connVars
  PROVE  OneReply'
  <1> USE DEF ConnInv
  <1>1. CASE Server
    BY <1>1, ServerKeepsStep
  <1>2. CASE HangsUp
    BY <1>2 DEF HangsUp, serverRest, OneReply
  <1>3. CASE WriteCommand
    <2>1. CASE wordy
      BY <1>3, <2>1 DEF WriteCommand, OneReply
    <2>2. CASE ~wordy
      <3>1. phase = "write" /\ asked = << >> /\ wire = << >> /\ wire' = << >>
        BY <1>3, <2>2 DEF WriteCommand, OneReply
      <3>2. CASE asked' = << >>
        BY <3>1, <3>2, EmptyIsOneReply
      <3>3. CASE asked' # << >>
        <4>1. /\ asked' = <<command>> /\ phase' = "status" /\ command' = command
              /\ server' = server /\ server # "gone"
          BY <1>3, <3>1, <3>3 DEF WriteCommand
        <4>2. QED
          BY <3>1, <4>1 DEF OneReply
      <3>4. QED
        BY <3>2, <3>3
    <2>3. QED
      BY <2>1, <2>2
  <1>4. CASE LetterFails \/ ReadEnd
    <2>1. wordy' = wordy /\ asked' = asked /\ wire' = wire /\ phase # "done"
      BY <1>4 DEF LetterFails, ReadEnd, serverVars
    <2>2. ~wordy => wire = << >> /\ asked = << >>
      BY <1>4, <2>1 DEF LetterFails, ReadEnd, OneReply
    <2>3. QED
      BY <2>1, <2>2, EmptyIsOneReply DEF OneReply
  <1>5. CASE ReadLine
    <2>1. CASE wordy
      BY <1>5, <2>1 DEF ReadLine, serverVars, OneReply
    <2>2. QED
      BY <1>5, <2>1, ReadLineKeepsStep
  <1>6. CASE NextJob
    BY <1>6 DEF NextJob, OneReply
  <1>7. CASE UNCHANGED connVars
    BY <1>7 DEF connVars, OneReply
  <1>8. QED
    BY <1>1, <1>2, <1>3, <1>4, <1>5, <1>6, <1>7 DEF ConnNext, Client

\* With a server that answers HELO alone with several lines, every command goes out with
\* nothing left to read: the next line is its own reply (SocketClient.java:85).
THEOREM StaysInStep == ConnSpec => []InStep
  <1>1. ConnInit => OneReply
    BY DEF ConnInit, OneReply
  <1>2. ConnInv /\ OneReply /\ [ConnNext]_connVars => OneReply'
    BY NextKeepsStep
  <1>3. OneReply => InStep
    BY DEF OneReply, InStep
  <1>4. QED
    BY <1>1, <1>2, <1>3, ConnInvInvariant, PTL DEF ConnSpec
====
