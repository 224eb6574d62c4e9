---- MODULE Connection ----
(***************************************************************************)
(* One connection to a POP3 or SMTP server: SocketClient, Pop3Client and   *)
(* SMTPClient with the four pieces of code that use them.  The client      *)
(* writes a command and reads lines until it takes the reply for complete; *)
(* an exception goes to the caller, which may or may not close.            *)
(***************************************************************************)
EXTENDS Naturals, Sequences

CONSTANTS MaxMessages    \* bound: messages a UIDL reply lists

ASSUME ConnectionAssumption == MaxMessages \in Nat \ {0}

\* doSyncMails, verifyAccount, verifySMTPAccount, MailSendPage.sendMail
Jobs == {"sync", "verifyPop", "verifySmtp", "send"}
Pop == {"sync", "verifyPop"}

Commands == {"GREETING", "USER", "PASS", "UIDL", "RETR", "QUIT", "HELO", "AUTH", "NAME",
             "PASSWORD", "MAIL", "RCPT", "DATA", "DOT"}

VARIABLES
    job,
    command,     \* the command to write, or whose reply is read
    phase,       \* "write", "status", "rest", "body", or "done"
    listed,      \* messages in the UIDL reply
    todo,        \* of these, the new ones that are not retrieved yet
    socket,      \* "none", "open" or "closed": the client's side
    failed,      \* an exception waits for the end of a finally block
    answer,      \* what the caller was told: "none", "ok" or "error"
    server,      \* "listens", "takesData", or "gone"
    asked,       \* the commands the server has not answered yet, in order
    wire,        \* the lines it has sent that the client has not read
    taken,       \* it has accepted the message
    loggedIn,    \* it has accepted the password
    wordy        \* history: it has answered with more lines than the client reads

connVars == <<job, command, phase, listed, todo, socket, failed, answer, server, asked, wire,
              taken, loggedIn, wordy>>

\* A line: the status it begins with, or what it is in a list or a message.  A reply of
\* several lines has a dash behind the status of all but the last.
Statuses == {"+OK", "-ERR", "220", "250", "334", "235", "354", "221", "5xx"}
Line(is) == [is |-> is, dash |-> FALSE]
Dashed(is) == [is |-> is, dash |-> TRUE]
Lines == [is : Statuses \cup {"entry", "header", "blank", "text", "dot"}, dash : BOOLEAN]

ConnTypeOK ==
    /\ job \in Jobs
    /\ command \in Commands
    /\ phase \in {"write", "status", "rest", "body", "done"}
    /\ listed \in Nat /\ todo \in 0..listed
    /\ socket \in {"none", "open", "closed"}
    /\ answer \in (IF phase = "done" THEN {"ok", "error"} ELSE {"none"})
    /\ server \in {"listens", "takesData", "gone"}
    /\ asked \in Seq(Commands)
    /\ wire \in Seq(Lines)
    /\ {failed, taken, loggedIn, wordy} \subseteq BOOLEAN

\* connect() has succeeded.
ConnInit ==
    /\ job \in Jobs /\ command = "GREETING" /\ phase = "status"
    /\ listed = 0 /\ todo = 0
    /\ socket = "open" /\ failed = FALSE /\ answer = "none"
    /\ server = "listens" /\ asked = <<"GREETING">> /\ wire = << >>
    /\ taken = FALSE /\ loggedIn = FALSE /\ wordy = FALSE

----
(* The server *)

Positive(c) ==
    CASE c \in {"HELO", "MAIL", "RCPT", "DOT"} -> "250"
      [] c \in {"AUTH", "NAME"}                -> "334"
      [] c = "PASSWORD"                        -> "235"
      [] c = "DATA"                            -> "354"
      [] c = "GREETING" /\ job \notin Pop      -> "220"
      [] c = "QUIT" /\ job \notin Pop          -> "221"
      [] OTHER                                 -> "+OK"

Negative == IF job \in Pop THEN "-ERR" ELSE "5xx"

Sends(lines) == wire' = wire \o lines

serverRest == <<job, command, phase, todo, socket, failed, answer>>

\* The server turns to the next command.
Takes(c) == asked # << >> /\ c = Head(asked) /\ asked' = Tail(asked)

Accepts == \E c \in Commands \ {"UIDL", "RETR"} :
    /\ Takes(c)
    /\ server = IF c = "DOT" THEN "takesData" ELSE "listens"
    /\ server' = CASE c = "DATA" -> "takesData"
                   [] c = "QUIT" -> "gone"
                   [] OTHER      -> "listens"
    /\ \/ Sends(<<Line(Positive(c))>>) /\ UNCHANGED wordy
       \/ /\ job \notin Pop /\ c \notin {"AUTH", "NAME"}
          /\ Sends(<<Dashed(Positive(c)), Line(Positive(c))>>)
          /\ wordy' = (wordy \/ c # "HELO")
    /\ taken' = (taken \/ c = "DOT")
    /\ loggedIn' = (loggedIn \/ c \in {"PASS", "PASSWORD"})
    /\ UNCHANGED <<serverRest, listed>>

Refuses == \E c \in Commands :
    /\ Takes(c)
    /\ server = "listens" \/ (server = "takesData" /\ c = "DOT")
    /\ server' = "listens"
    /\ Sends(<<Line(Negative)>>)
    /\ UNCHANGED <<serverRest, listed, taken, loggedIn, wordy>>

Lists == \E n \in 0..MaxMessages :
    /\ Takes("UIDL") /\ server = "listens"
    /\ Sends(<<Line("+OK")>> \o [i \in 1..n |-> Line("entry")] \o <<Line("dot")>>)
    /\ UNCHANGED <<serverRest, listed, server, taken, loggedIn, wordy>>

\* A message may have no body: then no empty line separates it from its headers.
Delivers == \E rest \in {<< >>, <<Line("blank")>>, <<Line("blank"), Line("text")>>} :
    /\ Takes("RETR") /\ server = "listens"
    /\ Sends(<<Line("+OK"), Line("header")>> \o rest \o <<Line("dot")>>)
    /\ UNCHANGED <<serverRest, listed, server, taken, loggedIn, wordy>>

\* What is written while the server takes data is text of the message.
TakesAsText == \E c \in Commands \ {"DOT"} :
    /\ Takes(c) /\ server = "takesData"
    /\ UNCHANGED <<serverRest, listed, server, wire, taken, loggedIn, wordy>>

\* It crashes, the network fails, or it has waited long enough for the client.
HangsUp ==
    /\ socket = "open" /\ server # "gone"
    /\ server' = "gone" /\ asked' = << >>
    /\ UNCHANGED <<serverRest, listed, wire, taken, loggedIn, wordy>>

Server == Accepts \/ Refuses \/ Lists \/ Delivers \/ TakesAsText

----
(* The end of a job *)

Done(a) == /\ phase' = "done" /\ answer' = a
           /\ UNCHANGED <<job, command, listed, todo, failed>>

\* close(): QUIT now, disconnect() when the reply is read.
Quit == /\ phase' = "write" /\ command' = "QUIT"
        /\ UNCHANGED <<job, listed, todo, socket, answer>>

\* Seeded fault (ClosedUnlessNamed): the exception reaches the caller first.
ThrowPastFinally(e) == UNCHANGED socket /\ Done("error")

\* Where an exception goes: verifySMTPAccount swallows it if it is an IOException; the
\* finally blocks close what connect() has returned, unless QUIT is what threw.
Throw(e) ==
    CASE job = "sync" -> UNCHANGED socket /\ Done("error")
      [] job = "verifySmtp" -> UNCHANGED socket /\ Done(IF e = "IO" THEN "ok" ELSE "error")
      [] job = "verifyPop" ->
            IF command \in {"GREETING", "QUIT"}
              THEN /\ UNCHANGED socket
                   /\ Done(IF command = "QUIT" /\ e = "IO" /\ ~failed THEN "ok" ELSE "error")
              ELSE Quit /\ failed' = TRUE
      [] job = "send" ->
            IF command \in {"GREETING", "HELO", "AUTH", "NAME", "PASSWORD", "QUIT"}
              THEN UNCHANGED socket /\ Done("error")
              ELSE Quit /\ failed' = TRUE

\* Seeded fault (RequestEnds): whatever fails, QUIT is tried until it works.
QuitAgain(e) == Quit /\ failed' = TRUE

Raise(e) == Throw(e)

Disconnect == socket' = "closed" /\ Done(IF failed THEN "error" ELSE "ok")

NextCommand(c, more) ==
    CASE c = "USER"     -> "PASS"
      [] c = "PASS"     -> IF job = "sync" THEN "UIDL" ELSE "QUIT"
      [] c = "RETR"     -> IF more THEN "RETR" ELSE "QUIT"
      [] c = "GREETING" -> IF job \in Pop THEN "USER" ELSE "HELO"
      [] c = "HELO"     -> "AUTH"
      [] c = "AUTH"     -> "NAME"
      [] c = "NAME"     -> "PASSWORD"
      [] c = "PASSWORD" -> "MAIL"
      [] c = "MAIL"     -> "RCPT"
      [] c = "RCPT"     -> "DATA"
      [] c = "DATA"     -> "DOT"
      [] c = "DOT"      -> "QUIT"

\* Seeded fault (ConnTypeOK): one message more than there are.
AfterOneTooMany(c) == NextCommand(c, todo > 0)

After(c) == NextCommand(c, todo > 1)

\* The reply of the command is read.
Proceed ==
    CASE command = "QUIT" -> Disconnect
      [] command = "PASSWORD" /\ job = "verifySmtp" -> UNCHANGED socket /\ Done("ok")
      [] OTHER ->
            /\ command' = After(command) /\ phase' = "write"
            /\ todo' = IF command = "RETR" THEN todo - 1 ELSE todo
            /\ UNCHANGED <<job, listed, socket, failed, answer>>

----
(* The client *)

serverVars == <<server, asked, taken, loggedIn, wordy>>

\* writerLine; the text between DATA and DOT needs no reply and goes with the DOT.  What
\* is written to a server that is gone is lost, or the write throws.
WriteCommand ==
    /\ phase = "write"
    /\ \/ /\ phase' = "status"
          /\ asked' = IF server = "gone" THEN asked ELSE Append(asked, command)
          /\ UNCHANGED <<job, command, listed, todo, socket, failed, answer>>
       \/ server = "gone" /\ Raise("IO") /\ UNCHANGED asked
    /\ UNCHANGED <<server, taken, loggedIn, wordy, wire>>

\* The letter has no recipient, or cannot be encoded: DATA is out then, the DOT is not.
LetterFails ==
    /\ phase = "write" /\ command \in {"RCPT", "DOT"}
    /\ Raise("runtime")
    /\ UNCHANGED <<serverVars, wire>>

\* Seeded fault (OkIsEarned): any reply to DATA will do.
ReplyOkButData(line) ==
    CASE command \in {"AUTH", "NAME", "PASSWORD"} ->
            line.is = Positive(command) /\ ~line.dash
      [] command \in {"HELO", "MAIL", "RCPT", "DOT"} -> line.is = "250"
      [] OTHER -> TRUE

\* startsWith("250"), or "334 ", "235 " and "354 " with the space.
ReplyOk(line) ==
    CASE command \in {"AUTH", "NAME", "PASSWORD", "DATA"} ->
            line.is = Positive(command) /\ ~line.dash
      [] command \in {"HELO", "MAIL", "RCPT", "DOT"} -> line.is = "250"
      [] OTHER -> TRUE

IsPositive(line) == ReplyOk(line)

Reads(next) == /\ phase' = next
               /\ UNCHANGED <<job, command, listed, todo, socket, failed, answer>>

\* Seeded fault (InStep): the first line of a reply is all of it.
HeloComplete(line) == TRUE

Complete(line) == command = "HELO" => ~line.dash

\* The first line of a reply.  The loop behind HELO reads the lines with a dash.
ReadStatus(line) ==
    /\ phase = "status"
    /\ IF line.is = "-ERR" THEN Raise("runtime")
       ELSE IF ~IsPositive(line) THEN Raise("IO")
       ELSE IF command \in {"UIDL", "RETR"} \/ ~Complete(line) THEN Reads("rest")
       ELSE Proceed

\* A line of a UIDL reply, up to the dot; no message, and the method returns at once.
ReadList(line) ==
    /\ phase = "rest" /\ command = "UIDL"
    /\ IF line.is # "dot"
         THEN /\ listed' = listed + 1
              /\ UNCHANGED <<job, command, phase, todo, socket, failed, answer>>
         ELSE IF listed = 0
         THEN UNCHANGED socket /\ Done("ok")
         ELSE \E new \in 0..listed :
                /\ todo' = new
                /\ command' = IF new = 0 THEN "QUIT" ELSE "RETR"
                /\ phase' = "write"
                /\ UNCHANGED <<job, listed, socket, failed, answer>>

ReadHeader(line) ==
    /\ phase = "rest" /\ command = "RETR"
    /\ IF line.is = "blank" THEN Reads("body") ELSE Reads("rest")

ReadBody(line) ==
    /\ phase = "body"
    /\ IF line.is = "dot" THEN Proceed ELSE Reads("body")

ReadHelo(line) ==
    /\ phase = "rest" /\ command = "HELO"
    /\ IF line.dash /\ line.is = "250" THEN Reads("rest") ELSE Proceed

ReadLine ==
    /\ wire # << >>
    /\ wire' = Tail(wire)
    /\ LET line == Head(wire)
       IN  ReadStatus(line) \/ ReadList(line) \/ ReadHeader(line) \/ ReadBody(line) \/ ReadHelo(line)
    /\ UNCHANGED serverVars

\* readLine returns null, which only the POP greeting and both kinds of QUIT survive, and
\* USER; Strings.haveLength turns it into an IOException behind HELO; UIDL has no list
\* then; anywhere else a NullPointerException.
ReadNull ==
    CASE command \in {"GREETING", "USER", "QUIT"}   -> Proceed
      [] command = "HELO" /\ phase = "status"       -> Raise("IO")
      [] command = "UIDL" /\ phase = "status"       -> UNCHANGED socket /\ Done("ok")
      [] command = "RETR" /\ phase = "status"       -> Reads("rest")
      [] OTHER                                      -> Raise("runtime")

\* The connection has ended, or was reset.
ReadEnd ==
    /\ phase \in {"status", "rest", "body"}
    /\ server = "gone" /\ wire = << >>
    /\ ReadNull \/ Raise("IO")
    /\ UNCHANGED <<serverVars, wire>>

\* The next request.
NextJob ==
    /\ phase = "done"
    /\ job' \in Jobs /\ command' = "GREETING" /\ phase' = "status"
    /\ listed' = 0 /\ todo' = 0
    /\ socket' = "open" /\ failed' = FALSE /\ answer' = "none"
    /\ server' = "listens" /\ asked' = <<"GREETING">> /\ wire' = << >>
    /\ taken' = FALSE /\ loggedIn' = FALSE /\ wordy' = FALSE

Client == WriteCommand \/ LetterFails \/ ReadLine \/ ReadEnd

ConnNext == Server \/ HangsUp \/ Client \/ NextJob

ConnSpec == ConnInit /\ [][ConnNext]_connVars

\* The thread goes on when it can; a server that has nothing to answer hangs up some time.
ConnFairSpec ==
    ConnSpec /\ WF_connVars(Client) /\ WF_connVars(Server) /\ WF_connVars(HangsUp)

----
(* Properties *)

\* When a command goes out the reply of the one before has been read to its end, so that
\* the next line belongs to this command (sendCommand, SocketClient.java:86) - as long as
\* the server answers with one line where the client reads one.
InStep == phase = "write" /\ ~wordy => wire = << >>

\* Even when the replies are out of step, a letter is answered with ok only if the server
\* took it over, and an account with a POP server that accepted its password: the checks
\* of the codes stop a client that reads the reply of an earlier command
\* (SMTPClient.send, SMTPClient.java:137; verifyAccount, AccountServiceImpl.java:49).
\* Registration asks verifySMTPAccount too, whose ok says nothing.
OkIsEarned ==
    phase = "done" /\ answer = "ok" =>
        /\ job = "send" => taken
        /\ job \in {"send", "verifyPop"} => loggedIn

\* A finished request leaves its connection open only where the code has no close on the
\* way out: verifySMTPAccount; a synchronisation that threw or found no mail; a send whose
\* login threw; and whenever the greeting or QUIT itself throws.
ClosedUnlessNamed ==
    phase = "done" /\ command \notin {"GREETING", "QUIT"} =>
        \/ socket = "closed"
        \/ job = "verifySmtp"
        \/ job = "sync" /\ (answer = "error" \/ listed = 0)
        \/ job = "send" /\ command \in {"HELO", "AUTH", "NAME", "PASSWORD"}

\* A server that answers, or hangs up when it has waited long enough, lets every request
\* end: a client that waits for a line nobody sends (a message without a body, QUIT in the
\* middle of the data) is set free by the end of the connection.
RequestEnds == phase # "done" ~> phase = "done"
====
