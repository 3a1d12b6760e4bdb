------------------------------ MODULE Dialogue ------------------------------
(***************************************************************************)
(* A session and its client, joined by the connection.  What the session    *)
(* reads is what the client sent, in order, through the socket and the      *)
(* bufio.Reader: the line decides which handler runs, and lines, message    *)
(* text, chunks and TLS records lie behind each other in the same stream.   *)
(*                                                                         *)
(* The client keeps to RFC 5321 and its extensions: it greets first, sends  *)
(* commands ahead of their replies only where PIPELINING lets it (or, if    *)
(* eager, right behind STARTTLS), and goes by the first digit of a reply.   *)
(* Each step of the session is one of Session.                              *)
(***************************************************************************)
EXTENDS Session, CommandLine, Response

CONSTANTS
    CommandLines(_),  \* the commands the client uses, by the server
    TextLines,     \* the lines of its messages
    PathOf,        \* PathOf[w]: the address in w, an argument FROM: or TO:
    ExtensionOf,   \* ExtensionOf[w]: the argument w as an extension
    NumberOf,      \* NumberOf[w]: w as a number, -1 if it is none
    Ahead,         \* verbs the client sends on behind without a reply
    MaxChunked,    \* bound on the octets sent with BDAT
    MaxGroup,      \* bound on the commands without a reply
    MaxText        \* bound on the lines of a message

\* A command is words with single spaces between them, perhaps one more behind,
\* and its verb is in ASCII.
WellSpaced(line) ==
    /\ line # <<>>
    /\ line[1] \notin EightBit
    /\ \A i \in DOMAIN line :
          IF i % 2 = 1 THEN line[i] \in Word \ {""} ELSE line[i] = SP

\* The words that the model itself mentions are words.  Nothing may be sent
\* behind the greeting, DATA or AUTH.
ASSUME DialogueAssumption ==
    /\ \A server \in Configs :
          /\ CommandLines(server) \subseteq Seq(Word \cup {SP})
          /\ \A line \in CommandLines(server) : WellSpaced(line)
    /\ {".", "credentials", "junk"} \subseteq Word
    /\ Ahead \cap {"welcome", "DATA", "AUTH"} = {}
    /\ TextLines \subseteq Seq(Word \cup {SP})
    /\ PathOf \in [Word -> Address \cup {NoAddress}]
    /\ ExtensionOf \in [Word -> Extension]
    /\ NumberOf \in [Word -> Nat \cup {-1}]
    /\ MaxGroup \in Nat /\ MaxText \in Nat
    /\ MaxChunked \in 0 .. MaxData

\* Sent and not yet read from the socket; read into the bufio.Reader and not
\* yet taken out of it.
VARIABLES wire, buf

\* The client: the verbs of the commands whose answer is due (and, at first,
\* the greeting), what it made of the last reply to a command, what it is to
\* send next, the lines of the message so far, and whether it encrypts
VARIABLE cl

\* History: what first made client and session disagree about the input
VARIABLE slip

dialogueVars == <<vars, wire, buf, cl, slip>>

\* What is sent: a line with its end, an octet of a chunk or a TLS hello
Item(as, line) == [as |-> as, line |-> line, enc |-> cl.tls]

LineItem(as, text) == Item(as, text \o <<CR, LF>>)

Mode == {"commands", "text", "response", "hello", "handshake"}

DialogueInit == /\ Init
                /\ wire = <<>> /\ buf = <<>>
                /\ cl = [due |-> <<"welcome">>, heard |-> "answer",
                         mode |-> "commands", lines |-> 0,
                         greeted |-> FALSE, tls |-> srv.implicitTLS]
                /\ slip = "none"

-----------------------------------------------------------------------------
\* The client's side

\* A client that was misunderstood sends nothing more: a bound.
Sends == /\ client = "active" /\ pc \notin Terminal /\ slip = "none"
         /\ UNCHANGED <<vars, buf, slip>>

VerbOf(line) == Upper[line[1]]

\* The octets that follow a BDAT command
ChunkOf(line) ==
    IF VerbOf(line) = "BDAT" /\ Len(line) > 2 THEN NumberOf[line[3]] ELSE 0

InFlight == buf \o wire

OctetsInFlight == {i \in DOMAIN InFlight : InFlight[i].as = "octet"}

SendCommand(line) ==
    /\ Sends
    /\ cl.mode = "commands"
    /\ cl.greeted \/ VerbOf(line) = "EHLO"
    /\ Len(cl.due) < MaxGroup
    /\ \A i \in DOMAIN cl.due : cl.due[i] \in Ahead
    /\ ChunkOf(line) > 0 => envelope.data + Cardinality(OctetsInFlight)
                               + ChunkOf(line) <= MaxChunked
    /\ wire' = wire \o <<LineItem("command", line)>>
                    \o [i \in 1 .. ChunkOf(line) |-> Item("octet", <<>>)]
    /\ cl' = [cl EXCEPT !.due = Append(@, VerbOf(line)), !.greeted = TRUE]

SendText(text) ==
    /\ Sends
    /\ cl.mode = "text" /\ cl.lines < MaxText
    /\ wire' = Append(wire, LineItem("text", text))
    /\ cl' = [cl EXCEPT !.lines = @ + 1]

SendDot ==
    /\ Sends
    /\ cl.mode = "text"
    /\ wire' = Append(wire, LineItem("dot", <<".">>))
    /\ cl' = [cl EXCEPT !.mode = "commands"]

SendResponse ==
    /\ Sends
    /\ cl.mode = "response"
    /\ wire' = Append(wire, LineItem("response", <<"credentials">>))
    /\ cl' = [cl EXCEPT !.mode = "commands"]

SendHello ==
    /\ Sends
    /\ cl.mode = "hello"
    /\ wire' = Append(wire, Item("hello", <<>>))
    /\ cl' = [cl EXCEPT !.mode = "handshake"]

\* The replies that some handlers send in front of their answer
Notices == {"550", "555"}

\* Whether a reply is the answer to a command, a notice in front of it, or one
\* that nothing was sent for
Meaning(c, reply) ==
    IF c.due = <<>> /\ c.heard # "notice" THEN "surplus"
    ELSE IF reply \in Notices THEN "notice" ELSE "answer"

\* What the client makes of a reply; a notice it takes for the answer.
Hears(c, reply) ==
    IF c.mode = "handshake" THEN [c EXCEPT !.mode = "commands"]
    ELSE IF c.due = <<>> THEN [c EXCEPT !.heard = Meaning(c, reply)]
    ELSE IF Prompting(reply) /\ Head(c.due) = "DATA"
         THEN [c EXCEPT !.mode = "text", !.lines = 0]
    ELSE IF Prompting(reply) /\ Head(c.due) = "AUTH"
         THEN [c EXCEPT !.mode = "response"]
    ELSE IF Positive(reply) /\ Head(c.due) = "STARTTLS"
         THEN [c EXCEPT !.due = Tail(@), !.heard = "answer", !.mode = "hello"]
    ELSE [c EXCEPT !.due = Tail(@), !.heard = Meaning(c, reply)]

-----------------------------------------------------------------------------
\* The session's input

AwaitsLine == \/ pc = "read" /\ bad < BadCmds
              \/ pc \in AuthPC
              \/ pc = "data" /\ MoreText

AwaitsChunk == pc = "bdat" /\ local.chunk > 0

LineEnds(b) == {i \in DOMAIN b : b[i].line # <<>>}

\* What the reader needs is not in its buffer.
Starved == \/ AwaitsLine /\ LineEnds(buf) = {}
           \/ AwaitsChunk /\ buf = <<>>
           \/ pc = "handshake"

Fails == Starved /\ ReadError

\* One read of the bufio.Reader: what has arrived by then, at least something
Fill == /\ Starved /\ pc # "handshake"
        /\ \E k \in 1 .. Len(wire) :
              /\ buf' = buf \o SubSeq(wire, 1, k)
              /\ wire' = SubSeq(wire, k + 1, Len(wire))
        /\ UNCHANGED <<vars, cl, slip>>

\* The next line in the buffer; octets of a chunk in front of it belong to it.
FirstLine == LET n == Min(LineEnds(buf))
             IN IF n = 1 THEN buf[1].line ELSE <<"junk", CR, LF>>

\* What is left of client c when it has heard the replies, in order
Hearing(c, heard) ==
    LET after[n \in 0 .. Len(heard)] ==
           IF n = 0 THEN c ELSE Hears(after[n - 1], heard[n])
    IN after[Len(heard)]

Heard == cl' = Hearing(cl, replies')

\* Why this step leaves client and session at odds: a reply is lost, or a
\* notice makes the client take the answer for that to its next command, or
\* reason
Slips(reason) ==
    slip' = IF slip # "none" THEN slip
            ELSE IF broken' THEN "lost"
            ELSE IF /\ replies' # <<>> /\ Head(replies') \in Notices
                    /\ Len(cl.due) > 1 THEN "reply"
            ELSE reason

-----------------------------------------------------------------------------
\* The session takes a line, by what it is waiting for

\* The handler gets the command; the callbacks may answer anything.
Handle(cmd) ==
    LET args == cmd.arguments
        n == Len(args)
        path == IF n = 0 THEN NoAddress ELSE PathOf[args[1]]
        exts == [i \in DOMAIN args |-> ExtensionOf[args[i]]]
    IN CASE Handler(cmd) = "handleHelo" ->
              \E refused \in BOOLEAN : handleHelo(n, refused)
         [] Handler(cmd) = "handleEhlo" ->
              \E refused \in BOOLEAN : handleEhlo(n, refused)
         [] Handler(cmd) = "handleMail" ->
              \E senderOk \in BOOLEAN, resolves \in Resolutions :
                 handleMail(path, senderOk, IF n = 0 THEN exts ELSE Tail(exts),
                            resolves)
         [] Handler(cmd) = "handleRcpt" ->
              \E verdict \in {"", "FailMailboxDoesntExist", "FailMailboxFull",
                              "FailAccessDenied"} :
                 handleRcpt(path, exts, verdict)
         [] Handler(cmd) = "handleAuth" ->
              handleAuth(IF n = 0 THEN "OTHER" ELSE Upper[args[1]], n)
         [] Handler(cmd) = "handleBdat" ->
              IF n = 0 THEN handleBdatNoArgs
              ELSE handleBdat(NumberOf[args[1]], NumberOf[args[1]] # -1,
                              n > 1 /\ Upper[args[2]] = "LAST")
         [] Handler(cmd) = "handleData" -> handleData
         [] Handler(cmd) = "handleRset" -> handleRset
         [] Handler(cmd) = "handleNoop" -> handleNoop
         [] Handler(cmd) = "handleQuit" -> handleQuit
         [] Handler(cmd) = "handleHelp" -> handleHelp
         [] Handler(cmd) = "handleVrfy" -> handleVrfy
         [] Handler(cmd) = "handleExpn" -> handleExpn
         [] Handler(cmd) = "handleStartTLS" -> handleStartTLS

Obey(line) == LET cmd == Parsed(line)
              IN IF cmd = NoCommand THEN Unrecognized ELSE Handle(cmd)

\* A line of AUTH is not parsed as a command, but for the PLAIN response.
TakeCredentials(line) ==
    /\ AuthStep
    /\ Receives
    /\ CASE pc = "loginUser"  -> LoginUserLine
         [] pc = "loginPass1" -> LoginPassword1Line
         [] pc = "loginPass2" -> LoginPassword2Line
         [] pc = "plain"      -> PlainLine(Parsed(line) # NoCommand,
                                           Len(Parsed(line).arguments))

TakeText(text) ==
    IF text = <<".">> THEN \E queued \in BOOLEAN : DataDone(TRUE, queued)
    ELSE DataLine(Len(text))

\* BDAT with a chunk after BDAT LAST: it is refused, and the chunk stays.
ChunkUnread(line) ==
    LET cmd == Parsed(line)
    IN /\ state = "DataDone"
       /\ cmd # NoCommand /\ Handler(cmd) = "handleBdat"
       /\ cmd.arguments # <<>> /\ NumberOf[cmd.arguments[1]] > 0

TakeLine ==
    /\ AwaitsLine /\ LineEnds(buf) # {}
    /\ LET n == Min(LineEnds(buf)) IN
       /\ CASE pc = "read"   -> Obey(ReadLine(FirstLine))
            [] pc \in AuthPC -> TakeCredentials(ReadLine(FirstLine))
            [] pc = "data"   -> TakeText(TrimSpace(FirstLine))
       /\ buf' = SubSeq(buf, n + 1, Len(buf))
       /\ Slips(IF pc = "data" /\ TrimSpace(FirstLine) = <<".">>
                   /\ buf[n].as # "dot" THEN "text"
                ELSE IF pc = "read" /\ ChunkUnread(ReadLine(FirstLine)) THEN "chunk"
                ELSE "none")
    /\ Heard
    /\ UNCHANGED wire

-----------------------------------------------------------------------------
\* The other steps of the session

\* Mutant: what one Read returned is taken for the chunk, however short
TakeChunkShort ==
    /\ AwaitsChunk /\ buf # <<>>
    /\ BdatChunk
    /\ buf' = SubSeq(buf, local.chunk + 1, Len(buf))
    /\ Slips("none")
    /\ Heard
    /\ UNCHANGED wire

\* One Read, for the whole chunk: a part of it is not enough.
TakeChunk ==
    /\ AwaitsChunk /\ buf # <<>>
    /\ IF Len(buf) >= local.chunk
       THEN /\ BdatChunk
            /\ buf' = SubSeq(buf, local.chunk + 1, Len(buf))
       ELSE /\ BdatReadFails
            /\ buf' = <<>>
    /\ Slips("none")
    /\ Heard
    /\ UNCHANGED wire

\* Mutant: the bufio.Reader is kept across the handshake
FreshReaderKept == UNCHANGED buf

\* A successful handshake replaces the bufio.Reader, and what is in it is lost.
FreshReader == buf' = <<>>

\* The handshake reads from the connection itself, past the bufio.Reader.
ShakeHands ==
    /\ wire # <<>>
    /\ Handshake
    /\ \/ /\ tls' /\ Head(wire).as = "hello"
          /\ wire' = Tail(wire)
          /\ FreshReader
          /\ cl' = [cl EXCEPT !.mode = "commands", !.tls = TRUE]
          /\ Slips(IF cl.due = <<>> THEN "none" ELSE "tls")
       \/ /\ ~tls'
          /\ \E k \in 1 .. Len(wire) : wire' = SubSeq(wire, k + 1, Len(wire))
          /\ UNCHANGED buf
          /\ Heard
          /\ Slips(IF Head(wire).as = "hello" THEN "none" ELSE "tls")

\* Steps that need no input
GoOn ==
    /\ \/ handleWelcome
       \/ TooManyBadCommands
       \/ DataTooBig
       \/ \E queued \in BOOLEAN : DataDone(FALSE, queued)
       \/ local.chunk = 0 /\ BdatChunk
    /\ Slips(IF pc = "data" THEN "text" ELSE "none")
    /\ Heard
    /\ UNCHANGED <<wire, buf>>

\* A read fails: the deadline passes, or the client has left.  What was read
\* of a line is gone.
ReadFails ==
    /\ Fails
    /\ \/ ReadLineFails \/ DataReadFails \/ BdatReadFails
       \/ /\ pc \in AuthPC /\ AuthStep
          /\ IF pc = "loginPass2" THEN LoginPassword2Fails ELSE DialogueAborts
       \/ Handshake /\ ~tls'
    /\ buf' = IF pc = "handshake" THEN buf ELSE <<>>
    /\ Slips(IF pc \in {"loginPass2", "handshake"} THEN "late" ELSE "none")
    /\ Heard
    /\ UNCHANGED wire

\* The client leaves; the session reads to the end before it notices.
Leave ==
    /\ Client /\ client' = "gone"
    /\ InFlight = <<>>
    /\ UNCHANGED <<wire, buf, cl, slip>>

SessionStep == Fill \/ TakeLine \/ TakeChunk \/ ShakeHands \/ GoOn

ClientStep ==
    \/ \E line \in CommandLines(srv) : SendCommand(line)
    \/ \E text \in TextLines : SendText(text)
    \/ SendDot \/ SendResponse \/ SendHello

DialogueNext ==
    \/ ClientStep \/ SessionStep \/ ReadFails \/ Leave
    \/ Ended /\ UNCHANGED <<wire, buf, cl, slip>>

DialogueSpec == DialogueInit /\ [][DialogueNext]_dialogueVars

\* Where the session can go on
Busy == pc \notin Terminal /\ (Starved => wire # <<>>)

\* The session goes on where it can, and deadlines pass: weak fairness of both,
\* with their enabling conditions written out.  Nothing is assumed about the
\* client.
FairDialogue == /\ DialogueSpec
                /\ <>[]Busy => []<><<SessionStep>>_dialogueVars
                /\ <>[]Fails => []<><<ReadFails>>_dialogueVars

-----------------------------------------------------------------------------
\* Properties

Expected ==
    CASE pc = "read"      -> {"command"}
      [] pc \in AuthPC    -> {"response"}
      [] pc = "data"      -> {"text", "dot"}
      [] pc = "bdat"      -> {IF AwaitsChunk THEN "octet" ELSE "command"}
      [] OTHER            -> {"command", "hello"}

\* Session and client read the stream alike: what comes next is what the
\* session waits for, and a chunk is there as a whole.  Message text and
\* passwords are taken for commands only after a slip (ReadLine, handleData,
\* handleBdat, auth.go).
InputAligned ==
    slip = "none" /\ pc \notin Terminal /\ InFlight # <<>> =>
        /\ Head(InFlight).as \in Expected
        /\ AwaitsChunk => /\ Len(InFlight) >= local.chunk
                          /\ \A i \in 1 .. local.chunk : InFlight[i].as = "octet"

\* The verbs in due are those of the commands in stream, in order: at[k] is the
\* place of the k-th.
Pairs(due, stream) ==
    \E at \in [DOMAIN due -> DOMAIN stream] :
       /\ \A k, l \in DOMAIN due : k < l => at[k] < at[l]
       /\ \A k \in DOMAIN due : stream[at[k]].as = "command"
                                /\ due[k] = VerbOf(stream[at[k]].line)
       /\ \A i \in DOMAIN stream :
             stream[i].as = "command" => \E k \in DOMAIN due : at[k] = i

\* Between two commands the answers due are those to the commands that were
\* sent and not taken yet, one each and in order, and the last reply was an
\* answer that was waited for: every handler answers once, notices in front of
\* the answer aside (Out, handleHelo, handleEhlo, handleRcpt).
RepliesPaired ==
    slip = "none" /\ pc = "read" =>
        Pairs(cl.due, InFlight) /\ cl.heard = "answer"

\* Nothing that was sent in the clear is read after the change to TLS, however
\* much of it arrived with the STARTTLS command (handleStartTLS).
ClearTextDropped == tls => \A i \in DOMAIN InFlight : InFlight[i].enc

Waits == cl.due # <<>> \/ cl.mode = "handshake"

\* The oldest command of those without an answer gets it, or the handshake ends.
Answered == \/ Len(cl'.due) < Len(cl.due)
            \/ cl.mode = "handshake" /\ cl'.mode # "handshake"

\* A client that waits on is answered again and again, so that every command
\* gets its answer, or it sees the connection closed: where both sides wait for
\* each other, as after AUTH LOGIN, which does not prompt for the user name,
\* the deadline ends it.
WaitEnds ==
    <>[](Waits /\ pc \notin Terminal /\ slip = "none")
        => []<><<Answered>>_dialogueVars

\* server.go: the handler is called "after the whole mail is received": when
\* Handler has the message, no line of it is left to read.
WholeMailReceived ==
    handed # {} => \A i \in DOMAIN InFlight : InFlight[i].as \notin {"text", "dot"}

\* session.go, in handleBdat: after a failure "the receiver-SMTP MUST accept and
\* discard the associated message data before sending the appropriate 5XX or
\* 4XX code": no octet of a chunk is the next thing to be read for a command.
ChunkDiscarded ==
    pc = "read" /\ InFlight # <<>> => Head(InFlight).as # "octet"

=============================================================================
