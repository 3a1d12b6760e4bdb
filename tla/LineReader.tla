----------------------------- MODULE LineReader -----------------------------
(***************************************************************************)
(* The top of the Serve loop on one line: read it, cut off its end, parse   *)
(* it and find its handler, checked against what the line spells.           *)
(***************************************************************************)
EXTENDS CommandLine

CONSTANT Lines  \* what a client may send up to and with the next LF

\* A line is words with spaces between them and white space at the end; a CR, LF
\* or TAB in its middle, at which Split does not split, is part of a word.
ASSUME LinesAssumption ==
    \A l \in Lines :
        /\ l \in Seq((Word \ {""}) \cup White)
        /\ \A i, j \in 1 .. Len(l) :
              /\ i < j /\ l[j] \notin White => l[i] \notin {CR, LF, TAB}
              /\ j = i + 1 => l[i] \in White \/ l[j] \in White

VARIABLES line,  \* the line that was sent
          cmd,   \* the command it was taken for
          pc     \* "read", "parsed" or "panic"

vars == <<line, cmd, pc>>

Init == line \in Lines /\ cmd = NoCommand /\ pc = "read"

Read == /\ pc = "read"
        /\ IF LinePanics(line) THEN pc' = "panic" /\ UNCHANGED cmd
           ELSE pc' = "parsed" /\ cmd' = Parsed(ReadLine(line))
        /\ UNCHANGED line

Done == pc # "read" /\ UNCHANGED vars

Next == Read \/ Done

Spec == Init /\ [][Next]_vars

-----------------------------------------------------------------------------
TypeOK == /\ line \in Lines
          /\ pc \in {"read", "parsed", "panic"}
          /\ cmd \in [commandCode : 0 .. Len(Verbs), verb : Word,
                      arguments : Seq(Word)]

\* The tokens of a field
Text(field) == IF field = "" THEN <<>> ELSE <<field>>

\* The fields with a space between any two
Join(fields) ==
    LET Joined[n \in 1 .. Len(fields)] ==
            IF n = 1 THEN Text(fields[1])
            ELSE Joined[n - 1] \o <<SP>> \o Text(fields[n])
    IN Joined[Len(fields)]

\* A line that ends in CR LF
Proper == Len(line) > 1 /\ line[Len(line) - 1] = CR

Recognized == pc = "parsed" /\ cmd # NoCommand

\* text is the line, but for white space at its end.
Spells(text) == /\ Len(text) <= Len(line)
                /\ text = SubSeq(line, 1, Len(text))
                /\ \A i \in Len(text) + 1 .. Len(line) : line[i] \in White

\* Nothing of a command is lost or made up: verb and arguments, joined by
\* single spaces, are the line, but for white space at its end.  Double spaces
\* survive as empty arguments (parseCommand).
NothingLost ==
    Recognized /\ Proper =>
        /\ Spells(Join(<<cmd.verb>> \o cmd.arguments))
        /\ cmd.arguments # <<>> => cmd.arguments[Len(cmd.arguments)] # ""

\* The handlers by the commands they are for
HandlerFor ==
    [HELO |-> "handleHelo", EHLO |-> "handleEhlo", QUIT |-> "handleQuit",
     RSET |-> "handleRset", NOOP |-> "handleNoop", MAIL |-> "handleMail",
     RCPT |-> "handleRcpt", DATA |-> "handleData", VRFY |-> "handleVrfy",
     STARTTLS |-> "handleStartTLS", EXPN |-> "handleExpn",
     HELP |-> "handleHelp", AUTH |-> "handleAuth", BDAT |-> "handleBdat"]

\* A line with a verb in front, in whatever case, reaches the handler of that
\* verb, unless the verb takes no argument and has one: the codes, which count
\* the verbs, and the table of handlers are kept in the same order by hand.
Dispatched ==
    pc = "parsed" /\ Proper =>
        LET verb == IF line[1] \in Word \ EightBit THEN Upper[line[1]] ELSE ""
            arguments == \E i \in 2 .. Len(line) : line[i] \in Word
        IN IF verb \in DOMAIN HandlerFor /\ ~(verb \in Bare /\ arguments)
           THEN cmd # NoCommand /\ Handler(cmd) = HandlerFor[verb]
           ELSE cmd = NoCommand

=============================================================================
