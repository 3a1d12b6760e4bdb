----------------------------- MODULE CommandLine -----------------------------
(***************************************************************************)
(* From the octets of a line to the handler of a command: ReadLine and the  *)
(* trimming in session.go, parseCommand in command.go, the table handlers.  *)
(*                                                                         *)
(* A line is a sequence of words and of the white space between them; a     *)
(* word is an atom with an upper-case form and a form without its last      *)
(* character.  Pure operators.                                              *)
(***************************************************************************)
EXTENDS Integers, Sequences, FiniteSets, SequencesExt

CONSTANTS
    Word,      \* the words lines are made of, with "" among them
    Upper,     \* Upper[w]: w in upper case
    Chopped,   \* Chopped[w]: w without its last character
    EightBit   \* words with an octet above 127

SP == " "
CR == "CR"
LF == "LF"
TAB == "TAB"

White == {SP, CR, LF, TAB}

ASSUME WordAssumption == /\ "" \in Word
                         /\ Word \cap White = {}
                         /\ Upper \in [Word -> Word]
                         /\ Upper[""] = ""
                         /\ Chopped \in [Word -> Word]
                         /\ EightBit \subseteq Word

-----------------------------------------------------------------------------
\* Lines

\* A line of nothing but LF has no two characters to cut off.
LinePanics(line) == Len(line) < 2

\* ReadLine takes the last two characters for CR LF.  Where only LF ends the
\* line, the last character of the last word goes with it.
ReadLine(line) ==
    LET n == Len(line) - 1 IN
    IF line[n] \in White THEN SubSeq(line, 1, n - 1)
    ELSE Append(SubSeq(line, 1, n - 1), Chopped[line[n]])

\* Blank tokens, white space and what is left of a word of one character
Blank == White \cup {""}

TrimRight(line) ==
    SubSeq(line, 1, Max({0} \cup {i \in 1 .. Len(line) : line[i] \notin Blank}))

\* TrimSpace, of the lines of a message
TrimSpace(line) == Reverse(TrimRight(Reverse(TrimRight(line))))

-----------------------------------------------------------------------------
\* Commands

\* Mutant: a run of spaces is taken for one, as strings.Fields does
SplitFields(line) == LET fields == SelectSeq(line, LAMBDA t : t # SP)
                     IN IF fields = <<>> THEN <<"">> ELSE fields

\* strings.Split at every space: a word is in the field with as many spaces in
\* front of it as fields, and no two words stand side by side.
Split(line) ==
    LET Spaces(n) == Cardinality({i \in 1 .. n : line[i] = SP})
        Words(k)  == {line[i] : i \in {j \in DOMAIN line :
                                    line[j] # SP /\ Spaces(j) = k - 1}}
    IN [k \in 1 .. Spaces(Len(line)) + 1 |->
           IF Words(k) = {} THEN "" ELSE CHOOSE w \in Words(k) : TRUE]

\* The command codes, counted from 1
Verbs == <<"HELO", "EHLO", "QUIT", "RSET", "NOOP", "MAIL", "RCPT", "DATA",
           "STARTTLS", "VRFY", "EXPN", "HELP", "AUTH", "BDAT">>

\* Mutant: the rows of NOOP and RSET are swapped
handlersSwapped ==
    <<"handleHelo", "handleEhlo", "handleQuit", "handleNoop", "handleRset",
      "handleMail", "handleRcpt", "handleData", "handleStartTLS", "handleVrfy",
      "handleExpn", "handleHelp", "handleAuth", "handleBdat">>

handlers ==
    <<"handleHelo", "handleEhlo", "handleQuit", "handleRset", "handleNoop",
      "handleMail", "handleRcpt", "handleData", "handleStartTLS", "handleVrfy",
      "handleExpn", "handleHelp", "handleAuth", "handleBdat">>

NoCommand == [commandCode |-> 0, verb |-> "", arguments |-> <<>>]

\* Verbs that take no argument
Bare == {"RSET", "DATA", "QUIT"}

\* The code of a verb, if word is one
CodesOf(word) ==
    {c \in DOMAIN Verbs : word \notin EightBit /\ Verbs[c] = Upper[word]}

\* NoCommand stands for an error: no verb, or an argument of one that has none
parseCommand(line) ==
    LET parts == Split(line)
        codes == {c \in CodesOf(parts[1]) : Verbs[c] \in Bare => Len(parts) = 1}
    IN IF codes = {} THEN NoCommand
       ELSE [commandCode |-> CHOOSE c \in codes : TRUE,
             verb        |-> parts[1],
             arguments   |-> Tail(parts)]

\* The command in a line that ReadLine returned
Parsed(line) == parseCommand(TrimRight(line))

Handler(cmd) == handlers[cmd.commandCode]

=============================================================================
