----------------------------- MODULE MCDialogue -----------------------------
(***************************************************************************)
(* Instances of Dialogue for TLC.                                           *)
(***************************************************************************)
EXTENDS Dialogue, MCSession

Words == {"", "EHLO", "HELO", "MAIL", "mail", "RCPT", "RSET", "DATA", "BDAT",
          "QUIT", "NOOP", "HELP", "VRFY", "EXPN", "AUTH", "LOGIN", "PLAIN", "STARTTLS",
          "host", "FROM:<a>", "TO:<a=b>",
          "0", "1", "2", "LAST", "user", "credentials", ".", "junk"}

UpperCase == [w \in Words |-> IF w = "mail" THEN "MAIL" ELSE w]

\* No line here ends in LF alone.
Shorter == [w \in Words |-> "junk"]

Paths == [w \in Words |-> IF w \in {"FROM:<a>", "TO:<a=b>"} THEN a1 ELSE NoAddress]

Extensions ==
    [w \in Words |-> IF w = "TO:<a=b>" THEN Ext("UNKNOWN") ELSE Ext("MALFORMED")]

Numbers == [w \in Words |-> CASE w = "0" -> 0 [] w = "1" -> 1
                                   [] w = "2" -> 2 [] OTHER -> -1]

\* A transaction, with both ways to send the message
TransferLines ==
    {<<"EHLO", SP, "host">>, <<"mail", SP, "FROM:<a>">>,
     <<"RCPT", SP, "TO:<a=b>">>, <<"RSET">>, <<"DATA", SP>>, <<"QUIT">>,
     <<"BDAT", SP, "1">>, <<"BDAT", SP, "2", SP, "LAST">>,
     <<"BDAT", SP, "0", SP, "LAST">>}

\* Encryption and authentication, and the commands without consequence
SecurityLines ==
    {<<"EHLO", SP, "host">>, <<"MAIL", SP, "FROM:<a>">>, <<"STARTTLS">>,
     <<"AUTH", SP, "LOGIN">>, <<"AUTH", SP, "LOGIN", SP, "user">>,
     <<"AUTH", SP, "PLAIN">>, <<"RCPT", SP, "TO:<a=b>">>, <<"DATA">>,
     <<"HELO", SP, "host">>, <<"NOOP">>, <<"HELP">>, <<"VRFY", SP, "user">>,
     <<"EXPN">>, <<"BDAT">>}

LinesFor(server) == IF server.TLSConfig THEN SecurityLines ELSE TransferLines

\* A line of text that reads like a command, and one that trims to a dot
Texts == {<<"RSET">>, <<SP, ".">>}

DialogueConfigs == {StartTLSServer, PlainServer}

=============================================================================
