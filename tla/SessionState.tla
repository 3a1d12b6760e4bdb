---------------------------- MODULE SessionState ----------------------------
(***************************************************************************)
(* State of one SMTP session (type session in session.go, Peer, the parts   *)
(* of Server it reads) and the helpers all handlers share: Out, Reset, the  *)
(* end of a handler in Serve, and reading from a client that may be slow,   *)
(* silent or gone.                                                          *)
(*                                                                         *)
(* A handler runs in one step unless it blocks on the client in the middle; *)
(* pc says where the session's goroutine is.  A panic is not recovered by   *)
(* the code and is a final pc of its own.                                   *)
(***************************************************************************)
EXTENDS Envelope

CONSTANTS
    Configs,        \* configurations of Server
    BadCmds,        \* srv.Limits.BadCmds
    MsgSize,        \* srv.Limits.MsgSize
    DefaultMsgSize, \* DefaultLimits.MsgSize
    MaxRcptCount,   \* DefaultLimits.MaxRcptCount
    Users,          \* user names a client may give
    NoUser,         \* the empty user name
    BodyTypes       \* values of BODY=, with "" for none given

ServerConfig == [TLSConfig        : BOOLEAN,  \* TLSConfig # nil
                 implicitTLS      : BOOLEAN,  \* accepted by a TLS listener
                 TLSOnly          : BOOLEAN,
                 authMechanisms   : SUBSET {"LOGIN", "PLAIN"},
                 Authenticator    : BOOLEAN,  \* Authenticator # nil
                 Handler          : BOOLEAN,  \* Handler # nil
                 RecipientChecker : BOOLEAN]  \* RecipientChecker # nil

ASSUME ConfigsAssumption == Configs \subseteq ServerConfig

ASSUME LimitsAssumption == /\ BadCmds \in Nat
                           /\ MsgSize \in Nat
                           /\ DefaultMsgSize \in Nat
                           /\ MaxRcptCount \in Nat

ASSUME BodyTypesAssumption == {"", "BINARYMIME"} \subseteq BodyTypes

VARIABLES
    srv,            \* the Server's configuration, never changed
    pc,             \* where the goroutine of the session is
    state,          \* sessionState
    helloSeen,
    bodyType,
    bad,            \* badCommandsCount
    tls,
    authenticated,  \* peer.Authenticated
    username,       \* peer.Username
    envelope,
    deadline,       \* the read deadline in force on the connection
    broken,         \* the buffered writer has failed; its error is sticky
    local           \* local variables of the handler that is waiting

\* The client as the session's reader sees it: it may still send, it sends
\* nothing more, or the connection is closed.
VARIABLE client

\* What the last step did to the outside: the replies that were flushed and
\* the messages given to Handler.
VARIABLES replies, handed

\* History: what the replies so far tell the client about the transaction.
VARIABLE told

SessionState == {"Init", "GotMail", "GotRcpt", "ReadyForData", "GettingData",
                 "DataDone", "Aborted", "WaitingForQuit"}

Deadline == {"none", "cmd", "msg", "tls"}

\* Points inside AUTH at which the session waits for a line
AuthPC == {"loginUser", "loginPass1", "loginPass2", "plain"}

Terminal == {"closed", "panic"}

PC == {"welcome", "read", "handshake", "data", "bdat"} \cup AuthPC \cup Terminal

\* login: user name of an AUTH LOGIN; size: text of DATA read so far, and
\* lines, history: in how many lines; chunk, last: of a BDAT
NoLocal == [login |-> NoUser, size |-> 0, lines |-> 0, chunk |-> 0,
            last |-> FALSE]

Local == [login : Users \cup {NoUser}, size : Nat, lines : Nat, chunk : Nat,
          last : BOOLEAN]

\* A message given to Handler: the envelope, and what there was to read of it
Handoff == [env : Envelope, octets : Nat, dot : BOOLEAN, size : Nat,
            lines : Nat]

\* mail: MAIL was answered 250; rcpts: the recipients answered 250
Told == [mail : BOOLEAN, rcpts : Seq(Address)]

NothingTold == [mail |-> FALSE, rcpts |-> <<>>]

peerVars == <<authenticated, username>>
vars == <<srv, pc, state, helloSeen, bodyType, bad, tls, authenticated,
          username, envelope, deadline, broken, local, client, replies,
          handed, told>>

AuthRequired == srv.authMechanisms # {}

-----------------------------------------------------------------------------
\* Replies, by their name in Codes (response.go) or, for those written out in
\* the handlers, by their code
Reply ==
    {"SuccessStartTLSCmd", "SuccessMailCmd", "SuccessRcptCmd", "SuccessDataCmd",
     "SuccessMessageQueued", "SuccessNoopCmd", "SuccessHelpCmd",
     "SuccessResetCmd", "SuccessQuitCmd", "SuccessAuthentication",
     "FailBadSequence", "FailCmdNotSupported", "FailUndefinedSecurityStatus",
     "FailEncryptionNeeded", "FailAccessDenied", "FailNestedMailCmd",
     "FailInvalidAddress", "FailInvalidExtension", "FailInvalidRecipient",
     "FailTooBig", "FailMailboxDoesntExist", "FailMailboxFull",
     "FailReadErrorDataCmd", "FailUnrecognizedCmd", "FailMaxUnrecognizedCmd",
     "FailMissingArgument", "FailAuthentication", "FailLineTooLong",
     "ErrorUnableToResolveHost", "ErrorTooManyRecipients", "ErrorAuth",
     "ErrorCmdParamNotImplemented", "220", "250-EHLO", "250 HELO",
     "250 BDAT ok", "250 BDAT finished", "252", "252 VRFY", "334", "451",
     "501", "503", "550", "554", "555"}

\* One flush per element of msgs.  A flush may fail (the client is gone, or
\* does not read before the write deadline) and then every later one does.
Flush(msgs) ==
    \/ /\ ~broken
       /\ replies' = msgs
       /\ broken' = FALSE
    \/ /\ broken' = TRUE
       /\ \E n \in 0 .. Len(msgs) - 1 : /\ broken => n = 0
                                        /\ replies' = SubSeq(msgs, 1, n)

\* Out, in a handler that leaves state st: a failed flush aborts the session.
Out(msgs, st) == /\ Flush(msgs)
                 /\ state' = IF broken' THEN "Aborted" ELSE st

\* Out, in a handler that assigns state afterwards: the abort is lost.
OutThen(msgs, st) == /\ Flush(msgs)
                     /\ state' = st

Silent == /\ replies' = <<>>
          /\ UNCHANGED broken

-----------------------------------------------------------------------------
\* Control

\* Mutant: the deadline is cleared instead of renewed
HandledWithoutDeadline ==
    /\ pc' = IF state' = "Aborted" THEN "closed" ELSE "read"
    /\ deadline' = "none"
    /\ local' = NoLocal

\* The end of a handler in Serve: leave the loop if the session was aborted,
\* else grant the client the command timeout for its next line.
Handled == /\ pc' = IF state' = "Aborted" THEN "closed" ELSE "read"
           /\ deadline' = IF state' = "Aborted" THEN deadline ELSE "cmd"
           /\ local' = NoLocal

\* An unrecovered panic: the goroutine, and with it the process, ends here.
PanicsAfter(msgs, st) ==
    /\ pc' = "panic"
    /\ IF msgs = <<>> THEN Silent /\ state' = st ELSE Out(msgs, st)
    /\ UNCHANGED <<deadline, local>>

Panics == PanicsAfter(<<>>, state)

\* A blocking read of more input, successful or not.  A read fails once the
\* connection is closed, or when a deadline is set and the client is too slow.
Receives == client = "active"

\* Mutant: only a timeout is taken for an error
ReadErrorOnTimeout == deadline # "none"

ReadError == client = "gone" \/ deadline # "none"

\* Mutant: the bad-command limit is not looked at
CommandUnlimited == pc = "read" /\ Receives

\* The Serve loop hands a parsed command to its handler.
Command == /\ pc = "read"
           /\ bad < BadCmds
           /\ Receives

BadCommand == bad' = bad + 1

=============================================================================
