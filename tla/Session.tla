------------------------------- MODULE Session -------------------------------
(***************************************************************************)
(* One SMTP session: the Serve loop and the remaining command handlers of   *)
(* session.go, composed with the AUTH dialogues of Auth, the transaction of *)
(* Transaction, and the client as environment.                              *)
(***************************************************************************)
EXTENDS Auth, Transaction

Init ==
    /\ srv \in Configs
    /\ pc = "welcome"
    /\ state = "Init"
    /\ helloSeen = FALSE
    /\ bodyType = ""
    /\ bad = 0
    /\ tls = srv.implicitTLS
    /\ authenticated = FALSE
    /\ username = NoUser
    /\ envelope = NewEnvelope
    /\ deadline = "none"
    /\ broken = FALSE
    /\ local = NoLocal
    /\ client = "active"
    /\ replies = <<>>
    /\ handed = {}
    /\ told = NothingTold

-----------------------------------------------------------------------------
\* HELO and EHLO reset the session.  A HeloChecker error is reported, and the
\* greeting is sent all the same; a missing argument panics.

Hello(n, refused, reply) ==
    /\ Command
    /\ envelope' = EnvReset(envelope)
    /\ helloSeen' = TRUE
    /\ told' = NothingTold
    /\ handed' = {}
    /\ \/ n = 0 /\ PanicsAfter(<<>>, "Init")
       \/ /\ n > 0
          /\ Out(IF refused THEN <<"550", reply>> ELSE <<reply>>, "Init")
          /\ Handled
    /\ UNCHANGED <<srv, client, bodyType, bad, tls, peerVars>>

handleEhlo(n, refused) == Hello(n, refused, "250-EHLO")

handleHelo(n, refused) == Hello(n, refused, "250 HELO")

-----------------------------------------------------------------------------
\* STARTTLS, and the handshake that follows an accepted one.  A handshake
\* that fails leaves the session as it was, unencrypted.

handleStartTLS ==
    /\ Command
    /\ handed' = {}
    /\ \/ tls /\ Out(<<"FailBadSequence">>, state) /\ BadCommand /\ Handled
       \/ /\ ~tls /\ ~srv.TLSConfig
          /\ Out(<<"FailCmdNotSupported">>, state)
          /\ Handled
          /\ UNCHANGED bad
       \/ /\ ~tls /\ srv.TLSConfig
          /\ Out(<<"SuccessStartTLSCmd">>, state)
          /\ pc' = "handshake"
          /\ deadline' = "tls"
          /\ UNCHANGED <<bad, local>>
    /\ UNCHANGED <<srv, client, helloSeen, bodyType, tls, peerVars, envelope,
                   told>>

Handshake ==
    /\ pc = "handshake"
    /\ handed' = {}
    /\ \/ /\ Receives
          /\ envelope' = EnvReset(envelope)
          /\ told' = NothingTold
          /\ tls' = TRUE
          /\ state' = "Init"
          /\ replies' = <<>>
          /\ broken' = FALSE
       \/ /\ Out(<<"FailUndefinedSecurityStatus">>, state)
          /\ UNCHANGED <<envelope, told, tls>>
    /\ Handled
    /\ UNCHANGED <<srv, client, helloSeen, bodyType, bad, peerVars>>

-----------------------------------------------------------------------------
\* The commands that do little more than reply

Replies(reply) == /\ Command
                  /\ Out(<<reply>>, state)
                  /\ Handled
                  /\ handed' = {}
                  /\ UNCHANGED <<srv, client, helloSeen, bodyType, bad, tls,
                                 peerVars, envelope, told>>

handleNoop == Replies("SuccessNoopCmd")

handleHelp == Replies("SuccessHelpCmd")

handleVrfy == Replies("252 VRFY")

handleExpn == Replies("252")

\* Mutant: RSET does not answer
handleRsetSilent ==
    /\ Command
    /\ envelope' = EnvReset(envelope)
    /\ state' = "Init"
    /\ Silent
    /\ Handled
    /\ told' = NothingTold
    /\ handed' = {}
    /\ UNCHANGED <<srv, client, helloSeen, bodyType, bad, tls, peerVars>>

\* Mutant: RSET answers for the reset and once more for the command
handleRsetTwice ==
    /\ Command
    /\ envelope' = EnvReset(envelope)
    /\ Out(<<"SuccessResetCmd", "SuccessResetCmd">>, "Init")
    /\ Handled
    /\ told' = NothingTold
    /\ handed' = {}
    /\ UNCHANGED <<srv, client, helloSeen, bodyType, bad, tls, peerVars>>

handleRset ==
    /\ Command
    /\ envelope' = EnvReset(envelope)
    /\ Out(<<"SuccessResetCmd">>, "Init")
    /\ Handled
    /\ told' = NothingTold
    /\ handed' = {}
    /\ UNCHANGED <<srv, client, helloSeen, bodyType, bad, tls, peerVars>>

handleQuit ==
    /\ Command
    /\ OutThen(<<"SuccessQuitCmd">>, "Aborted")
    /\ Handled
    /\ handed' = {}
    /\ UNCHANGED <<srv, client, helloSeen, bodyType, bad, tls, peerVars,
                   envelope, told>>

-----------------------------------------------------------------------------
\* The Serve loop around the handlers

loopFrame == <<srv, client, helloSeen, bodyType, tls, peerVars, envelope,
               local, told>>

\* A TLS listener shakes hands with the first write, which waits for the
\* client without a read deadline.  A failed flush is not looked at.
handleWelcome ==
    /\ pc = "welcome"
    /\ srv.implicitTLS => client # "silent"
    /\ Out(<<"220">>, state)
    /\ pc' = "read"
    /\ handed' = {}
    /\ UNCHANGED <<loopFrame, bad, deadline>>

TooManyBadCommands ==
    /\ pc = "read"
    /\ bad >= BadCmds
    /\ OutThen(<<"FailMaxUnrecognizedCmd">>, "Aborted")
    /\ pc' = "closed"
    /\ handed' = {}
    /\ UNCHANGED <<loopFrame, bad, deadline>>

ReadLineFails ==
    /\ pc = "read"
    /\ bad < BadCmds
    /\ ReadError
    /\ Silent
    /\ pc' = "closed"
    /\ handed' = {}
    /\ UNCHANGED <<loopFrame, state, bad, deadline>>

\* ReadLine cuts off two characters of a line that is only LF.
BareNewline ==
    /\ Command
    /\ Panics
    /\ handed' = {}
    /\ UNCHANGED <<srv, client, helloSeen, bodyType, bad, tls, peerVars,
                   envelope, told>>

\* parseCommand refuses the line: the loop goes on at once, without looking
\* at the state and without a new deadline.
Unrecognized ==
    /\ Command
    /\ Out(<<"FailUnrecognizedCmd">>, state)
    /\ BadCommand
    /\ handed' = {}
    /\ UNCHANGED <<loopFrame, pc, deadline>>

-----------------------------------------------------------------------------
\* The client as environment

Client ==
    /\ pc \notin Terminal
    /\ \/ client = "active" /\ client' = "silent"
       \/ client # "gone" /\ client' = "gone"
    /\ Silent
    /\ handed' = {}
    /\ UNCHANGED <<srv, pc, state, helloSeen, bodyType, bad, tls, peerVars,
                   envelope, deadline, local, told>>

Ended == pc \in Terminal /\ UNCHANGED vars

Greeting ==
    \/ \E n \in {0, 1}, refused \in BOOLEAN : handleEhlo(n, refused)
    \/ \E n \in {0, 1}, refused \in BOOLEAN : handleHelo(n, refused)

Authentication ==
    \/ \E mech \in {"LOGIN", "PLAIN", "OTHER"}, n \in 0 .. 3 : handleAuth(mech, n)
    \/ AuthDialogue

MailTransaction ==
    \/ \E from \in Address \cup {NoAddress}, senderOk \in BOOLEAN,
          exts \in MailExtLists, resolves \in Resolutions :
             handleMail(from, senderOk, exts, resolves)
    \/ \E rcpt \in Address \cup {NoAddress}, args \in RcptArgLists,
          verdict \in {"", "FailMailboxDoesntExist", "FailMailboxFull",
                       "FailAccessDenied"} :
             handleRcpt(rcpt, args, verdict)
    \/ handleData
    \/ \E n \in LineLengths : DataLine(n)
    \/ DataReadFails
    \/ DataTooBig
    \/ \E dot \in BOOLEAN, queued \in BOOLEAN : DataDone(dot, queued)
    \/ \E n \in ChunkSizes, valid \in BOOLEAN, last \in BOOLEAN :
          handleBdat(n, valid, last)
    \/ handleBdatNoArgs
    \/ BdatChunk
    \/ BdatReadFails

Serve ==
    \/ handleWelcome \/ TooManyBadCommands \/ ReadLineFails \/ BareNewline
    \/ Unrecognized
    \/ Greeting \/ handleStartTLS \/ Handshake \/ Authentication
    \/ MailTransaction
    \/ handleNoop \/ handleHelp \/ handleVrfy \/ handleExpn \/ handleRset
    \/ handleQuit

Next == Serve \/ Client \/ Ended

Spec == Init /\ [][Next]_vars

\* A session goes on by itself wherever it does not wait for input, and where
\* it does, a closed connection and an expired deadline end the wait.  Nothing
\* is assumed about a client that may still send.
Unblocked == \/ client # "active"
             \/ pc = "welcome"
             \/ pc = "read" /\ bad >= BadCmds
             \/ pc = "data" /\ ~MoreText

FairSpec == Spec /\ WF_vars(Unblocked /\ Serve)

-----------------------------------------------------------------------------
\* The states between two steps: WaitingForQuit, which the Serve loop looks
\* for, is overwritten before handleData returns.
RestState == SessionState \ {"WaitingForQuit"}

\* Type invariant
TypeOK ==
    /\ srv \in Configs
    /\ pc \in PC
    /\ state \in RestState
    /\ helloSeen \in BOOLEAN
    /\ bodyType \in BodyTypes
    /\ bad \in Nat
    /\ tls \in BOOLEAN
    /\ authenticated \in BOOLEAN
    /\ username \in Users \cup {NoUser}
    /\ envelope \in Envelope
    /\ deadline \in Deadline
    /\ broken \in BOOLEAN
    /\ local \in Local
    /\ client \in {"active", "silent", "gone"}
    /\ replies \in Seq(Reply)
    /\ handed \in SUBSET Handoff
    /\ told \in Told

-----------------------------------------------------------------------------
\* Safety

Secured == /\ srv.TLSOnly => tls
           /\ AuthRequired => authenticated

\* Whatever the order of commands, refusals, resets and TLS upgrades, Handler
\* gets a message only after a greeting, over TLS where TLSOnly is set and
\* from an authenticated client where mechanisms are configured (the checks
\* are made by handleMail and handleRcpt, the delivery by handleData).
DeliveryGated == handed # {} => helloSeen /\ Secured

\* The recipients Handler gets are the ones, in order, to which the client was
\* answered 250 since the MAIL command it was answered 250 to.
RecipientsAcknowledged ==
    [][\A h \in handed' : told.mail /\ h.env.MailTo = told.rcpts]_vars

Phase(t) == IF t.rcpts = <<>>
            THEN IF t.mail THEN "GotMail" ELSE "Init"
            ELSE IF t.mail THEN "ReadyForData" ELSE "GotRcpt"

\* Between two commands client and server agree about the transaction: the
\* state and the recipients are the ones the replies so far imply, except
\* after a message that was too big or a last BDAT.
InSync ==
    pc = "read" /\ ~broken =>
        /\ envelope.MailTo = told.rcpts
        /\ state \in {Phase(told), "GettingData", "DataDone"}

\* The buffer of a message holds the lines of its DATA command and nothing
\* else: no octets of an earlier message, of a refused one or of a BDAT.
MessageIsolated ==
    /\ pc = "data" => envelope.data = local.size + 2 * local.lines
    /\ \A h \in handed : h.octets = h.size + 2 * h.lines

\* Handler gets no message with more text than srv.Limits.MsgSize, and one
\* with less only when its final dot was read: what is cut short is refused or
\* its connection dropped.  (At the limit exactly, handleData stops reading and
\* delivers without having seen the dot.)
SizeRespected == \A h \in handed : /\ h.size <= MsgSize
                                   /\ h.size < MsgSize => h.dot

\* By how much MaxRcptCount is passed at most: handleRcpt compares before it
\* adds, and AddRecipient never refuses.  (That it is passed at all is
\* RecipientsWithinLimit of SessionClaims.)
RecipientsBounded == Len(envelope.MailTo) <= MaxRcptCount + 1

\* Credentials are only asked for over TLS, from a client that has not
\* authenticated, on a server with mechanisms; hence who is authenticated
\* is so over TLS.
AuthGuarded ==
    /\ pc \in AuthPC => tls /\ AuthRequired /\ ~authenticated
    /\ authenticated => tls /\ AuthRequired

\* Encryption and identity are never lost or exchanged during a session: no
\* later AUTH, failed or not, overwrites the name that was authenticated.
IdentityStable ==
    [][/\ tls => tls'
       /\ authenticated => authenticated' /\ username' = username]_vars

\* The bad-command counter never passes its limit: every handler that counts
\* does so at most once before the loop looks at the counter again.
BadCommandsBounded == bad <= BadCmds

-----------------------------------------------------------------------------
\* The inductive invariant behind the safety properties

\* No handler starts at the limit, so none that is waiting is there.
CounterInv == /\ BadCommandsBounded
              /\ pc \notin {"welcome", "read"} \cup Terminal => bad < BadCmds

\* A state in which MAIL was accepted is secured; one in which a recipient was
\* accepted has been greeted and has a recipient.
StateInv ==
    /\ state \in {"GotMail", "ReadyForData", "GettingData"} => Secured
    /\ state \in {"GotRcpt", "ReadyForData", "GettingData"} =>
          helloSeen /\ envelope.MailTo # <<>>

\* After a lost reply the session is aborted, unless the handler went on to
\* assign the state; in none of these states is a transaction open.
LostInv == broken => state \in {"Init", "GettingData", "DataDone", "Aborted"}

\* InSync, also while a handler waits
SyncInv ==
    pc \notin Terminal /\ ~broken =>
        /\ envelope.MailTo = told.rcpts
        /\ state \in {Phase(told), "GettingData", "DataDone"}

\* Message text is read for the transaction the client was told of.
DataInv ==
    pc = "data" => /\ state = "GettingData"
                   /\ told.mail
                   /\ envelope.MailTo = told.rcpts
                   /\ envelope.data = local.size + 2 * local.lines

HandedInv == DeliveryGated /\ MessageIsolated /\ SizeRespected

IInv == /\ TypeOK
        /\ CounterInv
        /\ AuthGuarded
        /\ StateInv
        /\ LostInv
        /\ SyncInv
        /\ DataInv
        /\ HandedInv

-----------------------------------------------------------------------------
\* Liveness, under FairSpec

\* A session whose client is gone ends, wherever it was.
DisconnectEnds == client = "gone" ~> pc \in Terminal

\* Once a read deadline is set, a client that falls silent cannot hold the
\* session: deadlines are renewed, but none is ever taken away.
ArmedDeadlineEnds ==
    client = "silent" /\ deadline # "none" ~> pc \in Terminal

=============================================================================
