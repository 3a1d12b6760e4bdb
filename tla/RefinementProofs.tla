-------------------------- MODULE RefinementProofs --------------------------
(***************************************************************************)
(* Session implements MailService, for all configurations, limits and       *)
(* inputs: a new session is a new service, and under the inductive          *)
(* invariant of SafetyProofs every step of a session is a step of the       *)
(* service or leaves it as it is.                                           *)
(***************************************************************************)
EXTENDS ServiceRefinement, SafetyProofs

\* The client has shown all that the server demands of it.
Trusted == helloSeen /\ Secured

\* The session has not ended.
Alive == pc \notin Terminal

\* A step keeps what the client has shown, and hands nothing over.
Plain == /\ Alive
         /\ Grows
         /\ handed' = {}

\* A step that leaves the transaction as it is, or ends the session
Keeps == /\ Plain
         /\ \/ pc' \in Terminal
            \/ told' = told /\ (pc = "data" <=> pc' = "data")

\* A step that ends the transaction, or the session
Drops == /\ Plain
         /\ pc # "data" /\ pc' # "data"
         /\ told' = NothingTold

-----------------------------------------------------------------------------
\* The steps of the service

\* Trust, where it changes at all, is gained.
LEMMA TrustGrows ==
    ASSUME TypeOK, TypeOK', Grows
    PROVE  Trusted' \in {Trusted, TRUE}
<1>1. Trusted => Trusted'
  BY SecuredGrows DEF Trusted, Grows
<1>2. Trusted \in BOOLEAN /\ Trusted' \in BOOLEAN
  BY DEF Trusted
<1> QED BY <1>1, <1>2

\* A step of the transaction changes nothing in what the client has shown.
LEMMA TrustKept == UNCHANGED transactionFrame => Trusted' = Trusted
BY DEF transactionFrame, peerVars, Trusted, Secured, AuthRequired

\* Nothing handed over is nothing given.
LEMMA NothingGiven == /\ handed = {} => {h.env.MailTo : h \in handed} = {}
                      /\ handed' = {} => {h.env.MailTo : h \in handed'} = {}
OBVIOUS

\* The end of a session, by whatever, is the end of the service.
LEMMA EndStep ==
    ASSUME TypeOK, TypeOK', Plain, pc' \in Terminal
    PROVE  Service!End
<1>1. Service!Open
  BY DEF Plain, Alive, Service!Open, ServicePhase
<1>2. Service!MayGainTrust
  BY TrustGrows DEF Plain, Service!MayGainTrust, Trusted
<1>3. ServicePhase' = "ended" /\ ServiceRcpts' = <<>>
  BY DEF ServicePhase, ServiceRcpts
<1> QED BY <1>1, <1>2, <1>3, NothingGiven DEF Service!End, Plain

\* A step that keeps the transaction is not visible in the service.
LEMMA KeepsStep ==
    ASSUME TypeOK, TypeOK', Keeps
    PROVE  Service!Next
<1>1. Plain
  BY DEF Keeps
<1>2. CASE pc' \in Terminal
  BY <1>1, <1>2, EndStep DEF Service!Next
<1>3. CASE pc' \notin Terminal
  <2>1. ServicePhase' = ServicePhase /\ ServiceRcpts' = ServiceRcpts
    BY <1>3 DEF Keeps, Plain, Alive, ServicePhase, ServiceRcpts
  <2>2. Service!Open
    BY <1>1 DEF Plain, Alive, Service!Open, ServicePhase
  <2>3. Service!MayGainTrust
    BY <1>1, TrustGrows DEF Plain, Service!MayGainTrust, Trusted
  <2> QED BY <1>1, <2>1, <2>2, <2>3, NothingGiven
          DEF Plain, Service!Other, Service!Next
<1> QED BY <1>2, <1>3

\* A reset of the session abandons the transaction.
LEMMA DropsStep ==
    ASSUME TypeOK, TypeOK', Drops
    PROVE  Service!Next
<1>1. Plain
  BY DEF Drops
<1>2. CASE pc' \in Terminal
  BY <1>1, <1>2, EndStep DEF Service!Next
<1>3. CASE pc' \notin Terminal
  <2>1. ServicePhase \in {"idle", "sender"}
    BY DEF Drops, Plain, Alive, ServicePhase
  <2>2. ServicePhase' = "idle" /\ ServiceRcpts' = <<>>
    BY <1>3 DEF Drops, ServicePhase, ServiceRcpts, NothingTold
  <2>3. Service!MayGainTrust
    BY <1>1, TrustGrows DEF Plain, Service!MayGainTrust, Trusted
  <2> QED BY <1>1, <2>1, <2>2, <2>3, NothingGiven
          DEF Plain, Service!Abandon, Service!Next
<1> QED BY <1>2, <1>3

-----------------------------------------------------------------------------
\* The transaction

\* MAIL starts over, with a sender if its 250 reached the client (handleMail).
LEMMA MailStep ==
    ASSUME TypeOK, TypeOK', NEW from, NEW senderOk, NEW exts, NEW resolves,
           handleMail(from, senderOk, exts, resolves)
    PROVE  Service!Next
<1>1. /\ Alive /\ pc # "data" /\ handed' = {} /\ UNCHANGED transactionFrame
      /\ Plain
  BY FrameGrows DEF handleMail, Command, Alive, Terminal, Plain
<1>2. pc' # "data"
  BY HandledEffect, PanicsEffect DEF handleMail, MailExtensions
<1>3. CASE told' = NothingTold
  BY <1>1, <1>2, <1>3, DropsStep DEF Drops
<1>4. CASE /\ Out(<<MailReply("Init")>>, AfterMail("Init")) /\ Handled
           /\ told' = [NothingTold EXCEPT !.mail = ~broken']
  <2>1. CASE pc' \in Terminal
    BY <1>1, <2>1, EndStep DEF Service!Next
  <2>2. CASE pc' \notin Terminal
    <3>1. broken' = FALSE
      BY <1>4, <2>2, OutEffect, HandledEffect DEF Terminal
    <3>2. told' = [mail |-> TRUE, rcpts |-> <<>>]
      BY <1>4, <3>1 DEF NothingTold
    <3>3. ServicePhase \in {"idle", "sender"}
      BY <1>1 DEF Alive, ServicePhase
    <3>4. ServicePhase' = "sender" /\ ServiceRcpts' = <<>>
      BY <1>2, <2>2, <3>2 DEF ServicePhase, ServiceRcpts
    <3>5. Service!Begin
      BY <1>1, <3>3, <3>4, TrustKept, NothingGiven DEF Service!Begin, Trusted
    <3> QED BY <3>5 DEF Service!Next
  <2> QED BY <2>1, <2>2
<1> QED BY <1>3, <1>4 DEF handleMail, MailExtensions

\* RCPT adds the recipient it was answered 250 for, and does nothing else that
\* the client could know of (handleRcpt).
LEMMA RcptStep ==
    ASSUME TypeOK, TypeOK', NEW rcpt \in Address \cup {NoAddress}, NEW args,
           NEW verdict, handleRcpt(rcpt, args, verdict)
    PROVE  Service!Next
<1>1. /\ Alive /\ pc # "data" /\ handed' = {} /\ UNCHANGED transactionFrame
      /\ Plain
  BY FrameGrows DEF handleRcpt, Command, Alive, Terminal, Plain
<1>2. pc' # "data"
  BY HandledEffect, PanicsEffect DEF handleRcpt, Panics
<1>3. CASE told' = told
  BY <1>1, <1>2, <1>3, KeepsStep DEF Keeps
<1>4. CASE /\ RcptRefusal(rcpt, args, verdict) = "" /\ args # <<>>
           /\ told' = [told EXCEPT !.rcpts = Append(@, rcpt)]
  <2>1. rcpt \in Address
    BY <1>4 DEF RcptRefusal
  <2>2. told'.mail = told.mail /\ told'.rcpts = Append(told.rcpts, rcpt)
    BY <1>4 DEF TypeOK, Told
  <2>3. CASE pc' \in Terminal
    BY <1>1, <2>3, EndStep DEF Service!Next
  <2>4. CASE pc' \notin Terminal
    <3>1. /\ ServicePhase \in {"idle", "sender"}
          /\ ServicePhase' = ServicePhase
      BY <1>1, <1>2, <2>2, <2>4 DEF Alive, ServicePhase
    <3>2. ServiceRcpts' = Append(ServiceRcpts, rcpt)
      BY <1>1, <2>2, <2>4 DEF Alive, ServiceRcpts
    <3>3. Service!AddRecipient(rcpt)
      BY <1>1, <3>1, <3>2, TrustKept, NothingGiven
         DEF Service!AddRecipient, Trusted
    <3> QED BY <2>1, <3>3 DEF Service!Next
  <2> QED BY <2>3, <2>4
<1> QED BY <1>3, <1>4 DEF handleRcpt, RcptAccepts

\* DATA takes text only for a sender and recipients the client was told of,
\* from a trusted client (handleData).
LEMMA DataStep ==
    ASSUME IInv, TypeOK', handleData
    PROVE  Service!Next
<1>1. /\ Alive /\ pc # "data" /\ handed' = {} /\ UNCHANGED transactionFrame
      /\ Plain /\ told' = told /\ TypeOK
  BY FrameGrows DEF handleData, Command, Alive, Terminal, Plain, IInv
<1>2. CASE Handled
  BY <1>1, <1>2, HandledEffect, KeepsStep DEF Keeps
<1>3. CASE state = "ReadyForData" /\ pc' = "data"
  <2>1. broken = FALSE
    BY <1>3 DEF IInv, LostInv, TypeOK
  <2>2. Phase(told) = "ReadyForData"
    BY <1>1, <1>3, <2>1 DEF IInv, SyncInv, Alive
  <2>3. told.mail /\ told.rcpts # <<>>
    BY <2>2 DEF Phase
  <2>4. Trusted
    BY <1>3 DEF IInv, StateInv, Trusted
  <2>5. ServicePhase = "sender" /\ ServiceRcpts # <<>>
    BY <1>1, <2>3 DEF Alive, ServicePhase, ServiceRcpts
  <2>6. ServicePhase' = "text" /\ ServiceRcpts' = ServiceRcpts
    BY <1>1, <1>3 DEF Alive, ServicePhase, ServiceRcpts, Terminal
  <2>7. Service!TakeText
    BY <1>1, <2>4, <2>5, <2>6, TrustKept, NothingGiven
       DEF Service!TakeText, Trusted
  <2> QED BY <2>7 DEF Service!Next
<1> QED BY <1>2, <1>3 DEF handleData

\* A message that is too big is refused, and its transaction stays open.
LEMMA TooBigStep ==
    ASSUME IInv, TypeOK', DataTooBig
    PROVE  Service!Next
<1>1. /\ pc = "data" /\ Alive /\ handed' = {} /\ UNCHANGED transactionFrame
      /\ Plain /\ told' = told /\ TypeOK /\ Handled
  BY FrameGrows DEF DataTooBig, Alive, Terminal, Plain, IInv
<1>2. CASE pc' \in Terminal
  BY <1>1, <1>2, EndStep DEF Service!Next
<1>3. CASE pc' \notin Terminal
  <2>1. pc' = "read"
    BY <1>1, <1>3, HandledEffect DEF Terminal
  <2>2. told.mail
    BY <1>1 DEF IInv, DataInv
  <2>3. /\ ServicePhase = "text" /\ ServicePhase' = "sender"
        /\ ServiceRcpts' = ServiceRcpts
    BY <1>1, <2>1, <2>2 DEF Alive, ServicePhase, ServiceRcpts, Terminal
  <2>4. Service!RefuseText
    BY <1>1, <2>3, TrustKept, NothingGiven DEF Service!RefuseText, Trusted
  <2> QED BY <2>4 DEF Service!Next
<1> QED BY <1>2, <1>3

\* The end of the text gives the message to Handler, once and for exactly the
\* recipients the client was told of; without a Handler the session panics.
LEMMA DoneStep ==
    ASSUME IInv, TypeOK', NEW dot \in BOOLEAN, NEW queued, DataDone(dot, queued)
    PROVE  Service!Next
<1>1. pc = "data" /\ Alive /\ UNCHANGED transactionFrame /\ TypeOK
  BY DEF DataDone, Alive, Terminal, IInv
<1>2. CASE Panics /\ handed' = {}
  <2>1. Plain /\ pc' \in Terminal
    BY <1>1, <1>2, FrameGrows, PanicsEffect DEF Plain, Panics, Terminal
  <2> QED BY <1>1, <2>1, EndStep DEF Service!Next
<1>3. CASE srv.Handler /\ Handled /\ told' = NothingTold
  <2>1. PICK e \in Closed(AddHeaders(envelope, ServerHeaders)) :
              handed' = {[env |-> e, octets |-> envelope.data, dot |-> dot,
                          size |-> local.size, lines |-> local.lines]}
    BY <1>3 DEF DataDone
  <2>2. ServerHeaders \in SUBSET AddedHeader /\ envelope \in Envelope
    BY <1>1 DEF ServerHeaders, AddedHeader, TypeOK
  <2>3. e.MailTo = told.rcpts
    BY <1>1, <2>1, <2>2, AddHeadersType, ClosedType DEF IInv, DataInv
  <2>4. {h.env.MailTo : h \in handed'} = {ServiceRcpts}
    BY <1>1, <2>1, <2>3 DEF ServiceRcpts, Alive
  <2>5. state' = "Init"
    BY <1>3, OutThenEffect DEF DataDone
  <2>6. pc' = "read"
    BY <1>3, <2>5, HandledEffect
  <2>7. /\ ServicePhase = "text" /\ ServicePhase' = "idle"
        /\ ServiceRcpts' = <<>>
    BY <1>1, <1>3, <2>6
       DEF ServicePhase, ServiceRcpts, Terminal, NothingTold
  <2>8. Service!Deliver
    BY <1>1, <2>4, <2>7, TrustKept DEF Service!Deliver, Trusted
  <2> QED BY <2>8 DEF Service!Next
<1> QED BY <1>2, <1>3 DEF DataDone

\* The other steps of a transaction leave it as it is, or end the session.
LEMMA TransactionStep ==
    ASSUME TypeOK, TypeOK',
           \/ \E n : DataLine(n)
           \/ DataReadFails \/ handleBdatNoArgs \/ BdatChunk \/ BdatReadFails
           \/ \E n, valid, last : handleBdat(n, valid, last)
    PROVE  Service!Next
<1>1. UNCHANGED transactionFrame /\ told' = told /\ handed' = {} /\ Alive
  BY DEF DataLine, DataReadFails, handleBdatNoArgs, BdatChunk, BdatReadFails,
         handleBdat, Command, Alive, Terminal
<1>2. pc' \in Terminal \/ (pc = "data" <=> pc' = "data")
  <2>1. CASE \E n : DataLine(n)
    BY <2>1 DEF DataLine
  <2>2. CASE DataReadFails
    BY <2>2, OutThenEffect, HandledEffect DEF DataReadFails, Terminal
  <2>3. CASE handleBdatNoArgs \/ BdatChunk \/ BdatReadFails
    BY <2>3, HandledEffect
       DEF handleBdatNoArgs, BdatChunk, BdatReadFails, Command
  <2>4. CASE \E n, valid, last : handleBdat(n, valid, last)
    BY <2>4, HandledEffect, PanicsEffect DEF handleBdat, Command, Panics
  <2> QED BY <2>1, <2>2, <2>3, <2>4
<1>3. Keeps
  BY <1>1, <1>2, FrameGrows DEF Keeps, Plain
<1> QED BY <1>3, KeepsStep

-----------------------------------------------------------------------------
\* The other commands, the loop and the client

\* HELO, EHLO and RSET abandon the transaction, on both sides.
LEMMA ResetStep ==
    ASSUME TypeOK, TypeOK',
           \/ \E n, refused, reply : Hello(n, refused, reply)
           \/ handleRset
    PROVE  Service!Next
<1>1. ASSUME NEW n, NEW refused, NEW reply, Hello(n, refused, reply)
      PROVE  Drops
  <2>1. Grows /\ handed' = {} /\ pc = "read" /\ told' = NothingTold
    BY <1>1 DEF Hello, Command, Grows, peerVars
  <2>2. pc' # "data"
    BY <1>1 DEF Hello, Handled, PanicsAfter
  <2> QED BY <2>1, <2>2 DEF Drops, Plain, Alive, Terminal
<1>2. CASE handleRset
  <2>1. UNCHANGED transactionFrame
    BY <1>2 DEF handleRset, transactionFrame
  <2>2. handed' = {} /\ pc = "read" /\ told' = NothingTold /\ pc' # "data"
    BY <1>2 DEF handleRset, Command, Handled
  <2>3. Grows
    BY <2>1, FrameGrows
  <2> QED BY <2>2, <2>3, DropsStep DEF Drops, Plain, Alive, Terminal
<1> QED BY <1>1, <1>2, DropsStep

\* STARTTLS changes nothing, its handshake abandons the transaction, and may
\* make the client trusted.
LEMMA TLSStep ==
    ASSUME TypeOK, TypeOK', handleStartTLS \/ Handshake
    PROVE  Service!Next
<1>1. Plain /\ pc # "data"
  BY DEF handleStartTLS, Handshake, Command, Plain, Alive, Terminal, Grows,
         peerVars
<1>2. pc' # "data"
  BY HandledEffect DEF handleStartTLS, Handshake
<1>3. told' = told \/ told' = NothingTold
  BY DEF handleStartTLS, Handshake
<1> QED BY <1>1, <1>2, <1>3, KeepsStep, DropsStep DEF Keeps, Drops

\* AUTH does not touch the transaction, and may make the client trusted.
LEMMA AuthenticationStep ==
    ASSUME IInv, TypeOK', AnyAuthentication
    PROVE  Service!Next
<1>1. TypeOK /\ AuthStep
  BY DEF AnyAuthentication, handleAuth, AuthDialogue, LoginUser, LoginPassword1,
         LoginPassword2, PlainResponse, IInv
<1>2. pc \in {"read"} \cup AuthPC
  BY DEF AnyAuthentication, handleAuth, Command, AuthDialogue, LoginUser,
         LoginPassword1, LoginPassword2, PlainResponse, AuthPC
<1>3. authenticated => authenticated'
  BY NextKeepsIdentity DEF AnyNext, AnyServe
<1>4. Plain /\ told' = told /\ pc # "data"
  BY <1>1, <1>2, <1>3 DEF AuthStep, authFrame, Plain, Alive, Grows, AuthPC,
                          Terminal
<1>5. pc' # "data"
  <2>1. DialogueAborts \/ Panics => pc' # "data"
    BY DEF DialogueAborts, Panics, PanicsAfter, Handled
  <2>2. ASSUME NEW r, NEW st, Malformed(r, st)
        PROVE  pc' # "data"
    BY <2>2 DEF Malformed, Handled
  <2>3. ASSUME NEW user, NEW verdict, checkLogin(user, verdict)
        PROVE  pc' # "data"
    BY <2>3 DEF checkLogin, Handled, Panics, PanicsAfter
  <2>4. ASSUME NEW user, NEW at \in AuthPC, Prompt(user, at)
        PROVE  pc' # "data"
    BY <2>4 DEF Prompt, AuthPC
  <2>5. ASSUME NEW mech, NEW n, handleAuth(mech, n)
        PROVE  pc' # "data"
    <3>1. CASE handleLoginAuth(n)
      BY <3>1, <2>2, <2>3, <2>4 DEF handleLoginAuth, AuthPC
    <3>2. CASE handlePlainAuth(n)
      BY <3>2, <2>1, <2>2, <2>3, <2>4 DEF handlePlainAuth, AuthPC
    <3> QED BY <2>2, <2>5, <3>1, <3>2 DEF handleAuth
  <2>6. CASE AuthDialogue
    BY <2>6, <2>1, <2>2, <2>3, <2>4
       DEF AuthDialogue, LoginUser, LoginUserLine, LoginPassword1,
           LoginPassword1Line, LoginPassword2, LoginPassword2Line,
           LoginPassword2Fails, PlainResponse, PlainLine, DialoguePanics, AuthPC
  <2> QED BY <2>5, <2>6 DEF AnyAuthentication
<1> QED BY <1>1, <1>4, <1>5, KeepsStep DEF Keeps

\* Replies, refused lines, the end of the loop and what the client does to the
\* connection are not visible in the service.
LEMMA LoopStep ==
    ASSUME TypeOK, TypeOK',
           \/ handleNoop \/ handleHelp \/ handleVrfy \/ handleExpn \/ handleQuit
           \/ handleWelcome \/ TooManyBadCommands \/ ReadLineFails
           \/ BareNewline \/ Unrecognized \/ Client
    PROVE  Service!Next
<1>1. /\ UNCHANGED transactionFrame \/ Grows
      /\ handed' = {} /\ told' = told
  <2>1. CASE Client
    BY <2>1 DEF Client, Grows, peerVars
  <2>2. CASE ~Client
    BY <2>2 DEF handleNoop, handleHelp, handleVrfy, handleExpn, Replies,
                handleQuit, handleWelcome, TooManyBadCommands, ReadLineFails,
                BareNewline, Unrecognized, loopFrame, transactionFrame
  <2> QED BY <2>1, <2>2
<1>2. Plain
  <2>1. Alive
    BY DEF handleNoop, handleHelp, handleVrfy, handleExpn, Replies, handleQuit,
           handleWelcome, TooManyBadCommands, ReadLineFails, BareNewline,
           Unrecognized, Client, Command, Alive, Terminal
  <2> QED BY <1>1, <2>1, FrameGrows DEF Plain
<1>3. pc = "data" <=> pc' = "data"
  <2>1. CASE handleNoop \/ handleHelp \/ handleVrfy \/ handleExpn \/ handleQuit
    BY <2>1 DEF handleNoop, handleHelp, handleVrfy, handleExpn, Replies,
                handleQuit, Command, Handled
  <2>2. CASE BareNewline
    BY <2>2 DEF BareNewline, Command, Panics, PanicsAfter
  <2>3. CASE \/ handleWelcome \/ TooManyBadCommands \/ ReadLineFails
             \/ Unrecognized \/ Client
    BY <2>3 DEF handleWelcome, TooManyBadCommands, ReadLineFails, Unrecognized,
                Client
  <2> QED BY <2>1, <2>2, <2>3
<1> QED BY <1>1, <1>2, <1>3, KeepsStep DEF Keeps

-----------------------------------------------------------------------------
\* The refinement

\* A new session is a new service.
LEMMA InitRefines == Init => Service!Init
<1> SUFFICES ASSUME Init PROVE Service!Init
  OBVIOUS
<1>1. ServicePhase = "idle" /\ ServiceRcpts = <<>>
  BY DEF Init, ServicePhase, ServiceRcpts, Terminal, NothingTold
<1>2. (helloSeen /\ Secured) = FALSE /\ handed = {}
  BY DEF Init
<1> QED BY <1>1, <1>2, NothingGiven DEF Service!Init

\* A step that changes nothing in the session changes nothing in the service.
LEMMA StutterRefines == UNCHANGED vars => UNCHANGED Service!vars
BY DEF vars, Service!vars, ServicePhase, ServiceRcpts, Secured, AuthRequired

\* Every step of a session is one of the service, or none.
LEMMA NextRefines ==
    ASSUME IInv, [AnyNext]_vars
    PROVE  [Service!Next]_Service!vars
<1>1. TypeOK /\ TypeOK'
  BY NextType DEF IInv
<1>2. CASE UNCHANGED vars
  BY <1>2, StutterRefines
<1>3. CASE AnyGreeting \/ handleRset
  BY <1>1, <1>3, ResetStep DEF AnyGreeting, handleEhlo, handleHelo
<1>4. CASE handleStartTLS \/ Handshake
  BY <1>1, <1>4, TLSStep
<1>5. CASE AnyAuthentication
  BY <1>1, <1>5, AuthenticationStep
<1>6. CASE AnyTransaction
  <2>1. CASE \E from \in Address \cup {NoAddress}, senderOk \in BOOLEAN,
               exts \in Seq(Extension), resolves \in Resolutions :
                  handleMail(from, senderOk, exts, resolves)
    BY <1>1, <2>1, MailStep
  <2>2. CASE \E rcpt \in Address \cup {NoAddress}, args \in Seq(Extension),
               verdict \in {"", "FailMailboxDoesntExist", "FailMailboxFull",
                            "FailAccessDenied"} :
                  handleRcpt(rcpt, args, verdict)
    BY <1>1, <2>2, RcptStep
  <2>3. CASE handleData \/ DataTooBig
    BY <1>1, <2>3, DataStep, TooBigStep
  <2>4. CASE \E dot \in BOOLEAN, queued \in BOOLEAN : DataDone(dot, queued)
    BY <1>1, <2>4, DoneStep
  <2>5. CASE \/ \E n \in Nat : DataLine(n)
             \/ DataReadFails \/ handleBdatNoArgs \/ BdatChunk \/ BdatReadFails
             \/ \E n \in Int, valid \in BOOLEAN, last \in BOOLEAN :
                   handleBdat(n, valid, last)
    BY <1>1, <2>5, TransactionStep
  <2> QED BY <1>6, <2>1, <2>2, <2>3, <2>4, <2>5 DEF AnyTransaction
<1>7. CASE \/ handleNoop \/ handleHelp \/ handleVrfy \/ handleExpn \/ handleQuit
           \/ handleWelcome \/ TooManyBadCommands \/ ReadLineFails
           \/ BareNewline \/ Unrecognized \/ Client
  BY <1>1, <1>7, LoopStep
<1> QED BY <1>2, <1>3, <1>4, <1>5, <1>6, <1>7 DEF AnyNext, AnyServe, Ended

\* A session implements the abstract service: whatever the client sends, in
\* whatever order, and whichever replies are lost, Handler gets a message at
\* most once, after text taken from a trusted client, and for exactly the
\* recipients the replies named (session.go).
THEOREM SessionImplementsService == Spec => ServiceSpec
<1>1. Init => Service!Init
  BY InitRefines
<1>2. IInv /\ [Next]_vars => [Service!Next]_Service!vars
  BY NextRefines, NextIsAnyNext
<1> QED BY <1>1, <1>2, InductiveInvariant, PTL DEF Spec, ServiceSpec, Service!Spec

=============================================================================
