---------------------------- MODULE SafetyProofs ----------------------------
(***************************************************************************)
(* The safety properties of a session, for all configurations, limits and   *)
(* inputs: each part of the inductive invariant IInv is kept by every       *)
(* action, and IInv implies the properties.                                 *)
(***************************************************************************)
EXTENDS SessionProofs

\* What the helpers mean for the state of the session
LEMMA OutEffect ==
    ASSUME TypeOK, NEW msgs, NEW st, Out(msgs, st)
    PROVE  \/ broken = FALSE /\ broken' = FALSE /\ state' = st
           \/ broken' = TRUE /\ state' = "Aborted"
BY DEF Out, Flush, TypeOK

\* A handler that assigns the state after Out overwrites the abort.
LEMMA OutThenEffect ==
    ASSUME NEW msgs, NEW st, OutThen(msgs, st)
    PROVE  state' = st /\ broken' \in BOOLEAN
BY DEF OutThen, Flush

\* After a handler the Serve loop reads on, or closes an aborted session.
LEMMA HandledEffect ==
    ASSUME Handled
    PROVE  /\ pc' \in {"read", "closed"}
           /\ pc' = "closed" <=> state' = "Aborted"
           /\ local' = NoLocal
BY DEF Handled

\* A panic is final; the reply before it may have aborted the session.
LEMMA PanicsEffect ==
    ASSUME TypeOK, NEW msgs, NEW st, PanicsAfter(msgs, st)
    PROVE  /\ pc' = "panic"
           /\ \/ broken' = broken /\ state' = st
              \/ broken' = TRUE /\ state' = "Aborted"
BY OutEffect DEF PanicsAfter, Silent

-----------------------------------------------------------------------------
\* Three kinds of steps, and why each keeps the invariant

\* The program counters at which no handler is waiting
Between == {"read", "closed", "panic"}

\* The parts of IInv that speak of the transaction, and those that speak of
\* the handler that is waiting and of what the step handed over
TransactionInv == StateInv /\ LostInv /\ SyncInv

WaitingInv == CounterInv /\ AuthGuarded /\ DataInv /\ HandedInv

\* IInv is the type invariant and these two parts.
LEMMA IInvSplit == /\ IInv <=> TypeOK /\ TransactionInv /\ WaitingInv
                   /\ IInv' <=> TypeOK' /\ TransactionInv' /\ WaitingInv'
BY DEF IInv, TransactionInv, WaitingInv

\* Encryption and authentication are kept, or gained.
Grows == /\ srv' = srv
         /\ tls => tls'
         /\ authenticated => authenticated'
         /\ helloSeen => helloSeen'

\* What handleMail checked stays true while nothing is lost.
LEMMA SecuredGrows == Grows /\ Secured => Secured'
BY DEF Grows, Secured, AuthRequired

\* A step that leaves the transaction as it is, or aborts the session
Quiet ==
    /\ Grows
    /\ told' = told
    /\ envelope'.MailTo = envelope.MailTo
    /\ pc \notin Terminal
    /\ \/ broken' = broken /\ state' = state
       \/ broken' = TRUE /\ state' = "Aborted"
       \/ pc' \in Terminal /\ state' = "Aborted"

\* A quiet step keeps the transaction part of the invariant.
LEMMA QuietInv ==
    ASSUME TypeOK, TypeOK', TransactionInv, Quiet
    PROVE  TransactionInv'
<1>1. StateInv'
  BY SecuredGrows DEF TransactionInv, StateInv, Quiet, Grows
<1>2. LostInv'
  BY DEF TransactionInv, LostInv, Quiet
<1>3. SyncInv'
  BY DEF TransactionInv, SyncInv, Quiet, Phase, TypeOK
<1> QED BY <1>1, <1>2, <1>3 DEF TransactionInv

\* A step that ends the transaction
Cleared ==
    /\ told' = NothingTold
    /\ envelope'.MailTo = <<>>
    /\ \/ state' = "Init"
       \/ broken' = TRUE /\ state' = "Aborted"

\* Where the transaction ends on both sides, nothing is left to relate.
LEMMA ClearedInv ==
    ASSUME TypeOK', Cleared
    PROVE  TransactionInv'
<1>1. StateInv' /\ LostInv'
  BY DEF StateInv, LostInv, Cleared
<1>2. SyncInv'
  BY DEF SyncInv, Cleared, Phase, NothingTold, TypeOK
<1> QED BY <1>1, <1>2 DEF TransactionInv

\* A step after which no handler waits, that handed nothing over and counted
\* at most once
Rests ==
    /\ pc' \in Between
    /\ handed' = {}
    /\ bad' = bad \/ (bad < BadCmds /\ bad' = bad + 1)
    /\ srv' = srv
    /\ authenticated' => tls' /\ AuthRequired

\* A step that returns to the loop keeps the waiting part of the invariant.
LEMMA RestsInv ==
    ASSUME TypeOK, WaitingInv, Rests
    PROVE  WaitingInv'
<1>1. CounterInv'
  BY LimitsAssumption
     DEF WaitingInv, Rests, CounterInv, BadCommandsBounded, Between, Terminal, TypeOK
<1>2. AuthGuarded'
  BY DEF Rests, AuthGuarded, Between, AuthPC, AuthRequired
<1>3. DataInv' /\ HandedInv'
  BY DEF Rests, Between, DataInv, HandedInv, DeliveryGated, MessageIsolated,
         SizeRespected
<1> QED BY <1>1, <1>2, <1>3 DEF WaitingInv

-----------------------------------------------------------------------------
\* The actions, one by one

\* HELO and EHLO end the transaction (handleHelo, handleEhlo).
LEMMA HelloSafe ==
    ASSUME TypeOK, TypeOK', WaitingInv, NEW n, NEW refused, NEW reply,
           Hello(n, refused, reply)
    PROVE  TransactionInv' /\ WaitingInv'
<1>1. /\ pc' \in Between
      /\ state' = "Init" \/ (broken' = TRUE /\ state' = "Aborted")
  <2>1. CASE PanicsAfter(<<>>, "Init")
    BY <2>1, PanicsEffect DEF Between
  <2>2. CASE /\ Out(IF refused THEN <<"550", reply>> ELSE <<reply>>, "Init")
             /\ Handled
    BY <2>2, OutEffect, HandledEffect DEF Between
  <2> QED BY <2>1, <2>2 DEF Hello
<1>2. Cleared
  BY <1>1, EnvResetType DEF Hello, Cleared, TypeOK
<1>3. Rests
  BY <1>1 DEF Hello, Rests, WaitingInv, AuthGuarded, peerVars
<1> QED BY <1>2, <1>3, ClearedInv, RestsInv

\* STARTTLS changes nothing before the handshake (handleStartTLS).
LEMMA StartTLSSafe ==
    ASSUME TypeOK, TypeOK', TransactionInv, WaitingInv, handleStartTLS
    PROVE  TransactionInv' /\ WaitingInv'
<1>1. Quiet
  BY OutEffect DEF handleStartTLS, Command, Quiet, Grows, Terminal, peerVars
<1>2. CASE Handled
  <2>1. Rests
    BY <1>2, HandledEffect
       DEF handleStartTLS, Command, Rests, WaitingInv, AuthGuarded, Between,
           BadCommand, peerVars
  <2> QED BY <1>1, <2>1, QuietInv, RestsInv
<1>3. CASE pc' = "handshake" /\ UNCHANGED bad
  <2>1. WaitingInv'
    BY <1>3 DEF handleStartTLS, Command, WaitingInv, CounterInv, AuthGuarded,
                BadCommandsBounded, DataInv, HandedInv, DeliveryGated,
                MessageIsolated, SizeRespected, AuthPC, AuthRequired, peerVars
  <2> QED BY <1>1, <2>1, QuietInv
<1> QED BY <1>2, <1>3 DEF handleStartTLS

\* A handshake ends the transaction, a failed one changes nothing.
LEMMA HandshakeSafe ==
    ASSUME TypeOK, TypeOK', TransactionInv, WaitingInv, Handshake
    PROVE  TransactionInv' /\ WaitingInv'
<1>1. Rests
  BY HandledEffect DEF Handshake, Rests, WaitingInv, AuthGuarded, Between, peerVars
<1>2. CASE state' = "Init" /\ envelope' = EnvReset(envelope) /\ told' = NothingTold
  <2>1. Cleared
    BY <1>2, EnvResetType DEF Cleared, TypeOK
  <2> QED BY <1>1, <2>1, ClearedInv, RestsInv
<1>3. CASE /\ Out(<<"FailUndefinedSecurityStatus">>, state)
           /\ UNCHANGED <<envelope, told, tls>>
  <2>1. Quiet
    BY <1>3, OutEffect DEF Handshake, Quiet, Grows, Terminal, peerVars
  <2> QED BY <1>1, <2>1, QuietInv, RestsInv
<1> QED BY <1>2, <1>3 DEF Handshake

-----------------------------------------------------------------------------
\* AUTH.  InAuth is what holds whenever a mechanism runs.

InAuth == /\ pc \notin Terminal
          /\ bad < BadCmds
          /\ tls
          /\ AuthRequired
          /\ authenticated = FALSE

AuthContext == /\ TypeOK
               /\ TypeOK'
               /\ TransactionInv
               /\ WaitingInv
               /\ AuthStep

\* A step of AUTH after which the session waits for the next command
LEMMA AuthRests ==
    ASSUME AuthContext, Quiet, Rests
    PROVE  TransactionInv' /\ WaitingInv'
BY QuietInv, RestsInv DEF AuthContext

\* An AUTH that ends early counts at most one bad command.
LEMMA MalformedSafe ==
    ASSUME AuthContext, pc \notin Terminal, NEW r, NEW st \in {state, "Aborted"},
           Malformed(r, st), bad' = bad \/ (bad < BadCmds /\ bad' = bad + 1)
    PROVE  TransactionInv' /\ WaitingInv'
<1>1. Grows /\ told' = told /\ envelope' = envelope
  BY DEF AuthContext, AuthStep, authFrame, Malformed, Grows, peerVars
<1>2. Quiet
  BY <1>1, OutEffect, HandledEffect DEF AuthContext, Malformed, Quiet, Terminal
<1>3. Rests
  BY HandledEffect DEF AuthContext, AuthStep, authFrame, Malformed, Rests,
                       WaitingInv, AuthGuarded, Between, peerVars
<1> QED BY <1>2, <1>3, AuthRests

\* The Authenticator is asked over TLS, so its yes is one over TLS.
LEMMA CheckLoginSafe ==
    ASSUME AuthContext, InAuth, NEW user, NEW verdict \in {"ok", "no", "err"},
           checkLogin(user, verdict)
    PROVE  TransactionInv' /\ WaitingInv'
<1>1. Grows /\ told' = told /\ envelope' = envelope
  BY DEF AuthContext, AuthStep, authFrame, InAuth, Grows
<1>2. \/ broken' = broken /\ state' = state
      \/ broken' = TRUE /\ state' = "Aborted"
      \/ pc' \in Terminal /\ state' = "Aborted"
  <2>1. CASE ~srv.Authenticator
    BY <2>1, PanicsEffect DEF checkLogin, AuthContext, Panics
  <2>2. CASE srv.Authenticator /\ verdict = "ok"
    BY <2>2, OutEffect DEF checkLogin, AuthContext
  <2>3. CASE srv.Authenticator /\ verdict = "no"
    BY <2>3, OutEffect DEF checkLogin, AuthContext
  <2>4. CASE srv.Authenticator /\ verdict = "err"
    BY <2>4, OutThenEffect, HandledEffect DEF checkLogin, Terminal
  <2> QED BY <2>1, <2>2, <2>3, <2>4
<1>3. Quiet
  BY <1>1, <1>2 DEF Quiet, InAuth
<1>4. pc' \in Between
  BY HandledEffect, PanicsEffect DEF checkLogin, AuthContext, Panics, Between
<1>5. Rests
  BY <1>4 DEF AuthContext, AuthStep, authFrame, InAuth, checkLogin, Rests
<1> QED BY <1>3, <1>5, AuthRests

\* A prompt leaves the session waiting inside AUTH, over TLS.
LEMMA PromptSafe ==
    ASSUME AuthContext, InAuth, NEW user, NEW at \in AuthPC, Prompt(user, at)
    PROVE  TransactionInv' /\ WaitingInv'
<1>1. Quiet
  BY OutEffect DEF AuthContext, AuthStep, authFrame, InAuth, Prompt, Quiet, Grows,
                   peerVars
<1>2. WaitingInv'
  BY DEF AuthContext, AuthStep, authFrame, InAuth, Prompt, WaitingInv, CounterInv,
         BadCommandsBounded, AuthGuarded, AuthRequired, DataInv, HandedInv,
         DeliveryGated, MessageIsolated, SizeRespected, AuthPC, peerVars
<1> QED BY <1>1, <1>2, QuietInv DEF AuthContext

\* AUTH LOGIN alone waits for the user name without a prompt.
LEMMA AwaitUserSafe ==
    ASSUME AuthContext, InAuth, pc' = "loginUser", Silent,
           UNCHANGED <<state, deadline, local, bad, peerVars>>
    PROVE  TransactionInv' /\ WaitingInv'
<1>1. Quiet
  BY DEF AuthContext, AuthStep, authFrame, InAuth, Silent, Quiet, Grows, peerVars
<1>2. WaitingInv'
  BY DEF AuthContext, AuthStep, authFrame, InAuth, WaitingInv, CounterInv,
         BadCommandsBounded, AuthGuarded, AuthRequired, DataInv, HandedInv,
         DeliveryGated, MessageIsolated, SizeRespected, AuthPC, peerVars
<1> QED BY <1>1, <1>2, QuietInv DEF AuthContext

\* A failed read or a panic inside AUTH ends the session.
LEMMA DialogueEndsSafe ==
    ASSUME AuthContext, pc \notin Terminal,
           \/ DialogueAborts
           \/ Panics /\ UNCHANGED <<bad, peerVars>>
    PROVE  TransactionInv' /\ WaitingInv'
<1>1. /\ pc' \in Between
      /\ \/ broken' = broken /\ state' = state
         \/ broken' = TRUE /\ state' = "Aborted"
         \/ pc' \in Terminal /\ state' = "Aborted"
      /\ UNCHANGED <<bad, peerVars>>
  <2>1. CASE DialogueAborts
    BY <2>1, HandledEffect DEF DialogueAborts, Between, Terminal
  <2>2. CASE Panics /\ UNCHANGED <<bad, peerVars>>
    BY <2>2, PanicsEffect DEF AuthContext, Panics, Between
  <2> QED BY <2>1, <2>2
<1>2. Quiet
  BY <1>1 DEF AuthContext, AuthStep, authFrame, Quiet, Grows, peerVars
<1>3. Rests
  BY <1>1 DEF AuthContext, AuthStep, authFrame, Rests, WaitingInv, AuthGuarded,
              peerVars
<1> QED BY <1>2, <1>3, AuthRests

\* AUTH starts a dialogue only where InAuth holds (handleAuth).
LEMMA HandleAuthSafe ==
    ASSUME TypeOK, TypeOK', TransactionInv, WaitingInv, NEW mech, NEW n,
           handleAuth(mech, n)
    PROVE  TransactionInv' /\ WaitingInv'
<1>1. AuthContext /\ pc \notin Terminal /\ bad < BadCmds
  BY DEF AuthContext, handleAuth, Command, Terminal
<1>2. CASE /\ Malformed(AuthRefusal(mech, n), state)
           /\ bad' = IF AuthRefusal(mech, n) = "FailCmdNotSupported"
                     THEN bad + 1 ELSE bad
  BY <1>1, <1>2, MalformedSafe
<1>3. CASE AuthRefusal(mech, n) = "" /\ (handleLoginAuth(n) \/ handlePlainAuth(n))
  <2>1. InAuth
    BY <1>1, <1>3 DEF AuthRefusal, InAuth, TypeOK
  <2>2. CASE handleLoginAuth(n)
    BY <1>1, <2>1, <2>2, AwaitUserSafe, MalformedSafe, PromptSafe, CheckLoginSafe
       DEF handleLoginAuth, AuthPC
  <2>3. CASE handlePlainAuth(n)
    BY <1>1, <2>1, <2>3, MalformedSafe, PromptSafe, CheckLoginSafe,
       DialogueEndsSafe DEF handlePlainAuth, AuthPC, BadCommand
  <2> QED BY <1>3, <2>2, <2>3
<1> QED BY <1>2, <1>3 DEF handleAuth

\* The lines of a dialogue keep the invariant (auth.go).
LEMMA AuthDialogueSafe ==
    ASSUME TypeOK, TypeOK', TransactionInv, WaitingInv, AuthDialogue
    PROVE  TransactionInv' /\ WaitingInv'
<1>1. AuthContext /\ pc \in AuthPC
  BY DEF AuthContext, AuthDialogue, LoginUser, LoginPassword1, LoginPassword2,
         PlainResponse, AuthPC
<1>2. InAuth
  BY <1>1 DEF InAuth, WaitingInv, CounterInv, AuthGuarded, AuthPC, Terminal, TypeOK
<1>3. pc \notin Terminal /\ bad < BadCmds
  BY <1>2 DEF InAuth
<1>4. CASE LoginUser
  BY <1>1, <1>2, <1>3, <1>4, MalformedSafe, PromptSafe, DialogueEndsSafe
     DEF LoginUser, LoginUserLine, DialoguePanics, AuthPC, BadCommand
<1>5. CASE LoginPassword1
  BY <1>1, <1>2, <1>3, <1>5, MalformedSafe, CheckLoginSafe, DialogueEndsSafe
     DEF LoginPassword1, LoginPassword1Line, DialoguePanics
<1>6. CASE LoginPassword2
  BY <1>1, <1>2, <1>3, <1>6, MalformedSafe, CheckLoginSafe, DialogueEndsSafe
     DEF LoginPassword2, LoginPassword2Line, LoginPassword2Fails,
         DialoguePanics, BadCommand
<1>7. CASE PlainResponse
  BY <1>1, <1>2, <1>3, <1>7, MalformedSafe, CheckLoginSafe, DialogueEndsSafe
     DEF PlainResponse, PlainLine, DialoguePanics, BadCommand
<1> QED BY <1>4, <1>5, <1>6, <1>7 DEF AuthDialogue

-----------------------------------------------------------------------------
\* The transaction.  Its steps leave the peer and the greeting alone.

\* A step of the transaction loses neither TLS nor identity.
LEMMA FrameGrows == UNCHANGED transactionFrame => Grows
BY DEF transactionFrame, Grows, peerVars

\* A step of the transaction that returns to the loop rests.
LEMMA FrameRests ==
    ASSUME WaitingInv, UNCHANGED transactionFrame, pc' \in Between, handed' = {},
           bad' = bad \/ (bad < BadCmds /\ bad' = bad + 1)
    PROVE  Rests
BY DEF transactionFrame, peerVars, Rests, WaitingInv, AuthGuarded

\* A step of the transaction that sends or loses its reply and leaves the
\* recipients, or aborts
LEMMA FrameQuiet ==
    ASSUME TypeOK, UNCHANGED transactionFrame, pc \notin Terminal,
           envelope'.MailTo = envelope.MailTo, told' = told,
           \/ Handled /\ \E msgs : Out(msgs, state)
           \/ Handled /\ \E msgs : OutThen(msgs, "Aborted")
           \/ \E msgs : PanicsAfter(msgs, state)
    PROVE  Quiet /\ pc' \in Between
<1>1. Grows
  BY FrameGrows
<1>2. ASSUME NEW msgs, Out(msgs, state), Handled
      PROVE  Quiet /\ pc' \in Between
  BY <1>1, <1>2, OutEffect, HandledEffect DEF Quiet, Between
<1>3. ASSUME NEW msgs, OutThen(msgs, "Aborted"), Handled
      PROVE  Quiet /\ pc' \in Between
  BY <1>1, <1>3, OutThenEffect, HandledEffect DEF Quiet, Between, Terminal
<1>4. ASSUME NEW msgs, PanicsAfter(msgs, state)
      PROVE  Quiet /\ pc' \in Between
  BY <1>1, <1>4, PanicsEffect DEF Quiet, Between
<1> QED BY <1>2, <1>3, <1>4

\* An accepted MAIL is secured; everything else ends the transaction.
LEMMA HandleMailSafe ==
    ASSUME TypeOK, TypeOK', WaitingInv,
           NEW from \in Address \cup {NoAddress}, NEW senderOk,
           NEW exts \in Seq(Extension), NEW resolves,
           handleMail(from, senderOk, exts, resolves)
    PROVE  TransactionInv' /\ WaitingInv'
<1> DEFINE e == EnvReset(envelope)
           refusal == MailRefusal(e, from, senderOk)
<1>1. e \in Envelope /\ e.MailTo = <<>>
  BY EnvResetType DEF TypeOK
<1>2. CASE /\ refusal # "" /\ Out(<<refusal>>, "Init") /\ Handled
           /\ envelope' = e /\ told' = NothingTold
  <2>1. Cleared /\ pc' \in Between
    BY <1>1, <1>2, OutEffect, HandledEffect DEF Cleared, Between
  <2>2. Rests
    BY <2>1, FrameRests DEF handleMail
  <2> QED BY <2>1, <2>2, ClearedInv, RestsInv
<1>3. CASE refusal = "" /\ MailExtensions([e EXCEPT !.MailFrom = from], exts, resolves)
  <2>1. /\ [e EXCEPT !.MailFrom = from] \in Envelope
        /\ [e EXCEPT !.MailFrom = from].MailTo = <<>>
    BY <1>1 DEF Envelope
  <2>2. envelope'.MailTo = <<>>
    BY <1>3, <2>1, MailExtensionsData, MailTypeHolds
  <2>3. CASE Cleared /\ pc' \in Between
    BY <2>3, FrameRests, ClearedInv, RestsInv DEF handleMail
  <2>4. CASE \E i \in Stopper(exts) :
                /\ Out(Append(Notes(exts), ExtRefusal(exts[i])), "Init")
                /\ Handled /\ told' = NothingTold
    <3>1. Cleared /\ pc' \in Between
      BY <2>2, <2>4, OutEffect, HandledEffect DEF Cleared, Between
    <3> QED BY <2>3, <3>1
  <2>5. CASE PanicsAfter(Notes(exts), "Init") /\ told' = NothingTold
    <3>1. Cleared /\ pc' \in Between
      BY <2>2, <2>5, PanicsEffect DEF Cleared, Between
    <3> QED BY <2>3, <3>1
  <2>6. CASE /\ Out(<<"ErrorUnableToResolveHost">>, "Init") /\ Handled
             /\ told' = NothingTold
    <3>1. Cleared /\ pc' \in Between
      BY <2>2, <2>6, OutEffect, HandledEffect DEF Cleared, Between
    <3> QED BY <2>3, <3>1
  <2>7. CASE /\ Out(<<MailReply("Init")>>, AfterMail("Init")) /\ Handled
             /\ told' = [NothingTold EXCEPT !.mail = ~broken']
    <3>1. /\ \/ broken' = FALSE /\ state' = "GotMail"
             \/ broken' = TRUE /\ state' = "Aborted"
          /\ pc' \in Between
      BY <2>7, OutEffect, HandledEffect DEF AfterMail, Between
    <3>2. Secured'
      BY <1>3 DEF MailRefusal, Secured, AuthRequired, handleMail,
                  transactionFrame, peerVars
    <3>3. StateInv' /\ LostInv'
      BY <3>1, <3>2 DEF StateInv, LostInv
    <3>4. CASE broken' = TRUE
      BY <3>3, <3>4, <3>1, FrameRests, RestsInv
         DEF TransactionInv, SyncInv, handleMail
    <3>5. CASE broken' = FALSE /\ state' = "GotMail"
      <4>1. told' = [mail |-> TRUE, rcpts |-> <<>>]
        BY <2>7, <3>5 DEF NothingTold
      <4>2. SyncInv'
        BY <2>2, <3>5, <4>1 DEF SyncInv, Phase
      <4> QED BY <3>1, <3>3, <4>2, FrameRests, RestsInv DEF TransactionInv, handleMail
    <3> QED BY <3>1, <3>4, <3>5
  <2> QED BY <1>3, <2>4, <2>5, <2>6, <2>7 DEF MailExtensions
<1> QED BY <1>2, <1>3 DEF handleMail

\* An accepted RCPT was greeted, and adds the recipient on both sides.
LEMMA RcptAcceptsSafe ==
    ASSUME TypeOK, TypeOK', TransactionInv, NEW rcpt \in Address, NEW exts,
           UNCHANGED transactionFrame, helloSeen, pc \notin Terminal,
           RcptAccepts(rcpt, exts), Handled
    PROVE  TransactionInv'
<1>1. /\ envelope'.MailTo = Append(envelope.MailTo, rcpt)
      /\ envelope'.MailTo # <<>>
  <2>1. PICK d \in Envelope : /\ d.MailTo = envelope.MailTo
                              /\ envelope' = AddRecipient(d, rcpt)
    BY DropSenderType DEF RcptAccepts, TypeOK
  <2> QED BY <2>1, AddRecipientType
<1>2. \/ broken = FALSE /\ broken' = FALSE /\ state' = AfterRcpt(state)
      \/ broken' = TRUE /\ state' = "Aborted"
  BY OutEffect DEF RcptAccepts
<1>3. Grows
  BY FrameGrows
<1>4. Secured => Secured'
  BY <1>3, SecuredGrows
<1>5. pc' = "closed" <=> state' = "Aborted"
  BY HandledEffect
<1>6. CASE state' = "Aborted"
  BY <1>5, <1>6 DEF TransactionInv, StateInv, LostInv, SyncInv, Terminal
<1>7. CASE /\ broken = FALSE /\ broken' = FALSE /\ state' = AfterRcpt(state)
           /\ state' # "Aborted"
  <2>1. /\ state \in {"GotMail", "Init", "GotRcpt", "ReadyForData"}
        /\ state' = IF state \in {"GotMail", "ReadyForData"}
                    THEN "ReadyForData" ELSE "GotRcpt"
    BY <1>7 DEF AfterRcpt
  <2>2. StateInv' /\ LostInv'
    BY <1>1, <1>3, <1>4, <1>7, <2>1 DEF TransactionInv, StateInv, LostInv, Grows
  <2>3. envelope.MailTo = told.rcpts /\ state = Phase(told)
    BY <1>7, <2>1 DEF TransactionInv, SyncInv
  <2>4. told' = [told EXCEPT !.rcpts = Append(@, rcpt)]
    BY <1>7, <2>1 DEF RcptAccepts, RcptReply
  <2>5. told'.mail = told.mail /\ told'.rcpts = Append(told.rcpts, rcpt)
    BY <2>4 DEF TypeOK, Told
  <2>6. SyncInv'
    BY <1>1, <2>1, <2>3, <2>5 DEF SyncInv, Phase
  <2> QED BY <2>2, <2>6 DEF TransactionInv
<1> QED BY <1>2, <1>6, <1>7

\* RCPT keeps the invariant, refused or accepted (handleRcpt).
LEMMA HandleRcptSafe ==
    ASSUME TypeOK, TypeOK', TransactionInv, WaitingInv,
           NEW rcpt \in Address \cup {NoAddress}, NEW args \in Seq(Extension),
           NEW verdict, handleRcpt(rcpt, args, verdict)
    PROVE  TransactionInv' /\ WaitingInv'
<1> DEFINE refusal == RcptRefusal(rcpt, args, verdict)
           exts == RcptExtensions(args)
<1>1. /\ pc \notin Terminal
      /\ UNCHANGED transactionFrame
      /\ handed' = {} /\ bad' = bad
  BY DEF handleRcpt, Command, Terminal
<1>2. CASE Quiet /\ pc' \in Between
  BY <1>1, <1>2, QuietInv, FrameRests, RestsInv
<1>3. CASE refusal # "" /\ Out(<<refusal>>, state) /\ Handled /\ UNCHANGED <<envelope, told>>
  BY <1>1, <1>2, <1>3, FrameQuiet
<1>4. CASE PanicsAfter(<<"FailInvalidRecipient">>, state) /\ UNCHANGED <<envelope, told>>
  BY <1>1, <1>2, <1>4, FrameQuiet
<1>5. CASE Panics /\ UNCHANGED <<envelope, told>>
  BY <1>1, <1>2, <1>5, FrameQuiet DEF Panics
<1>6. CASE /\ \E i \in Stopper(exts) :
                 Out(Append(Notes(exts), ExtRefusal(exts[i])), state)
           /\ Handled /\ envelope' = DropSender(envelope, exts) /\ UNCHANGED told
  <2>1. envelope'.MailTo = envelope.MailTo
    BY <1>6, DropSenderType DEF TypeOK
  <2> QED BY <1>1, <1>2, <1>6, <2>1, FrameQuiet
<1>7. CASE /\ refusal = "" /\ args # <<>> /\ RcptAccepts(rcpt, exts) /\ Handled
  <2>1. rcpt \in Address /\ helloSeen
    BY <1>7 DEF RcptRefusal
  <2>2. TransactionInv'
    BY <1>1, <1>7, <2>1, RcptAcceptsSafe
  <2>3. pc' \in Between
    BY <1>7, HandledEffect DEF Between
  <2> QED BY <1>1, <2>2, <2>3, FrameRests, RestsInv
<1> QED BY <1>3, <1>4, <1>5, <1>6, <1>7 DEF handleRcpt

\* DATA is accepted in a transaction the client was told of, and starts with
\* an empty buffer.
LEMMA HandleDataSafe ==
    ASSUME TypeOK, TypeOK', TransactionInv, WaitingInv, handleData
    PROVE  TransactionInv' /\ WaitingInv'
<1>1. /\ pc \notin Terminal
      /\ UNCHANGED transactionFrame
      /\ handed' = {} /\ bad' = bad /\ bad < BadCmds
      /\ told' = told
  BY DEF handleData, Command, Terminal
<1>2. envelope'.MailTo = envelope.MailTo
  BY BeginDataType DEF handleData, TypeOK
<1>3. CASE Quiet /\ pc' \in Between
  BY <1>1, <1>3, QuietInv, FrameRests, RestsInv
<1>4. CASE OutThen(<<"FailBadSequence">>, "Aborted") /\ Handled
  BY <1>1, <1>2, <1>3, <1>4, FrameQuiet
<1>5. CASE Out(<<"554">>, state) /\ Handled
  BY <1>1, <1>2, <1>3, <1>5, FrameQuiet
<1>6. CASE /\ BodyAllowsData /\ state = "ReadyForData"
           /\ envelope' = BeginData(envelope)
           /\ OutThen(<<"SuccessDataCmd">>, "GettingData")
           /\ pc' = "data" /\ local' = NoLocal
  <2>1. state' = "GettingData"
    BY <1>6, OutThenEffect
  <2>2. broken = FALSE
    BY <1>6 DEF TransactionInv, LostInv, TypeOK
  <2>3. envelope.MailTo = told.rcpts /\ Phase(told) = "ReadyForData"
    BY <1>1, <1>6, <2>2 DEF TransactionInv, SyncInv
  <2>4. told.mail
    BY <2>3 DEF Phase
  <2>5. TransactionInv'
    <3>1. Grows
      BY <1>1, FrameGrows
    <3>2. StateInv'
      BY <1>2, <1>6, <2>1, <3>1, SecuredGrows DEF TransactionInv, StateInv, Grows
    <3>3. LostInv'
      BY <2>1 DEF LostInv
    <3>4. SyncInv'
      BY <1>1, <1>2, <2>1, <2>3 DEF SyncInv
    <3> QED BY <3>2, <3>3, <3>4 DEF TransactionInv
  <2>6. envelope'.data = 0 /\ local'.size = 0 /\ local'.lines = 0
    BY <1>6, BeginDataType DEF NoLocal, TypeOK
  <2>7. DataInv'
    BY <1>1, <1>2, <1>6, <2>1, <2>3, <2>4, <2>6
       DEF DataInv, handleData
  <2>8. HandedInv'
    BY <1>1, <2>6 DEF HandedInv, DeliveryGated, MessageIsolated, SizeRespected
  <2>9. CounterInv' /\ AuthGuarded'
    BY <1>1, <1>6 DEF WaitingInv, CounterInv, BadCommandsBounded, AuthGuarded,
                      AuthPC, AuthRequired, transactionFrame, peerVars
  <2> QED BY <2>5, <2>7, <2>8, <2>9 DEF WaitingInv
<1> QED BY <1>4, <1>5, <1>6 DEF handleData

\* A line adds its length and a CR LF to the buffer.
LEMMA DataLineSafe ==
    ASSUME TypeOK, TypeOK', TransactionInv, WaitingInv, NEW n \in Nat,
           DataLine(n)
    PROVE  TransactionInv' /\ WaitingInv'
<1>1. /\ pc = "data" /\ pc' = "data"
      /\ UNCHANGED transactionFrame
      /\ UNCHANGED <<state, broken, told, bad, bodyType>>
      /\ handed' = {}
  BY DEF DataLine, Silent
<1>2. n \in Nat /\ n + 2 \in Nat
  OBVIOUS
<1>3. /\ envelope'.MailTo = envelope.MailTo
      /\ envelope'.data = envelope.data + (n + 2)
  BY <1>2, WriteType DEF DataLine, TypeOK
<1>4. /\ local'.size = local.size + n
      /\ local'.lines = local.lines + 1
      /\ local.size \in Nat /\ local.lines \in Nat
  BY DEF DataLine, TypeOK, Local
<1>5. TransactionInv'
  <2>1. Quiet
    BY <1>1, <1>3, FrameGrows DEF Quiet, Terminal
  <2> QED BY <2>1, QuietInv
<1>6. envelope'.data = local'.size + 2 * local'.lines
  BY <1>1, <1>2, <1>3, <1>4 DEF WaitingInv, DataInv
<1>7. DataInv'
  BY <1>1, <1>3, <1>6 DEF WaitingInv, DataInv
<1>8. HandedInv'
  BY <1>1, <1>6 DEF HandedInv, DeliveryGated, MessageIsolated, SizeRespected
<1>9. CounterInv' /\ AuthGuarded'
  BY <1>1 DEF WaitingInv, CounterInv, BadCommandsBounded, AuthGuarded, AuthPC,
              AuthRequired, transactionFrame, peerVars
<1> QED BY <1>5, <1>7, <1>8, <1>9 DEF WaitingInv

\* A message that cannot be read, or is too big, changes nothing else.
LEMMA DataEndsSafe ==
    ASSUME TypeOK, TypeOK', TransactionInv, WaitingInv, DataReadFails \/ DataTooBig
    PROVE  TransactionInv' /\ WaitingInv'
<1>1. Quiet /\ pc' \in Between
  BY FrameQuiet DEF DataReadFails, DataTooBig, Terminal
<1>2. Rests
  BY <1>1, FrameRests DEF DataReadFails, DataTooBig
<1> QED BY <1>1, <1>2, QuietInv, RestsInv

\* The delivery: what is handed over satisfies the properties of a message
\* because the transaction it ends did.
LEMMA DataDoneSafe ==
    ASSUME TypeOK, TypeOK', TransactionInv, WaitingInv, NEW dot \in BOOLEAN,
           NEW queued, DataDone(dot, queued)
    PROVE  TransactionInv' /\ WaitingInv'
<1>1. /\ pc = "data" /\ UNCHANGED transactionFrame
      /\ bad' = bad
  BY DEF DataDone
<1>2. CASE Panics /\ handed' = {} /\ UNCHANGED <<envelope, told>>
  <2>1. Quiet /\ pc' \in Between
    BY <1>1, <1>2, FrameQuiet DEF Panics, Terminal
  <2> QED BY <1>1, <1>2, <2>1, QuietInv, FrameRests, RestsInv
<1>3. ASSUME NEW e \in Closed(AddHeaders(envelope, ServerHeaders)),
             handed' = {[env |-> e, octets |-> envelope.data, dot |-> dot,
                         size |-> local.size, lines |-> local.lines]},
             envelope' = EnvReset(e), state' = "Init", Handled,
             told' = NothingTold
      PROVE  TransactionInv' /\ WaitingInv'
  <2>1. e \in Envelope
    <3>1. ServerHeaders \in SUBSET AddedHeader
      BY DEF ServerHeaders, AddedHeader
    <3> QED BY <3>1, AddHeadersType, ClosedType DEF TypeOK
  <2>2. Cleared
    BY <1>3, <2>1, EnvResetType DEF Cleared
  <2>3. pc' \in Between
    BY <1>3, HandledEffect DEF Between
  <2>4. CounterInv' /\ AuthGuarded' /\ DataInv'
    BY <1>1, <2>3 DEF WaitingInv, CounterInv, BadCommandsBounded, AuthGuarded,
                      AuthPC, AuthRequired, DataInv, transactionFrame, peerVars,
                      Between, Terminal
  <2>5. DeliveryGated'
    <3>1. helloSeen /\ Secured
      BY <1>1 DEF WaitingInv, DataInv, TransactionInv, StateInv
    <3> QED BY <1>1, <3>1, FrameGrows, SecuredGrows DEF DeliveryGated, Grows
  <2>6. MessageIsolated'
    <3>1. envelope.data = local.size + 2 * local.lines
      BY <1>1 DEF WaitingInv, DataInv
    <3> QED BY <1>3, <2>3, <3>1 DEF MessageIsolated, Between
  <2>7. SizeRespected'
    <3>1. local.size <= MsgSize /\ (local.size < MsgSize => dot)
      BY LimitsAssumption DEF DataDone, MoreText, TooBig, TypeOK, Local
    <3> QED BY <1>3, <3>1 DEF SizeRespected
  <2> QED BY <2>2, <2>4, <2>5, <2>6, <2>7, ClearedInv DEF WaitingInv, HandedInv
<1>4. CASE srv.Handler /\ Handled /\ told' = NothingTold
  <2>1. state' = "Init"
    BY <1>4, OutThenEffect DEF DataDone
  <2> QED BY <1>3, <1>4, <2>1 DEF DataDone
<1> QED BY <1>2, <1>4 DEF DataDone

\* BDAT leaves the transaction open while its chunks arrive.
LEMMA HandleBdatSafe ==
    ASSUME TypeOK, TypeOK', TransactionInv, WaitingInv, NEW n, NEW valid, NEW last,
           handleBdat(n, valid, last)
    PROVE  TransactionInv' /\ WaitingInv'
<1>1. /\ pc \notin Terminal
      /\ UNCHANGED transactionFrame
      /\ handed' = {} /\ bad < BadCmds
      /\ told' = told /\ envelope' = envelope
  BY DEF handleBdat, Command, Terminal
<1>2. CASE Quiet /\ pc' \in Between /\ (bad' = bad \/ bad' = bad + 1)
  BY <1>1, <1>2, QuietInv, FrameRests, RestsInv
<1>3. CASE Out(<<"503">>, state) /\ Handled /\ UNCHANGED bad
  BY <1>1, <1>2, <1>3, FrameQuiet
<1>4. CASE Out(<<"FailUnrecognizedCmd">>, state) /\ Handled /\ BadCommand
  BY <1>1, <1>2, <1>4, FrameQuiet DEF BadCommand
<1>5. CASE Panics /\ UNCHANGED bad
  BY <1>1, <1>2, <1>5, FrameQuiet DEF Panics
<1>6. CASE pc' = "bdat" /\ Silent /\ UNCHANGED <<state, deadline, bad>>
  <2>1. Quiet
    BY <1>1, <1>6, FrameGrows DEF Quiet, Silent
  <2>2. WaitingInv'
    BY <1>1, <1>6 DEF WaitingInv, CounterInv, BadCommandsBounded, AuthGuarded,
           AuthPC, AuthRequired, DataInv, HandedInv, DeliveryGated, MessageIsolated,
           SizeRespected, transactionFrame, peerVars
  <2> QED BY <2>1, <2>2, QuietInv
<1> QED BY <1>3, <1>4, <1>5, <1>6 DEF handleBdat

\* BDAT commands that are refused or cut short leave the transaction alone.
LEMMA BdatEndsSafe ==
    ASSUME TypeOK, TypeOK', TransactionInv, WaitingInv,
           handleBdatNoArgs \/ BdatReadFails
    PROVE  TransactionInv' /\ WaitingInv'
<1>1. Quiet /\ pc' \in Between
  BY FrameQuiet DEF handleBdatNoArgs, BdatReadFails, Command, Terminal
<1>2. Rests
  BY <1>1, FrameRests DEF handleBdatNoArgs, BdatReadFails
<1> QED BY <1>1, <1>2, QuietInv, RestsInv

\* After the last chunk the state is DataDone, which InSync exempts.
LEMMA BdatChunkSafe ==
    ASSUME TypeOK, TypeOK', TransactionInv, WaitingInv, BdatChunk
    PROVE  TransactionInv' /\ WaitingInv'
<1>1. /\ pc = "bdat" /\ UNCHANGED transactionFrame
      /\ handed' = {} /\ bad' = bad /\ told' = told /\ Handled
  BY DEF BdatChunk
<1>2. /\ Write(envelope, local.chunk) \in Envelope
      /\ Write(envelope, local.chunk).MailTo = envelope.MailTo
  BY WriteType DEF TypeOK, Local
<1>3. WaitingInv'
  BY <1>1, HandledEffect, FrameRests, RestsInv DEF Between
<1>4. CASE OutThen(<<"250 BDAT finished">>, "DataDone")
           /\ envelope' \in Closed(Write(envelope, local.chunk))
  <2>1. state' = "DataDone" /\ envelope'.MailTo = envelope.MailTo
    BY <1>2, <1>4, OutThenEffect, ClosedType
  <2>2. StateInv' /\ LostInv'
    BY <2>1 DEF StateInv, LostInv
  <2>3. SyncInv'
    <3>1. SUFFICES ASSUME ~broken' PROVE envelope.MailTo = told.rcpts
      BY <1>1, <2>1 DEF SyncInv
    <3>2. ~broken
      BY <1>4, <3>1 DEF OutThen, Flush
    <3> QED BY <1>1, <3>2 DEF TransactionInv, SyncInv, Terminal
  <2> QED BY <1>3, <2>2, <2>3 DEF TransactionInv
<1>5. CASE Out(<<"250 BDAT ok">>, state) /\ envelope' = Write(envelope, local.chunk)
  BY <1>1, <1>2, <1>3, <1>5, FrameQuiet, QuietInv DEF Terminal
<1> QED BY <1>4, <1>5 DEF BdatChunk

-----------------------------------------------------------------------------
\* The loop, the commands that only reply, and the client

\* NOOP, HELP, VRFY and EXPN leave the transaction alone.
LEMMA RepliesSafe ==
    ASSUME TypeOK, TypeOK', TransactionInv, WaitingInv, NEW r, Replies(r)
    PROVE  TransactionInv' /\ WaitingInv'
<1>1. Quiet /\ pc' \in Between
  BY FrameQuiet DEF Replies, Command, Terminal, transactionFrame
<1>2. Rests
  BY <1>1, FrameRests DEF Replies, transactionFrame
<1> QED BY <1>1, <1>2, QuietInv, RestsInv

\* RSET ends the transaction on both sides.
LEMMA RsetSafe ==
    ASSUME TypeOK, TypeOK', WaitingInv, handleRset
    PROVE  TransactionInv' /\ WaitingInv'
<1>1. Cleared /\ pc' \in Between
  BY EnvResetType, OutEffect, HandledEffect DEF handleRset, Cleared, Between, TypeOK
<1>2. Rests
  BY <1>1, FrameRests DEF handleRset, transactionFrame
<1> QED BY <1>1, <1>2, ClearedInv, RestsInv

\* QUIT, a line that makes ReadLine panic, a failed read and too many bad
\* commands end the session as it is; a refused line counts once.
LEMMA LoopSafe ==
    ASSUME TypeOK, TypeOK', TransactionInv, WaitingInv,
           \/ handleQuit \/ BareNewline \/ handleWelcome \/ TooManyBadCommands
           \/ ReadLineFails \/ Unrecognized
    PROVE  TransactionInv' /\ WaitingInv'
<1>1. UNCHANGED transactionFrame /\ handed' = {} /\ UNCHANGED <<envelope, told>>
  BY DEF handleQuit, BareNewline, handleWelcome, TooManyBadCommands,
         ReadLineFails, Unrecognized, loopFrame, transactionFrame
<1>2. pc \in {"welcome", "read"} /\ pc \notin Terminal
  BY DEF handleQuit, BareNewline, handleWelcome, TooManyBadCommands,
         ReadLineFails, Unrecognized, Command, Terminal
<1>3. bad' = bad \/ (bad < BadCmds /\ bad' = bad + 1)
  BY DEF handleQuit, BareNewline, handleWelcome, TooManyBadCommands,
         ReadLineFails, Unrecognized, Command, BadCommand
<1>4. pc' \in Between
  BY HandledEffect, PanicsEffect
     DEF handleQuit, BareNewline, handleWelcome, TooManyBadCommands,
         ReadLineFails, Unrecognized, Command, Panics, Between
<1>5. CASE ReadLineFails
  <2>1. TransactionInv'
    BY <1>1, <1>2, <1>5, FrameGrows, SecuredGrows
       DEF ReadLineFails, Silent, Terminal, TransactionInv, StateInv, LostInv,
           SyncInv, Grows
  <2> QED BY <1>1, <1>3, <1>4, <2>1, FrameRests, RestsInv
<1>6. CASE \/ handleQuit \/ BareNewline \/ handleWelcome \/ TooManyBadCommands
           \/ Unrecognized
  <2>1. \/ broken' = broken /\ state' = state
        \/ broken' = TRUE /\ state' = "Aborted"
        \/ pc' \in Terminal /\ state' = "Aborted"
    BY <1>6, OutEffect, OutThenEffect, HandledEffect, PanicsEffect
       DEF handleQuit, BareNewline, handleWelcome, TooManyBadCommands,
           Unrecognized, Panics, Terminal
  <2>2. Quiet
    BY <1>1, <1>2, <2>1, FrameGrows DEF Quiet
  <2> QED BY <1>1, <1>3, <1>4, <2>2, QuietInv, FrameRests, RestsInv
<1> QED BY <1>5, <1>6

\* What the client does to the connection changes nothing in the session.
LEMMA ClientSafe ==
    ASSUME TypeOK, TypeOK', TransactionInv, WaitingInv, Client
    PROVE  TransactionInv' /\ WaitingInv'
<1>1. UNCHANGED <<srv, pc, state, helloSeen, bodyType, bad, tls, peerVars,
                  envelope, local, told, broken>> /\ handed' = {}
  BY DEF Client, Silent
<1>2. Quiet
  BY <1>1 DEF Client, Quiet, Grows, peerVars
<1>3. WaitingInv'
  BY <1>1 DEF WaitingInv, CounterInv, BadCommandsBounded, AuthGuarded,
              AuthRequired, DataInv, HandedInv, DeliveryGated,
              MessageIsolated, SizeRespected, peerVars
<1> QED BY <1>2, <1>3, QuietInv

\* The invariant does not depend on anything but the variables.
LEMMA StutterSafe ==
    ASSUME TransactionInv, WaitingInv, UNCHANGED vars
    PROVE  TransactionInv' /\ WaitingInv'
<1>1. TransactionInv'
  BY DEF vars, TransactionInv, StateInv, LostInv, SyncInv, Secured, AuthRequired,
         Phase
<1>2. WaitingInv'
  BY DEF vars, WaitingInv, CounterInv, BadCommandsBounded, AuthGuarded,
         AuthRequired, DataInv, HandedInv, DeliveryGated, Secured,
         MessageIsolated, SizeRespected
<1> QED BY <1>1, <1>2

-----------------------------------------------------------------------------
\* The inductive invariant

\* A new session satisfies the invariant (newSession).
LEMMA InitSafe == Init => IInv
<1> SUFFICES ASSUME Init PROVE IInv
  OBVIOUS
<1>1. TypeOK
  BY InitType
<1>2. TransactionInv
  BY DEF Init, TransactionInv, StateInv, LostInv, SyncInv, NewEnvelope, NothingTold,
         Phase
<1>3. WaitingInv
  <2>1. pc = "welcome" /\ bad = 0 /\ handed = {} /\ authenticated = FALSE
    BY DEF Init
  <2>2. CounterInv
    BY <2>1, LimitsAssumption DEF CounterInv, BadCommandsBounded
  <2>3. AuthGuarded
    BY <2>1 DEF AuthGuarded, AuthPC
  <2>4. DataInv /\ HandedInv
    BY <2>1 DEF DataInv, HandedInv, DeliveryGated, MessageIsolated, SizeRespected
  <2> QED BY <2>2, <2>3, <2>4 DEF WaitingInv
<1> QED BY <1>1, <1>2, <1>3, IInvSplit

\* Every step of a session keeps the invariant.
LEMMA NextSafe == IInv /\ [AnyNext]_vars => IInv'
<1> SUFFICES ASSUME IInv, [AnyNext]_vars PROVE IInv'
  OBVIOUS
<1>1. /\ TypeOK /\ TypeOK'
      /\ TransactionInv /\ WaitingInv
  BY IInvSplit, NextType
<1> SUFFICES TransactionInv' /\ WaitingInv'
  BY <1>1, IInvSplit
<1>2. CASE AnyGreeting
  BY <1>1, <1>2, HelloSafe DEF AnyGreeting, handleEhlo, handleHelo
<1>3. CASE handleStartTLS \/ Handshake
  BY <1>1, <1>3, StartTLSSafe, HandshakeSafe
<1>4. CASE AnyAuthentication
  BY <1>1, <1>4, HandleAuthSafe, AuthDialogueSafe DEF AnyAuthentication
<1>5. CASE AnyTransaction
  <2>1. CASE \E from \in Address \cup {NoAddress}, senderOk \in BOOLEAN,
               exts \in Seq(Extension), resolves \in Resolutions :
                  handleMail(from, senderOk, exts, resolves)
    BY <1>1, <2>1, HandleMailSafe
  <2>2. CASE \E rcpt \in Address \cup {NoAddress}, args \in Seq(Extension),
               verdict \in {"", "FailMailboxDoesntExist", "FailMailboxFull",
                            "FailAccessDenied"} :
                  handleRcpt(rcpt, args, verdict)
    BY <1>1, <2>2, HandleRcptSafe
  <2>3. CASE handleData \/ DataReadFails \/ DataTooBig
    BY <1>1, <2>3, HandleDataSafe, DataEndsSafe
  <2>4. CASE \E n \in Nat : DataLine(n)
    BY <1>1, <2>4, DataLineSafe
  <2>5. CASE \E dot \in BOOLEAN, queued \in BOOLEAN : DataDone(dot, queued)
    BY <1>1, <2>5, DataDoneSafe
  <2>6. CASE \E n \in Int, valid \in BOOLEAN, last \in BOOLEAN :
               handleBdat(n, valid, last)
    BY <1>1, <2>6, HandleBdatSafe
  <2>7. CASE handleBdatNoArgs \/ BdatReadFails \/ BdatChunk
    BY <1>1, <2>7, BdatEndsSafe, BdatChunkSafe
  <2> QED BY <1>5, <2>1, <2>2, <2>3, <2>4, <2>5, <2>6, <2>7 DEF AnyTransaction
<1>6. CASE handleNoop \/ handleHelp \/ handleVrfy \/ handleExpn
  BY <1>1, <1>6, RepliesSafe DEF handleNoop, handleHelp, handleVrfy, handleExpn
<1>7. CASE handleRset
  BY <1>1, <1>7, RsetSafe
<1>8. CASE \/ handleQuit \/ BareNewline \/ handleWelcome \/ TooManyBadCommands
           \/ ReadLineFails \/ Unrecognized
  BY <1>1, <1>8, LoopSafe
<1>9. CASE Client
  BY <1>1, <1>9, ClientSafe
<1>10. CASE UNCHANGED vars
  BY <1>1, <1>10, StutterSafe
<1> QED BY <1>2, <1>3, <1>4, <1>5, <1>6, <1>7, <1>8, <1>9, <1>10
        DEF AnyNext, AnyServe, Ended

\* IInv holds in every state of every session.
THEOREM InductiveInvariant == Spec => []IInv
<1>1. Init => IInv
  BY InitSafe
<1>2. IInv /\ [Next]_vars => IInv'
  BY NextSafe, NextIsAnyNext
<1> QED BY <1>1, <1>2, PTL DEF Spec

\* What IInv says of the state, in the words of the properties
LEMMA IInvImplies ==
    IInv => /\ InSync /\ BadCommandsBounded /\ AuthGuarded
            /\ DeliveryGated /\ MessageIsolated /\ SizeRespected
<1> SUFFICES ASSUME IInv
             PROVE  /\ InSync /\ BadCommandsBounded /\ AuthGuarded
                    /\ DeliveryGated /\ MessageIsolated /\ SizeRespected
  OBVIOUS
<1>1. InSync
  BY DEF IInv, SyncInv, InSync, Terminal
<1>2. BadCommandsBounded
  BY DEF IInv, CounterInv
<1>3. AuthGuarded /\ DeliveryGated /\ MessageIsolated /\ SizeRespected
  BY DEF IInv, HandedInv
<1> QED BY <1>1, <1>2, <1>3

\* No message reaches Handler before a greeting, in the clear where TLSOnly is
\* set, or without authentication where mechanisms are configured.
THEOREM DeliveryIsGated == Spec => []DeliveryGated
BY InductiveInvariant, IInvImplies, PTL

\* Between commands, client and server agree about the open transaction.
THEOREM StaysInSync == Spec => []InSync
BY InductiveInvariant, IInvImplies, PTL

\* No octet of another message, or of a BDAT, gets into a message.
THEOREM MessagesAreIsolated == Spec => []MessageIsolated
BY InductiveInvariant, IInvImplies, PTL

\* Handler gets no more text than MsgSize, for every limit.
THEOREM SizeIsRespected == Spec => []SizeRespected
BY InductiveInvariant, IInvImplies, PTL

\* Credentials are asked for, and accepted, only over TLS.
THEOREM AuthIsGuarded == Spec => []AuthGuarded
BY InductiveInvariant, IInvImplies, PTL

\* The bad-command counter stays within its limit, for every limit.
THEOREM BadCommandsAreBounded == Spec => []BadCommandsBounded
BY InductiveInvariant, IInvImplies, PTL

-----------------------------------------------------------------------------
\* The action properties

\* Only the end of DATA hands a message over, and its recipients are those the
\* client was told of.
LEMMA NextAcknowledged ==
    ASSUME IInv, [AnyNext]_vars
    PROVE  [\A h \in handed' : told.mail /\ h.env.MailTo = told.rcpts]_vars
<1>1. CASE UNCHANGED vars
  BY <1>1
<1>2. CASE handed' = {}
  BY <1>2
<1>3. ASSUME NEW dot \in BOOLEAN, NEW queued \in BOOLEAN, DataDone(dot, queued),
             handed' # {}
      PROVE  \A h \in handed' : told.mail /\ h.env.MailTo = told.rcpts
  <2>1. PICK e \in Closed(AddHeaders(envelope, ServerHeaders)) :
              handed' = {[env |-> e, octets |-> envelope.data, dot |-> dot,
                          size |-> local.size, lines |-> local.lines]}
    BY <1>3 DEF DataDone
  <2>2. ServerHeaders \in SUBSET AddedHeader /\ envelope \in Envelope
    BY DEF ServerHeaders, AddedHeader, IInv, TypeOK
  <2>3. e.MailTo = envelope.MailTo
    BY <2>1, <2>2, AddHeadersType, ClosedType
  <2>4. told.mail /\ envelope.MailTo = told.rcpts
    BY <1>3 DEF DataDone, IInv, DataInv
  <2> QED BY <2>1, <2>3, <2>4
<1>4. ASSUME handed' # {}, ~UNCHANGED vars
      PROVE  \E dot, queued \in BOOLEAN : DataDone(dot, queued)
  <2>1. CASE AnyGreeting \/ handleStartTLS \/ Handshake
    BY <1>4, <2>1 DEF AnyGreeting, handleEhlo, handleHelo, Hello, handleStartTLS,
                      Handshake
  <2>2. CASE AnyAuthentication
    BY <1>4, <2>2 DEF AnyAuthentication, handleAuth, AuthDialogue, LoginUser,
                      LoginPassword1, LoginPassword2, PlainResponse, AuthStep
  <2>3. CASE AnyTransaction
    BY <1>4, <2>3 DEF AnyTransaction, handleMail, handleRcpt, handleData,
                      DataLine, DataReadFails, DataTooBig, handleBdat,
                      handleBdatNoArgs, BdatChunk, BdatReadFails
  <2>4. CASE \/ handleNoop \/ handleHelp \/ handleVrfy \/ handleExpn
             \/ handleRset \/ handleQuit \/ Client
    BY <1>4, <2>4 DEF handleNoop, handleHelp, handleVrfy, handleExpn, Replies,
                      handleRset, handleQuit, Client
  <2>5. CASE \/ handleWelcome \/ TooManyBadCommands \/ ReadLineFails
             \/ BareNewline \/ Unrecognized
    BY <1>4, <2>5 DEF handleWelcome, TooManyBadCommands, ReadLineFails,
                      BareNewline, Unrecognized
  <2> QED BY <1>4, <2>1, <2>2, <2>3, <2>4, <2>5 DEF AnyNext, AnyServe, Ended
<1> QED BY <1>1, <1>2, <1>3, <1>4

\* Every message handed over goes to exactly the acknowledged recipients.
THEOREM RecipientsAreAcknowledged == Spec => RecipientsAcknowledged
<1>1. IInv /\ [Next]_vars =>
         [\A h \in handed' : told.mail /\ h.env.MailTo = told.rcpts]_vars
  BY NextAcknowledged, NextIsAnyNext
<1> QED BY <1>1, InductiveInvariant, PTL DEF Spec, RecipientsAcknowledged

\* An AUTH command of an authenticated client is refused before it stores a
\* user name, and no other action touches the peer.
LEMMA NextKeepsIdentity ==
    ASSUME IInv, [AnyNext]_vars
    PROVE  /\ tls => tls'
           /\ authenticated => authenticated' /\ username' = username
<1>1. CASE AnyGreeting \/ handleStartTLS \/ Handshake
  <2>1. UNCHANGED peerVars
    BY <1>1 DEF AnyGreeting, handleEhlo, handleHelo, Hello, handleStartTLS, Handshake
  <2>2. tls' = tls \/ tls' = TRUE
    BY <1>1 DEF AnyGreeting, handleEhlo, handleHelo, Hello, handleStartTLS, Handshake
  <2> QED BY <2>1, <2>2 DEF peerVars
<1>2. CASE AnyAuthentication
  <2>1. tls' = tls
    BY <1>2 DEF AnyAuthentication, handleAuth, AuthDialogue, LoginUser,
                LoginPassword1, LoginPassword2, PlainResponse, AuthStep, authFrame
  <2>2. authenticated => UNCHANGED peerVars
    <3>1. CASE AuthDialogue
      BY <3>1 DEF AuthDialogue, LoginUser, LoginPassword1, LoginPassword2,
                  PlainResponse, IInv, AuthGuarded, AuthPC
    <3>2. CASE \E mech, n : handleAuth(mech, n)
      <4> SUFFICES ASSUME NEW mech, NEW n, handleAuth(mech, n), authenticated
                   PROVE  UNCHANGED peerVars
        BY <3>2
      <4>1. AuthRefusal(mech, n) # ""
        BY DEF AuthRefusal
      <4> QED BY <4>1 DEF handleAuth, Malformed
    <3> QED BY <1>2, <3>1, <3>2 DEF AnyAuthentication
  <2> QED BY <2>1, <2>2 DEF peerVars
<1>3. CASE AnyTransaction
  <2>1. UNCHANGED transactionFrame
    BY <1>3 DEF AnyTransaction, handleMail, handleRcpt, handleData, DataLine,
                DataReadFails, DataTooBig, DataDone, handleBdat, handleBdatNoArgs,
                BdatChunk, BdatReadFails
  <2> QED BY <2>1 DEF transactionFrame, peerVars
<1>4. CASE \/ handleNoop \/ handleHelp \/ handleVrfy \/ handleExpn
           \/ handleRset \/ handleQuit \/ Client
  <2>1. UNCHANGED <<tls, peerVars>>
    BY <1>4 DEF handleNoop, handleHelp, handleVrfy, handleExpn, Replies,
                handleRset, handleQuit, Client
  <2> QED BY <2>1 DEF peerVars
<1>5. CASE \/ handleWelcome \/ TooManyBadCommands \/ ReadLineFails
           \/ BareNewline \/ Unrecognized
  BY <1>5 DEF handleWelcome, TooManyBadCommands, ReadLineFails, BareNewline,
              Unrecognized, loopFrame, peerVars
<1>6. CASE UNCHANGED vars
  BY <1>6 DEF vars
<1> QED BY <1>1, <1>2, <1>3, <1>4, <1>5, <1>6 DEF AnyNext, AnyServe, Ended

\* Encryption and identity last as long as the session.
THEOREM IdentityIsStable == Spec => IdentityStable
<1>1. IInv /\ [Next]_vars =>
         [/\ tls => tls'
          /\ authenticated => authenticated' /\ username' = username]_vars
  BY NextKeepsIdentity, NextIsAnyNext
<1> QED BY <1>1, InductiveInvariant, PTL DEF Spec, IdentityStable

-----------------------------------------------------------------------------
\* How a step may change the recipients
RecipientsStep ==
    \/ envelope'.MailTo = envelope.MailTo
    \/ envelope'.MailTo = <<>>
    \/ /\ Len(envelope.MailTo) <= MaxRcptCount
       /\ \E rcpt \in Address : envelope'.MailTo = Append(envelope.MailTo, rcpt)

\* Only an accepted RCPT adds a recipient, and it has compared their number
\* before (handleRcpt).
LEMMA RcptRecipients ==
    ASSUME TypeOK, NEW rcpt \in Address \cup {NoAddress}, NEW args, NEW verdict,
           handleRcpt(rcpt, args, verdict)
    PROVE  RecipientsStep
<1>1. envelope \in Envelope
  BY DEF TypeOK
<1>2. CASE \/ UNCHANGED envelope
           \/ envelope' = DropSender(envelope, RcptExtensions(args))
  BY <1>1, <1>2, DropSenderType DEF RecipientsStep
<1>3. CASE /\ RcptRefusal(rcpt, args, verdict) = "" /\ args # <<>>
           /\ RcptAccepts(rcpt, RcptExtensions(args))
  <2>1. rcpt \in Address /\ ~(Len(envelope.MailTo) > MaxRcptCount)
    BY <1>3 DEF RcptRefusal
  <2>2. Len(envelope.MailTo) <= MaxRcptCount
    BY <1>1, <2>1, LimitsAssumption DEF Envelope
  <2>3. DropSender(envelope, RcptExtensions(args)) \in Envelope
    BY <1>1, DropSenderType
  <2>4. envelope' = AddRecipient(DropSender(envelope, RcptExtensions(args)), rcpt)
    BY <1>3 DEF RcptAccepts
  <2>5. envelope'.MailTo = Append(envelope.MailTo, rcpt)
    BY <1>1, <2>1, <2>3, <2>4, DropSenderType, AddRecipientType
  <2> QED BY <2>1, <2>2, <2>5 DEF RecipientsStep
<1> QED BY <1>2, <1>3 DEF handleRcpt

\* The other steps of a transaction keep the recipients or drop them all.
LEMMA TransactionRecipients ==
    ASSUME TypeOK, AnyTransaction
    PROVE  RecipientsStep
<1>1. envelope \in Envelope
  BY DEF TypeOK
<1>2. ASSUME NEW from \in Address \cup {NoAddress}, NEW senderOk, NEW exts,
             NEW resolves, handleMail(from, senderOk, exts, resolves)
      PROVE  RecipientsStep
  <2>1. EnvReset(envelope).MailTo = <<>>
    BY <1>1, EnvResetType
  <2>2. CASE envelope' = EnvReset(envelope)
    BY <2>1, <2>2 DEF RecipientsStep
  <2>3. CASE MailExtensions([EnvReset(envelope) EXCEPT !.MailFrom = from], exts,
                            resolves)
    BY <1>1, <2>3 DEF MailExtensions, DropSender, EnvReset, Envelope,
                      RecipientsStep
  <2> QED BY <1>2, <2>2, <2>3 DEF handleMail
<1>3. CASE \/ handleData \/ DataReadFails \/ DataTooBig \/ handleBdatNoArgs
           \/ BdatReadFails
           \/ \E n \in Int, valid \in BOOLEAN, last \in BOOLEAN :
                 handleBdat(n, valid, last)
  BY <1>1, <1>3, BeginDataType
     DEF handleData, DataReadFails, DataTooBig, handleBdatNoArgs, BdatReadFails,
         handleBdat, RecipientsStep
<1>4. ASSUME NEW n \in Nat, DataLine(n)
      PROVE  RecipientsStep
  BY <1>1, <1>4 DEF DataLine, Write, Envelope, RecipientsStep
<1>5. ASSUME NEW dot \in BOOLEAN, NEW queued \in BOOLEAN, DataDone(dot, queued)
      PROVE  RecipientsStep
  <2>1. ServerHeaders \in SUBSET AddedHeader
    BY DEF ServerHeaders, AddedHeader
  <2>2. CASE UNCHANGED envelope
    BY <2>2 DEF RecipientsStep
  <2>3. ASSUME NEW e \in Closed(AddHeaders(envelope, ServerHeaders)),
               envelope' = EnvReset(e)
        PROVE  RecipientsStep
    BY <1>1, <2>1, <2>3, AddHeadersType, ClosedType, EnvResetType
       DEF RecipientsStep
  <2> QED BY <1>5, <2>2, <2>3 DEF DataDone
<1>6. CASE BdatChunk
  <2>1. local.chunk \in Nat
    BY DEF TypeOK, Local
  <2>2. Write(envelope, local.chunk) \in Envelope
    BY <1>1, <2>1, WriteType
  <2>3. Write(envelope, local.chunk).MailTo = envelope.MailTo
    BY <1>1, <2>1, WriteType
  <2>4. \/ envelope' \in Closed(Write(envelope, local.chunk))
        \/ envelope' = Write(envelope, local.chunk)
    BY <1>6 DEF BdatChunk
  <2>5. envelope'.MailTo = envelope.MailTo
    BY <2>2, <2>3, <2>4, ClosedType
  <2> QED BY <2>5 DEF RecipientsStep
<1>7. ASSUME NEW rcpt \in Address \cup {NoAddress}, NEW args, NEW verdict,
             handleRcpt(rcpt, args, verdict)
      PROVE  RecipientsStep
  BY <1>7, RcptRecipients
<1> QED BY <1>2, <1>3, <1>4, <1>5, <1>6, <1>7 DEF AnyTransaction

\* Every step keeps the recipients, drops them or adds one within the limit.
LEMMA NextRecipients ==
    ASSUME TypeOK, [AnyNext]_vars
    PROVE  RecipientsStep
<1>1. envelope \in Envelope
  BY DEF TypeOK
<1>2. CASE AnyGreeting \/ handleStartTLS \/ Handshake \/ handleRset
  BY <1>1, <1>2, EnvResetType
     DEF AnyGreeting, handleEhlo, handleHelo, Hello, handleStartTLS, Handshake,
         handleRset, RecipientsStep
<1>3. CASE AnyAuthentication
  BY <1>3 DEF AnyAuthentication, handleAuth, AuthDialogue, LoginUser,
              LoginPassword1, LoginPassword2, PlainResponse, AuthStep,
              authFrame, RecipientsStep
<1>4. CASE \/ handleNoop \/ handleHelp \/ handleVrfy \/ handleExpn \/ handleQuit
           \/ Client
  BY <1>4 DEF handleNoop, handleHelp, handleVrfy, handleExpn, Replies,
              handleQuit, Client, RecipientsStep
<1>5. CASE \/ handleWelcome \/ TooManyBadCommands \/ ReadLineFails
           \/ BareNewline \/ Unrecognized
  BY <1>5 DEF handleWelcome, TooManyBadCommands, ReadLineFails, BareNewline,
              Unrecognized, loopFrame, RecipientsStep
<1>6. CASE UNCHANGED vars
  BY <1>6 DEF vars, RecipientsStep
<1> QED BY <1>2, <1>3, <1>4, <1>5, <1>6, TransactionRecipients
           DEF AnyNext, AnyServe, Ended

\* A message has at most one recipient more than the limit when it is new.
LEMMA InitRecipients == Init => RecipientsBounded
<1>1. NewEnvelope.MailTo = <<>> /\ Len(<<>>) = 0 /\ MaxRcptCount \in Nat
  BY LimitsAssumption DEF NewEnvelope
<1>2. 0 <= MaxRcptCount + 1
  BY <1>1
<1> QED BY <1>1, <1>2 DEF Init, RecipientsBounded

\* Every step keeps the number of recipients within the limit.
LEMMA NextRecipientsBounded ==
    TypeOK /\ RecipientsBounded /\ [AnyNext]_vars => RecipientsBounded'
<1> SUFFICES ASSUME TypeOK, RecipientsBounded, RecipientsStep
             PROVE  RecipientsBounded'
  BY NextRecipients
<1>1. envelope.MailTo \in Seq(Address) /\ MaxRcptCount \in Nat
  BY LimitsAssumption DEF TypeOK, Envelope
<1>2. CASE envelope'.MailTo \in {envelope.MailTo, <<>>}
  BY <1>1, <1>2 DEF RecipientsBounded
<1>3. ASSUME Len(envelope.MailTo) <= MaxRcptCount, NEW rcpt \in Address,
             envelope'.MailTo = Append(envelope.MailTo, rcpt)
      PROVE  RecipientsBounded'
  BY <1>1, <1>3, AppendProperties DEF RecipientsBounded
<1> QED BY <1>2, <1>3 DEF RecipientsStep

\* A message never has more than MaxRcptCount + 1 recipients, for every limit.
THEOREM RecipientsAreBounded == Spec => []RecipientsBounded
<1>1. Init => RecipientsBounded
  BY InitRecipients
<1>2. TypeOK /\ RecipientsBounded /\ [Next]_vars => RecipientsBounded'
  BY NextRecipientsBounded, NextIsAnyNext
<1> QED BY <1>1, <1>2, TypeCorrect, PTL DEF Spec

=============================================================================
