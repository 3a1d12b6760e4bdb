---------------------------- MODULE SessionProofs ----------------------------
(***************************************************************************)
(* Proofs about Session, for all configurations, limits and inputs: first   *)
(* what the operations on the envelope and the extension loops return and   *)
(* preserve, then that every step keeps the types.                          *)
(***************************************************************************)
EXTENDS Session, SequenceTheorems, FiniteSetTheorems, TLAPS

-----------------------------------------------------------------------------
\* The envelope and the extension loops

\* A new envelope is well formed.
LEMMA NewEnvelopeType == NewEnvelope \in Envelope
BY AddressAssumption DEF NewEnvelope, Envelope, NoMail, AddedHeader

\* Envelope.Reset forgets recipients, sender, data and added headers, and
\* keeps the priority.
LEMMA EnvResetType ==
    ASSUME NEW e \in Envelope
    PROVE  /\ EnvReset(e) \in Envelope
           /\ EnvReset(e).MailTo = <<>>
           /\ EnvReset(e).MailFrom = NoAddress
           /\ EnvReset(e).data = 0
           /\ EnvReset(e).Priority = e.Priority
<1>1. <<>> \in Seq(Address)
  OBVIOUS
<1> QED BY <1>1 DEF EnvReset, Envelope

\* AddRecipient appends to the recipients and changes nothing else.
LEMMA AddRecipientType ==
    ASSUME NEW e \in Envelope, NEW a \in Address
    PROVE  /\ AddRecipient(e, a) \in Envelope
           /\ AddRecipient(e, a).MailTo = Append(e.MailTo, a)
           /\ AddRecipient(e, a).MailTo # <<>>
<1>1. e.MailTo \in Seq(Address)
  BY DEF Envelope
<1>2. Append(e.MailTo, a) \in Seq(Address) /\ Append(e.MailTo, a) # <<>>
  BY <1>1, AppendProperties
<1> QED BY <1>1, <1>2 DEF AddRecipient, Envelope

\* BeginData empties the buffer and keeps the recipients.
LEMMA BeginDataType ==
    ASSUME NEW e \in Envelope
    PROVE  /\ BeginData(e) \in Envelope
           /\ BeginData(e).MailTo = e.MailTo
           /\ BeginData(e).data = 0
BY DEF BeginData, Envelope

\* Write adds its octets and keeps the recipients.
LEMMA WriteType ==
    ASSUME NEW e \in Envelope, NEW n \in Nat
    PROVE  /\ Write(e, n) \in Envelope
           /\ Write(e, n).MailTo = e.MailTo
           /\ Write(e, n).data = e.data + n
<1>1. e.data + n \in Nat
  BY DEF Envelope
<1> QED BY <1>1 DEF Write, Envelope

\* The headers the server adds leave recipients and data alone.
LEMMA AddHeadersType ==
    ASSUME NEW e \in Envelope, NEW hs \in SUBSET AddedHeader
    PROVE  /\ AddHeaders(e, hs) \in Envelope
           /\ AddHeaders(e, hs).MailTo = e.MailTo
BY DEF AddHeaders, Envelope

\* Whatever Close makes of the data, it keeps sender and recipients, and what
\* is left to read is no more than there was.
LEMMA ClosedType ==
    ASSUME NEW e \in Envelope, NEW c \in Closed(e)
    PROVE  /\ c \in Envelope
           /\ c.MailTo = e.MailTo
           /\ c.MailFrom = e.MailFrom
           /\ c.data <= e.data
<1>1. PICK n \in Leftover(e.data), ok \in BOOLEAN : c = Close(e, n, ok)
  BY DEF Closed
<1>2. /\ e.data \in Nat
      /\ n \in Nat
      /\ n <= e.data
  BY DEF Leftover, Envelope
<1>3. (IF ok THEN [parsed |-> TRUE, added |-> e.headers] ELSE NoMail)
         \in [parsed : BOOLEAN, added : SUBSET AddedHeader]
  BY DEF Envelope, NoMail
<1> QED BY <1>1, <1>2, <1>3 DEF Envelope, Close

-----------------------------------------------------------------------------

\* Taking the sender out leaves the recipients and the data alone.
LEMMA DropSenderType ==
    ASSUME NEW e \in Envelope, NEW exts
    PROVE  /\ DropSender(e, exts) \in Envelope
           /\ DropSender(e, exts).MailTo = e.MailTo
           /\ DropSender(e, exts).data = e.data
BY DEF DropSender, Envelope

\* The 555 replies of an extension loop are finitely many.
LEMMA NotesType ==
    ASSUME NEW exts \in Seq(Extension)
    PROVE  Notes(exts) \in Seq(Reply)
<1>1. Len(exts) \in Nat
  OBVIOUS
<1>2. IsFiniteSet(1 .. Len(exts))
  BY <1>1, FS_Interval
<1>3. IsFiniteSet(Unknown(exts))
  BY <1>2, FS_Subset DEF Unknown, Passed
<1>4. Cardinality(Unknown(exts)) \in Nat
  BY <1>3, FS_CardinalityType
<1>5. "555" \in Reply
  BY DEF Reply
<1> QED BY <1>4, <1>5, IsASeq DEF Notes

\* An argument ends the loop with one of three replies, or does not end it.
LEMMA ExtRefusalType ==
    ASSUME NEW x
    PROVE  ExtRefusal(x) \in {"FailInvalidAddress", "FailInvalidExtension",
                              "FailTooBig", ""}
BY DEF ExtRefusal

\* The last extension of a name that an extension loop got past was accepted.
LEMMA LastOfType ==
    ASSUME NEW exts \in Seq(Extension), NEW name, NEW x \in LastOf(name, exts)
    PROVE  x \in Extension /\ x.name = name /\ ExtRefusal(x) = ""
<1>1. PICK i \in Passed(exts) : x = exts[i] /\ exts[i].name = name
  BY DEF LastOf
<1>2. i \in 1 .. Len(exts)
  BY <1>1 DEF Passed
<1>3. i \in 1 .. i
  <2>1. Len(exts) \in Nat
    OBVIOUS
  <2> QED BY <1>2, <2>1
<1>4. exts[i] \in Extension
  BY <1>2, ElementOfSeq
<1>5. ExtRefusal(exts[i]) = ""
  BY <1>1, <1>3 DEF Passed
<1> QED BY <1>1, <1>4, <1>5

\* A priority an extension loop got past is one of RFC 6710.
LEMMA PriorityRange ==
    ASSUME NEW exts \in Seq(Extension), NEW x \in LastOf("MT-PRIORITY", exts)
    PROVE  x.num \in -9 .. 9
<1>1. x \in Extension /\ x.name = "MT-PRIORITY" /\ ExtRefusal(x) = ""
  BY LastOfType
<1> QED BY <1>1 DEF ExtRefusal

-----------------------------------------------------------------------------
\* The helpers every handler uses

\* No reply, one and two make a sequence of replies.
LEMMA NoReply == <<>> \in Seq(Reply)
OBVIOUS

\* A single reply is a list of replies.
LEMMA OneReply == \A r \in Reply : <<r>> \in Seq(Reply)
OBVIOUS

\* Two replies are a list of replies.
LEMMA TwoReplies == \A r, q \in Reply : <<r, q>> \in Seq(Reply)
OBVIOUS

\* A flush sends a prefix of the replies it is given.
LEMMA FlushType ==
    ASSUME NEW msgs \in Seq(Reply), Flush(msgs)
    PROVE  replies' \in Seq(Reply) /\ broken' \in BOOLEAN
<1>1. CASE replies' = msgs /\ broken' = FALSE
  BY <1>1
<1>2. ASSUME NEW n \in 0 .. Len(msgs) - 1, replies' = SubSeq(msgs, 1, n)
      PROVE  replies' \in Seq(Reply)
  BY <1>2
<1> QED BY <1>1, <1>2 DEF Flush

\* Out keeps the types of what it writes.
LEMMA OutType ==
    ASSUME NEW msgs \in Seq(Reply), NEW st \in RestState, Out(msgs, st)
    PROVE  /\ replies' \in Seq(Reply)
           /\ broken' \in BOOLEAN
           /\ state' \in RestState
<1>1. replies' \in Seq(Reply) /\ broken' \in BOOLEAN
  BY FlushType DEF Out
<1>2. "Aborted" \in RestState
  BY DEF RestState, SessionState
<1> QED BY <1>1, <1>2 DEF Out

\* Out with one reply, and with a reply after the 555s of an extension loop.
LEMMA OutOneType ==
    ASSUME NEW r \in Reply, NEW st \in RestState, Out(<<r>>, st)
    PROVE  /\ replies' \in Seq(Reply)
           /\ broken' \in BOOLEAN
           /\ state' \in RestState
<1>1. <<r>> \in Seq(Reply)
  BY OneReply
<1> QED BY <1>1, OutType

\* Out after the 555 replies of an extension loop.
LEMMA OutNotesType ==
    ASSUME NEW exts \in Seq(Extension), NEW r \in Reply, NEW st \in RestState,
           Out(Append(Notes(exts), r), st)
    PROVE  /\ replies' \in Seq(Reply)
           /\ broken' \in BOOLEAN
           /\ state' \in RestState
<1>1. Notes(exts) \in Seq(Reply)
  BY NotesType
<1>2. Append(Notes(exts), r) \in Seq(Reply)
  BY <1>1, AppendProperties
<1> QED BY <1>2, OutType

\* Out followed by an assignment to the state.
LEMMA OutThenType ==
    ASSUME NEW r \in Reply, NEW st, OutThen(<<r>>, st)
    PROVE  /\ replies' \in Seq(Reply)
           /\ broken' \in BOOLEAN
           /\ state' = st
<1>1. <<r>> \in Seq(Reply)
  BY OneReply
<1> QED BY <1>1, FlushType DEF OutThen

\* A step that writes nothing.
LEMMA SilentType ==
    ASSUME broken \in BOOLEAN, Silent
    PROVE  replies' \in Seq(Reply) /\ broken' \in BOOLEAN
BY DEF Silent

\* The locals of no handler are well typed.
LEMMA NoLocalType == NoLocal \in Local
BY DEF NoLocal, Local

\* The end of a handler leaves the loop or waits for the next command.
LEMMA HandledType ==
    ASSUME deadline \in Deadline, Handled
    PROVE  /\ pc' \in {"read", "closed"}
           /\ pc' = "closed" <=> state' = "Aborted"
           /\ deadline' \in Deadline
           /\ local' = NoLocal
           /\ local' \in Local
BY NoLocalType DEF Handled, Deadline

\* A panic ends in the state it is given, or in Aborted if a reply was lost.
LEMMA PanicsAfterType ==
    ASSUME TypeOK, NEW msgs \in Seq(Reply), NEW st \in RestState,
           PanicsAfter(msgs, st)
    PROVE  /\ pc' = "panic"
           /\ replies' \in Seq(Reply)
           /\ broken' \in BOOLEAN
           /\ state' \in RestState
           /\ deadline' = deadline
           /\ local' = local
BY OutType, SilentType DEF PanicsAfter, TypeOK

\* A panic without a reply changes only pc.
LEMMA PanicsType ==
    ASSUME TypeOK, Panics
    PROVE  /\ pc' = "panic"
           /\ replies' \in Seq(Reply)
           /\ broken' = broken
           /\ state' = state
           /\ deadline' = deadline
           /\ local' = local
BY SilentType DEF Panics, PanicsAfter, Silent, TypeOK

-----------------------------------------------------------------------------
\* Type correctness.  ControlType is the part of it that the end of a handler
\* writes; the lemmas say so for each way a handler can end.

ControlType == /\ pc \in PC
               /\ state \in RestState
               /\ deadline \in Deadline
               /\ broken \in BOOLEAN
               /\ local \in Local
               /\ replies \in Seq(Reply)

\* The rest of it: what the handlers compute
DataType == /\ srv \in Configs
            /\ helloSeen \in BOOLEAN
            /\ bodyType \in BodyTypes
            /\ bad \in Nat
            /\ tls \in BOOLEAN
            /\ authenticated \in BOOLEAN
            /\ username \in Users \cup {NoUser}
            /\ envelope \in Envelope
            /\ client \in {"active", "silent", "gone"}
            /\ handed \in SUBSET Handoff
            /\ told \in Told

\* TypeOK is these two parts.
LEMMA TypeSplit == /\ TypeOK <=> ControlType /\ DataType
                   /\ TypeOK' <=> ControlType' /\ DataType'
BY DEF TypeOK, ControlType, DataType

\* A handler that ends with one reply keeps the types.
LEMMA OutControl ==
    ASSUME ControlType, NEW r \in Reply, NEW st \in RestState,
           Out(<<r>>, st), Handled
    PROVE  ControlType'
BY OutOneType, HandledType DEF ControlType, PC, Terminal

\* A handler that ends with the replies of an extension loop keeps the types.
LEMMA OutNotesControl ==
    ASSUME ControlType, NEW exts \in Seq(Extension), NEW r \in Reply,
           NEW st \in RestState, Out(Append(Notes(exts), r), st), Handled
    PROVE  ControlType'
BY OutNotesType, HandledType DEF ControlType, PC, Terminal

\* A handler that ends with a reply and an assignment of the state keeps the types.
LEMMA OutThenControl ==
    ASSUME ControlType, NEW r \in Reply, NEW st \in RestState,
           OutThen(<<r>>, st), Handled
    PROVE  ControlType'
BY OutThenType, HandledType DEF ControlType, PC, Terminal

\* A handler that panics after its replies keeps the types.
LEMMA PanicsAfterControl ==
    ASSUME ControlType, NEW msgs \in Seq(Reply), NEW st \in RestState,
           PanicsAfter(msgs, st)
    PROVE  ControlType'
BY OutType, SilentType DEF PanicsAfter, ControlType, PC, Terminal

\* A handler that panics at once keeps the types.
LEMMA PanicsControl ==
    ASSUME ControlType, Panics
    PROVE  ControlType'
BY NoReply, PanicsAfterControl DEF Panics, ControlType

\* The states assigned by name are states a session rests in.
LEMMA RestStates ==
    {"Init", "GotMail", "GettingData", "DataDone", "Aborted"} \subseteq RestState
BY DEF RestState, SessionState

-----------------------------------------------------------------------------
\* Every action keeps the types.

\* A client that was told nothing.
LEMMA NothingToldType == NothingTold \in Told
BY DEF NothingTold, Told

\* HELO and EHLO keep the types.
LEMMA HelloType ==
    ASSUME TypeOK, NEW n, NEW refused \in BOOLEAN,
           NEW reply \in {"250-EHLO", "250 HELO"}, Hello(n, refused, reply)
    PROVE  TypeOK'
<1>1. DataType'
  BY EnvResetType, NothingToldType DEF Hello, TypeOK, DataType, peerVars
<1>2. ControlType
  BY TypeSplit
<1>3. reply \in Reply /\ "550" \in Reply
  BY DEF Reply
<1>4. (IF refused THEN <<"550", reply>> ELSE <<reply>>) \in Seq(Reply)
  BY <1>3, OneReply, TwoReplies
<1>5. ControlType'
  <2>1. CASE PanicsAfter(<<>>, "Init")
    BY <2>1, <1>2, NoReply, PanicsAfterControl, RestStates
  <2>2. CASE /\ Out(IF refused THEN <<"550", reply>> ELSE <<reply>>, "Init")
             /\ Handled
    BY <2>2, <1>2, <1>4, OutType, HandledType, RestStates
       DEF ControlType, PC, Terminal
  <2> QED BY <2>1, <2>2 DEF Hello
<1> QED BY <1>1, <1>5, TypeSplit

\* STARTTLS keeps the types.
LEMMA StartTLSType ==
    ASSUME TypeOK, handleStartTLS
    PROVE  TypeOK'
<1>1. DataType'
  BY DEF handleStartTLS, TypeOK, DataType, peerVars, BadCommand
<1>2. ControlType
  BY TypeSplit
<1>3. {"FailBadSequence", "FailCmdNotSupported", "SuccessStartTLSCmd"}
         \subseteq Reply
  BY DEF Reply
<1>4. ControlType'
  <2>1. CASE Out(<<"FailBadSequence">>, state) /\ Handled
    BY <2>1, <1>2, <1>3, OutControl DEF ControlType
  <2>2. CASE Out(<<"FailCmdNotSupported">>, state) /\ Handled
    BY <2>2, <1>2, <1>3, OutControl DEF ControlType
  <2>3. CASE /\ Out(<<"SuccessStartTLSCmd">>, state)
             /\ pc' = "handshake" /\ deadline' = "tls" /\ UNCHANGED local
    BY <2>3, <1>2, <1>3, OutOneType DEF ControlType, PC, Deadline
  <2> QED BY <2>1, <2>2, <2>3 DEF handleStartTLS
<1> QED BY <1>1, <1>4, TypeSplit

\* The TLS handshake keeps the types.
LEMMA HandshakeType ==
    ASSUME TypeOK, Handshake
    PROVE  TypeOK'
<1>1. DataType'
  BY EnvResetType, NothingToldType DEF Handshake, TypeOK, DataType, peerVars
<1>2. ControlType
  BY TypeSplit
<1>3. "FailUndefinedSecurityStatus" \in Reply
  BY DEF Reply
<1>4. ControlType'
  <2>1. CASE state' = "Init" /\ replies' = <<>> /\ broken' = FALSE /\ Handled
    BY <2>1, <1>2, NoReply, HandledType, RestStates DEF ControlType, PC, Terminal
  <2>2. CASE Out(<<"FailUndefinedSecurityStatus">>, state) /\ Handled
    BY <2>2, <1>2, <1>3, OutControl DEF ControlType
  <2> QED BY <2>1, <2>2 DEF Handshake
<1> QED BY <1>1, <1>4, TypeSplit

-----------------------------------------------------------------------------
\* AUTH.  LoginType is what a step of it writes besides the control state.

LoginType == /\ bad \in Nat
             /\ authenticated \in BOOLEAN
             /\ username \in Users \cup {NoUser}

\* A step of AUTH changes only control and peer.
LEMMA AuthStepType ==
    ASSUME TypeOK, AuthStep, ControlType', LoginType'
    PROVE  TypeOK'
<1>1. DataType'
  BY DEF AuthStep, authFrame, TypeOK, DataType, LoginType
<1> QED BY <1>1, TypeSplit

\* The part of the types that AUTH depends on.
LEMMA LoginTypeHolds == TypeOK => ControlType /\ LoginType
BY DEF TypeOK, ControlType, LoginType

\* Counting a bad command keeps a number.
LEMMA BadCommandType ==
    ASSUME LoginType, BadCommand \/ UNCHANGED bad
    PROVE  bad' \in Nat
BY DEF LoginType, BadCommand

\* AUTH: a reply that ends the dialogue keeps the types.
LEMMA MalformedType ==
    ASSUME ControlType, LoginType, NEW r \in Reply, NEW st \in RestState,
           Malformed(r, st), BadCommand \/ UNCHANGED bad
    PROVE  ControlType' /\ LoginType'
<1>1. ControlType'
  BY OutControl DEF Malformed
<1>2. bad' \in Nat
  BY BadCommandType
<1> QED BY <1>1, <1>2 DEF Malformed, LoginType, peerVars

\* AUTH: the verdict of the Authenticator keeps the types.
LEMMA CheckLoginType ==
    ASSUME ControlType, LoginType, NEW user \in Users \cup {NoUser},
           NEW verdict \in {"ok", "no", "err"}, checkLogin(user, verdict)
    PROVE  ControlType' /\ LoginType'
<1>1. {"SuccessAuthentication", "FailAuthentication", "ErrorAuth"} \subseteq Reply
  BY DEF Reply
<1>2. LoginType'
  BY DEF checkLogin, LoginType
<1>3. state \in RestState /\ "Aborted" \in RestState
  BY RestStates DEF ControlType
<1>4. CASE Out(<<"SuccessAuthentication">>, state) /\ Handled
  BY <1>1, <1>2, <1>3, <1>4, OutControl
<1>5. CASE Out(<<"FailAuthentication">>, state) /\ Handled
  BY <1>1, <1>2, <1>3, <1>5, OutControl
<1>6. CASE OutThen(<<"ErrorAuth">>, "Aborted") /\ Handled
  BY <1>1, <1>2, <1>3, <1>6, OutThenControl
<1>7. CASE Panics
  BY <1>2, <1>7, PanicsControl
<1> QED BY <1>4, <1>5, <1>6, <1>7 DEF checkLogin

\* AUTH: a prompt for the next line keeps the types.
LEMMA PromptType ==
    ASSUME ControlType, LoginType, NEW user \in Users \cup {NoUser},
           NEW at \in AuthPC, Prompt(user, at)
    PROVE  ControlType' /\ LoginType'
<1>1. "334" \in Reply
  BY DEF Reply
<1>2. /\ replies' \in Seq(Reply)
      /\ broken' \in BOOLEAN
      /\ state' \in RestState
  BY <1>1, OutOneType DEF Prompt, ControlType
<1>3. local' \in Local
  BY DEF Prompt, NoLocal, Local
<1> QED BY <1>2, <1>3 DEF Prompt, ControlType, LoginType, PC, peerVars

\* AUTH: a failed read keeps the types.
LEMMA DialogueAbortsType ==
    ASSUME ControlType, LoginType, DialogueAborts
    PROVE  ControlType' /\ LoginType'
<1>1. ControlType'
  BY SilentType, HandledType, RestStates
     DEF DialogueAborts, ControlType, PC, Terminal
<1> QED BY <1>1 DEF DialogueAborts, LoginType, peerVars

\* AUTH: a panic keeps the types.
LEMMA AuthPanicType ==
    ASSUME ControlType, LoginType, Panics, UNCHANGED <<bad, peerVars>>
    PROVE  ControlType' /\ LoginType'
BY PanicsControl DEF LoginType, peerVars

\* AUTH LOGIN keeps the types.
LEMMA LoginAuthType ==
    ASSUME ControlType, LoginType, NEW n, handleLoginAuth(n)
    PROVE  ControlType' /\ LoginType'
<1>1. "501" \in Reply /\ state \in RestState
  BY DEF Reply, ControlType
<1>2. CASE /\ pc' = "loginUser" /\ Silent
           /\ UNCHANGED <<state, deadline, local, bad, peerVars>>
  BY <1>2, SilentType DEF ControlType, LoginType, PC, AuthPC, peerVars
<1>3. CASE Malformed("501", state) /\ UNCHANGED bad
  BY <1>1, <1>3, MalformedType
<1>4. CASE \E u \in Users : Prompt(u, "loginPass2")
  BY <1>4, PromptType DEF AuthPC
<1>5. CASE \E v \in {"ok", "no", "err"} : checkLogin(NoUser, v)
  BY <1>5, CheckLoginType
<1> QED BY <1>2, <1>3, <1>4, <1>5 DEF handleLoginAuth

\* AUTH PLAIN keeps the types.
LEMMA PlainAuthType ==
    ASSUME ControlType, LoginType, NEW n, handlePlainAuth(n)
    PROVE  ControlType' /\ LoginType'
<1>1. "501" \in Reply /\ state \in RestState
  BY DEF Reply, ControlType
<1>2. CASE Prompt(NoUser, "plain")
  BY <1>2, PromptType DEF AuthPC
<1>3. CASE Malformed("501", state) /\ BadCommand
  BY <1>1, <1>3, MalformedType
<1>4. CASE \E u \in Users, v \in {"ok", "no", "err"} : checkLogin(u, v)
  BY <1>4, CheckLoginType
<1>5. CASE Panics /\ UNCHANGED <<bad, peerVars>>
  BY <1>5, AuthPanicType
<1>6. CASE \E v \in {"ok", "no", "err"} : checkLogin(NoUser, v)
  BY <1>6, CheckLoginType
<1> QED BY <1>2, <1>3, <1>4, <1>5, <1>6 DEF handlePlainAuth

\* handleAuth refuses with a reply of the table.
LEMMA AuthRefusalType ==
    \A mech, n : AuthRefusal(mech, n) \in Reply \cup {""}
BY DEF AuthRefusal, Reply

\* The AUTH command keeps the types.
LEMMA AuthType ==
    ASSUME TypeOK, NEW mech, NEW n, handleAuth(mech, n)
    PROVE  TypeOK'
<1>1. ControlType /\ LoginType
  BY LoginTypeHolds
<1>2. ControlType' /\ LoginType'
  <2>1. CASE /\ AuthRefusal(mech, n) # ""
             /\ Malformed(AuthRefusal(mech, n), state)
             /\ bad' = IF AuthRefusal(mech, n) = "FailCmdNotSupported"
                       THEN bad + 1 ELSE bad
    <3>1. AuthRefusal(mech, n) \in Reply
      BY <2>1, AuthRefusalType
    <3>2. BadCommand \/ UNCHANGED bad
      BY <2>1 DEF BadCommand
    <3> QED BY <1>1, <2>1, <3>1, <3>2, MalformedType DEF ControlType
  <2>2. CASE handleLoginAuth(n)
    BY <1>1, <2>2, LoginAuthType
  <2>3. CASE handlePlainAuth(n)
    BY <1>1, <2>3, PlainAuthType
  <2> QED BY <2>1, <2>2, <2>3 DEF handleAuth
<1> QED BY <1>2, AuthStepType DEF handleAuth

\* The lines that follow an AUTH command keep the types.
LEMMA AuthDialogueType ==
    ASSUME TypeOK, AuthDialogue
    PROVE  TypeOK'
<1>1. /\ ControlType /\ LoginType
      /\ state \in RestState
      /\ "Aborted" \in RestState
      /\ local.login \in Users \cup {NoUser}
      /\ {"501", "FailUnrecognizedCmd", "FailLineTooLong"} \subseteq Reply
      /\ "loginPass1" \in AuthPC
  BY LoginTypeHolds, RestStates DEF ControlType, Local, Reply, AuthPC
<1>2. ASSUME NEW r \in {"501", "FailUnrecognizedCmd", "FailLineTooLong"},
             NEW st \in RestState, Malformed(r, st), BadCommand \/ UNCHANGED bad
      PROVE  ControlType' /\ LoginType'
  BY <1>1, <1>2, MalformedType
<1>3. ASSUME DialogueAborts \/ (Panics /\ UNCHANGED <<bad, peerVars>>)
      PROVE  ControlType' /\ LoginType'
  BY <1>1, <1>3, DialogueAbortsType, AuthPanicType
<1>4. ASSUME NEW u \in Users \cup {NoUser}, NEW v \in {"ok", "no", "err"},
             checkLogin(u, v)
      PROVE  ControlType' /\ LoginType'
  BY <1>1, <1>4, CheckLoginType
<1>5. ASSUME NEW u \in Users \cup {NoUser}, Prompt(u, "loginPass1")
      PROVE  ControlType' /\ LoginType'
  BY <1>1, <1>5, PromptType
<1>6. CASE LoginUser
  <2>1. ControlType' /\ LoginType'
    BY <1>1, <1>2, <1>3, <1>5, <1>6 DEF LoginUser, LoginUserLine, DialoguePanics
  <2> QED BY <1>6, <2>1, AuthStepType DEF LoginUser
<1>7. CASE LoginPassword1
  <2>1. ControlType' /\ LoginType'
    BY <1>1, <1>2, <1>3, <1>4, <1>7 DEF LoginPassword1, LoginPassword1Line, DialoguePanics
  <2> QED BY <1>7, <2>1, AuthStepType DEF LoginPassword1
<1>8. CASE LoginPassword2
  <2>1. ControlType' /\ LoginType'
    BY <1>1, <1>2, <1>3, <1>4, <1>8 DEF LoginPassword2, LoginPassword2Line, DialoguePanics, LoginPassword2Fails
  <2> QED BY <1>8, <2>1, AuthStepType DEF LoginPassword2
<1>9. CASE PlainResponse
  <2>1. ControlType' /\ LoginType'
    BY <1>1, <1>2, <1>3, <1>4, <1>9 DEF PlainResponse, PlainLine,
                                              DialoguePanics
  <2> QED BY <1>9, <2>1, AuthStepType DEF PlainResponse
<1> QED BY <1>6, <1>7, <1>8, <1>9 DEF AuthDialogue

-----------------------------------------------------------------------------
\* The mail transaction.  MailType is what a step of it computes.

MailType == /\ bodyType \in BodyTypes
            /\ bad \in Nat
            /\ envelope \in Envelope
            /\ handed \in SUBSET Handoff
            /\ told \in Told

\* A step of the transaction changes only control and mail.
LEMMA TransactionStepType ==
    ASSUME TypeOK, UNCHANGED transactionFrame, ControlType', MailType'
    PROVE  TypeOK'
<1>1. DataType'
  BY DEF transactionFrame, peerVars, TypeOK, DataType, MailType
<1> QED BY <1>1, TypeSplit

\* The part of the types that the transaction depends on.
LEMMA MailTypeHolds == TypeOK => ControlType /\ MailType
BY DEF TypeOK, ControlType, MailType

\* The argument that ends an extension loop has a reply.
LEMMA StopperReply ==
    ASSUME NEW exts, NEW i \in Stopper(exts)
    PROVE  ExtRefusal(exts[i]) \in Reply
<1>1. ExtRefusal(exts[i]) # ""
  BY DEF Stopper
<1>2. {"FailInvalidAddress", "FailInvalidExtension", "FailTooBig"} \subseteq Reply
  BY DEF Reply
<1> QED BY <1>1, <1>2, ExtRefusalType

\* What MAIL stores of its extensions is a body type and a legal priority.
LEMMA MailExtensionsData ==
    ASSUME MailType, NEW e \in Envelope, NEW exts \in Seq(Extension),
           NEW resolves, MailExtensions(e, exts, resolves)
    PROVE  /\ bodyType' \in BodyTypes
           /\ envelope' \in Envelope
           /\ envelope'.MailTo = e.MailTo
<1>1. bodyType' \in BodyTypes
  <2>1. ASSUME NEW x \in LastOf("BODY", exts)
        PROVE  x.body \in BodyTypes
    <3>1. x \in Extension
      BY LastOfType
    <3> QED BY <3>1 DEF Extension
  <2> QED BY <2>1 DEF MailExtensions, MailType
<1>2. PICK p \in LET last == LastOf("MT-PRIORITY", exts)
                 IN IF last = {} THEN {e.Priority} ELSE {x.num : x \in last} :
         envelope' = DropSender([e EXCEPT !.Priority = p], exts)
  BY DEF MailExtensions
<1>3. p \in -9 .. 9
  <2>1. \A x \in LastOf("MT-PRIORITY", exts) : x.num \in -9 .. 9
    BY PriorityRange
  <2>2. e.Priority \in -9 .. 9
    BY DEF Envelope
  <2> QED BY <2>1, <2>2
<1>4. /\ [e EXCEPT !.Priority = p] \in Envelope
      /\ [e EXCEPT !.Priority = p].MailTo = e.MailTo
  BY <1>3 DEF Envelope
<1> QED BY <1>1, <1>2, <1>4, DropSenderType

\* The extension loop of MAIL, and what follows it, keep the types.
LEMMA MailExtensionsControl ==
    ASSUME ControlType, NEW e, NEW exts \in Seq(Extension), NEW resolves,
           MailExtensions(e, exts, resolves)
    PROVE  ControlType' /\ told' \in Told
<1>1. told' \in Told
  <2>1. told' = NothingTold \/ told' = [NothingTold EXCEPT !.mail = ~broken']
    BY DEF MailExtensions
  <2>2. NothingTold \in Told
    BY NothingToldType
  <2>3. [NothingTold EXCEPT !.mail = ~broken'] \in Told
    BY <2>2 DEF Told
  <2> QED BY <2>1, <2>2, <2>3
<1>2. /\ "Init" \in RestState
      /\ AfterMail("Init") = "GotMail"
      /\ "GotMail" \in RestState
      /\ MailReply("Init") = "SuccessMailCmd"
      /\ {"SuccessMailCmd", "ErrorUnableToResolveHost"} \subseteq Reply
  BY RestStates DEF AfterMail, MailReply, Reply
<1>3. ControlType'
  <2>1. CASE \E i \in Stopper(exts) :
                /\ Out(Append(Notes(exts), ExtRefusal(exts[i])), "Init")
                /\ Handled
    BY <2>1, <1>2, StopperReply, OutNotesControl
  <2>2. CASE PanicsAfter(Notes(exts), "Init")
    BY <2>2, <1>2, NotesType, PanicsAfterControl
  <2>3. CASE Out(<<"ErrorUnableToResolveHost">>, "Init") /\ Handled
    BY <2>3, <1>2, OutControl
  <2>4. CASE Out(<<MailReply("Init")>>, AfterMail("Init")) /\ Handled
    BY <2>4, <1>2, OutControl
  <2> QED BY <2>1, <2>2, <2>3, <2>4 DEF MailExtensions
<1> QED BY <1>1, <1>3

\* MAIL keeps the types.
LEMMA HandleMailType ==
    ASSUME TypeOK, NEW from \in Address \cup {NoAddress}, NEW senderOk,
           NEW exts \in Seq(Extension), NEW resolves,
           handleMail(from, senderOk, exts, resolves)
    PROVE  TypeOK'
<1> DEFINE e == EnvReset(envelope)
           refusal == MailRefusal(e, from, senderOk)
<1>1. /\ ControlType /\ MailType
      /\ e \in Envelope
      /\ exts \in Seq(Extension)
  BY MailTypeHolds, EnvResetType DEF MailType
<1>2. ControlType' /\ MailType'
  <2>1. CASE /\ refusal # "" /\ Out(<<refusal>>, "Init") /\ Handled
             /\ envelope' = e /\ told' = NothingTold /\ UNCHANGED bodyType
    <3>1. refusal \in Reply
      BY <2>1 DEF MailRefusal, Reply
    <3>2. ControlType'
      BY <1>1, <2>1, <3>1, OutControl, RestStates
    <3> QED BY <1>1, <2>1, <3>2, NothingToldType DEF MailType, handleMail
  <2>2. CASE MailExtensions([e EXCEPT !.MailFrom = from], exts, resolves)
    <3>1. [e EXCEPT !.MailFrom = from] \in Envelope
      BY <1>1 DEF Envelope
    <3>2. bodyType' \in BodyTypes /\ envelope' \in Envelope
      BY <1>1, <2>2, <3>1, MailExtensionsData
    <3>3. ControlType' /\ told' \in Told
      BY <1>1, <2>2, MailExtensionsControl
    <3> QED BY <1>1, <3>2, <3>3 DEF MailType, handleMail
  <2> QED BY <2>1, <2>2 DEF handleMail
<1> QED BY <1>2, TransactionStepType DEF handleMail

\* RCPT moves from a resting state to a resting state.
LEMMA AfterRcptType ==
    ASSUME NEW st \in RestState
    PROVE  AfterRcpt(st) \in RestState /\ RcptReply(st) \in Reply
BY DEF AfterRcpt, RcptReply, RestState, SessionState, Reply

\* RCPT keeps the types.
LEMMA HandleRcptType ==
    ASSUME TypeOK, NEW rcpt \in Address \cup {NoAddress},
           NEW args \in Seq(Extension),
           NEW verdict \in {"", "FailMailboxDoesntExist", "FailMailboxFull",
                            "FailAccessDenied"},
           handleRcpt(rcpt, args, verdict)
    PROVE  TypeOK'
<1> DEFINE refusal == RcptRefusal(rcpt, args, verdict)
           exts == RcptExtensions(args)
<1>1. /\ ControlType /\ MailType
      /\ envelope \in Envelope
      /\ state \in RestState
      /\ exts \in Seq(Extension)
  BY MailTypeHolds DEF MailType, ControlType, RcptExtensions
<1>2. ControlType' /\ envelope' \in Envelope /\ told' \in Told
  <2>1. CASE /\ refusal # "" /\ Out(<<refusal>>, state) /\ Handled
             /\ UNCHANGED <<envelope, told>>
    <3>1. refusal \in Reply
      BY <2>1 DEF RcptRefusal, Reply
    <3> QED BY <1>1, <2>1, <3>1, OutControl DEF MailType
  <2>2. CASE /\ PanicsAfter(<<"FailInvalidRecipient">>, state)
             /\ UNCHANGED <<envelope, told>>
    <3>1. <<"FailInvalidRecipient">> \in Seq(Reply)
      BY OneReply DEF Reply
    <3> QED BY <1>1, <2>2, <3>1, PanicsAfterControl DEF MailType
  <2>3. CASE Panics /\ UNCHANGED <<envelope, told>>
    BY <1>1, <2>3, PanicsControl DEF MailType
  <2>4. CASE /\ \E i \in Stopper(exts) :
                   Out(Append(Notes(exts), ExtRefusal(exts[i])), state)
             /\ Handled
             /\ envelope' = DropSender(envelope, exts)
             /\ UNCHANGED told
    <3>1. ControlType'
      BY <1>1, <2>4, StopperReply, OutNotesControl
    <3> QED BY <1>1, <2>4, <3>1, DropSenderType DEF MailType
  <2>5. CASE refusal = "" /\ args # <<>> /\ RcptAccepts(rcpt, exts) /\ Handled
             /\ srv.RecipientChecker
    <3>1. rcpt \in Address
      BY <2>5 DEF RcptRefusal
    <3>2. ControlType'
      BY <1>1, <2>5, AfterRcptType, OutNotesControl DEF RcptAccepts
    <3>3. envelope' \in Envelope
      BY <1>1, <2>5, <3>1, DropSenderType, AddRecipientType DEF RcptAccepts
    <3>4. told' \in Told
      <4>1. told.rcpts \in Seq(Address)
        BY <1>1 DEF MailType, Told
      <4>2. Append(told.rcpts, rcpt) \in Seq(Address)
        BY <3>1, <4>1, AppendProperties
      <4>3. told' = told \/ told' = [told EXCEPT !.rcpts = Append(told.rcpts, rcpt)]
        BY <2>5 DEF RcptAccepts
      <4> QED BY <1>1, <4>2, <4>3 DEF MailType, Told
    <3> QED BY <3>2, <3>3, <3>4
  <2> QED BY <2>1, <2>2, <2>3, <2>4, <2>5 DEF handleRcpt
<1>3. MailType'
  BY <1>1, <1>2 DEF MailType, handleRcpt
<1> QED BY <1>2, <1>3, TransactionStepType DEF handleRcpt

\* DATA keeps the types.
LEMMA HandleDataType ==
    ASSUME TypeOK, handleData
    PROVE  TypeOK'
<1>1. /\ ControlType /\ MailType
      /\ state \in RestState
      /\ {"Aborted", "GettingData"} \subseteq RestState
      /\ {"FailBadSequence", "554", "SuccessDataCmd"} \subseteq Reply
      /\ BeginData(envelope) \in Envelope
  BY MailTypeHolds, RestStates, BeginDataType DEF ControlType, MailType, Reply
<1>2. MailType'
  BY <1>1 DEF handleData, MailType
<1>3. ControlType'
  <2>1. CASE OutThen(<<"FailBadSequence">>, "Aborted") /\ Handled
    BY <1>1, <2>1, OutThenControl
  <2>2. CASE Out(<<"554">>, state) /\ Handled
    BY <1>1, <2>2, OutControl
  <2>3. CASE /\ OutThen(<<"SuccessDataCmd">>, "GettingData")
             /\ pc' = "data" /\ deadline' = "msg" /\ local' = NoLocal
    BY <1>1, <2>3, OutThenType, NoLocalType DEF ControlType, PC, Deadline
  <2> QED BY <2>1, <2>2, <2>3 DEF handleData
<1> QED BY <1>2, <1>3, TransactionStepType DEF handleData

\* A line of message text keeps the types.
LEMMA DataLineType ==
    ASSUME TypeOK, NEW n \in Nat, DataLine(n)
    PROVE  TypeOK'
<1>1. /\ ControlType /\ MailType
      /\ n \in Nat
  BY MailTypeHolds
<1>2. local' \in Local
  <2>1. local.size + n \in Nat /\ local.lines + 1 \in Nat
    BY <1>1 DEF ControlType, Local
  <2> QED BY <1>1, <2>1 DEF DataLine, ControlType, Local
<1>3. ControlType'
  BY <1>1, <1>2, SilentType DEF DataLine, ControlType
<1>4. n + 2 \in Nat
  BY <1>1
<1>5. envelope' \in Envelope
  BY <1>1, <1>4, WriteType DEF DataLine, MailType
<1>6. MailType'
  BY <1>1, <1>5 DEF DataLine, MailType
<1> QED BY <1>3, <1>6, TransactionStepType DEF DataLine

\* Message text that cannot be read or is too big keeps the types.
LEMMA DataEndsType ==
    ASSUME TypeOK, DataReadFails \/ DataTooBig
    PROVE  TypeOK'
<1>1. /\ ControlType /\ MailType
      /\ state \in RestState
      /\ "Aborted" \in RestState
      /\ {"FailReadErrorDataCmd", "FailTooBig"} \subseteq Reply
  BY MailTypeHolds, RestStates DEF ControlType, Reply
<1>2. MailType'
  BY <1>1 DEF DataReadFails, DataTooBig, MailType
<1>3. ControlType'
  BY <1>1, OutThenControl, OutControl DEF DataReadFails, DataTooBig
<1> QED BY <1>2, <1>3, TransactionStepType DEF DataReadFails, DataTooBig

\* The end of the message text, and the delivery, keep the types.
LEMMA DataDoneType ==
    ASSUME TypeOK, NEW dot \in BOOLEAN, NEW queued \in BOOLEAN,
           DataDone(dot, queued)
    PROVE  TypeOK'
<1> DEFINE full == AddHeaders(envelope, ServerHeaders)
<1>1. /\ ControlType /\ MailType
      /\ envelope \in Envelope
      /\ envelope.data \in Nat
      /\ local.size \in Nat
      /\ local.lines \in Nat
      /\ "Init" \in RestState
      /\ {"SuccessMessageQueued", "451"} \subseteq Reply
  BY MailTypeHolds, RestStates DEF ControlType, MailType, Reply, Local, Envelope
<1>2. full \in Envelope
  BY <1>1, AddHeadersType DEF ServerHeaders, AddedHeader
<1>3. ControlType' /\ MailType'
  <2>1. CASE Panics /\ handed' = {} /\ UNCHANGED <<envelope, told>>
    BY <1>1, <2>1, PanicsControl DEF DataDone, MailType
  <2>2. CASE srv.Handler
    <3>1. PICK e \in Closed(full) :
             /\ handed' = {[env |-> e, octets |-> envelope.data, dot |-> dot,
                            size |-> local.size, lines |-> local.lines]}
             /\ envelope' = EnvReset(e)
      BY <2>2 DEF DataDone
    <3>2. e \in Envelope
      BY <1>2, ClosedType
    <3>3. envelope' \in Envelope
      BY <3>1, <3>2, EnvResetType
    <3>4. handed' \in SUBSET Handoff
      BY <1>1, <3>1, <3>2 DEF Handoff
    <3>5. MailType'
      BY <1>1, <2>2, <3>3, <3>4, NothingToldType DEF DataDone, MailType
    <3>6. \/ OutThen(<<"SuccessMessageQueued">>, "Init")
          \/ OutThen(<<"451">>, "Init")
      BY <2>2 DEF DataDone
    <3>7. ControlType'
      BY <1>1, <2>2, <3>6, OutThenControl DEF DataDone
    <3> QED BY <3>5, <3>7
  <2> QED BY <2>1, <2>2 DEF DataDone
<1> QED BY <1>3, TransactionStepType DEF DataDone

\* BDAT keeps the types.
LEMMA HandleBdatType ==
    ASSUME TypeOK, NEW n \in Int, NEW valid, NEW last \in BOOLEAN,
           handleBdat(n, valid, last)
    PROVE  TypeOK'
<1>1. /\ ControlType /\ MailType
      /\ state \in RestState
      /\ {"503", "FailUnrecognizedCmd"} \subseteq Reply
      /\ n \in Int
  BY MailTypeHolds DEF ControlType, Reply
<1>2. MailType'
  BY <1>1 DEF handleBdat, MailType, BadCommand
<1>3. ControlType'
  <2>1. CASE Out(<<"503">>, state) /\ Handled
    BY <1>1, <2>1, OutControl
  <2>2. CASE Out(<<"FailUnrecognizedCmd">>, state) /\ Handled
    BY <1>1, <2>2, OutControl
  <2>3. CASE Panics
    BY <1>1, <2>3, PanicsControl
  <2>4. CASE /\ n >= 0
             /\ pc' = "bdat"
             /\ local' = [NoLocal EXCEPT !.chunk = n, !.last = last \/ n = 0]
             /\ Silent
             /\ UNCHANGED <<state, deadline>>
    <3>1. PICK l \in BOOLEAN : l = (last \/ n = 0)
      OBVIOUS
    <3>2. local' = [NoLocal EXCEPT !.chunk = n, !.last = l] /\ n \in Nat
      BY <1>1, <2>4, <3>1
    <3>3. local' \in Local
      BY <3>2, NoLocalType DEF Local
    <3> QED BY <1>1, <2>4, <3>3, SilentType DEF ControlType, PC
  <2> QED BY <2>1, <2>2, <2>3, <2>4 DEF handleBdat
<1> QED BY <1>2, <1>3, TransactionStepType DEF handleBdat

\* BDAT refused or cut short keeps the types.
LEMMA BdatEndsType ==
    ASSUME TypeOK, handleBdatNoArgs \/ BdatReadFails
    PROVE  TypeOK'
<1>1. /\ ControlType /\ MailType
      /\ state \in RestState
      /\ "Aborted" \in RestState
      /\ {"503", "FailUnrecognizedCmd", "FailReadErrorDataCmd"} \subseteq Reply
  BY MailTypeHolds, RestStates DEF ControlType, Reply
<1>2. MailType'
  BY <1>1 DEF handleBdatNoArgs, BdatReadFails, MailType
<1>3. \/ Out(<<"503">>, state) /\ Handled
      \/ Out(<<"FailUnrecognizedCmd">>, state) /\ Handled
      \/ OutThen(<<"FailReadErrorDataCmd">>, "Aborted") /\ Handled
  BY DEF handleBdatNoArgs, BdatReadFails
<1>4. ControlType'
  BY <1>1, <1>3, OutThenControl, OutControl
<1> QED BY <1>2, <1>4, TransactionStepType DEF handleBdatNoArgs, BdatReadFails

\* A chunk of BDAT keeps the types.
LEMMA BdatChunkType ==
    ASSUME TypeOK, BdatChunk
    PROVE  TypeOK'
<1>1. /\ ControlType /\ MailType
      /\ state \in RestState
      /\ "DataDone" \in RestState
      /\ {"250 BDAT finished", "250 BDAT ok"} \subseteq Reply
      /\ Write(envelope, local.chunk) \in Envelope
  BY MailTypeHolds, RestStates, WriteType DEF ControlType, MailType, Reply, Local
<1>2. envelope' \in Envelope
  BY <1>1, ClosedType DEF BdatChunk
<1>3. MailType'
  BY <1>1, <1>2 DEF BdatChunk, MailType
<1>4. ControlType'
  BY <1>1, OutThenControl, OutControl DEF BdatChunk
<1> QED BY <1>3, <1>4, TransactionStepType DEF BdatChunk

-----------------------------------------------------------------------------
\* The remaining commands, the Serve loop and the client

\* NOOP, HELP, VRFY and EXPN keep the types.
LEMMA RepliesType ==
    ASSUME TypeOK, NEW r \in Reply, Replies(r)
    PROVE  TypeOK'
<1>1. ControlType'
  BY OutControl, TypeSplit DEF Replies, ControlType
<1>2. DataType'
  BY DEF Replies, TypeOK, DataType, peerVars
<1> QED BY <1>1, <1>2, TypeSplit

\* RSET and QUIT keep the types.
LEMMA RsetQuitType ==
    ASSUME TypeOK, handleRset \/ handleQuit
    PROVE  TypeOK'
<1>1. {"SuccessResetCmd", "SuccessQuitCmd"} \subseteq Reply
  BY DEF Reply
<1>2. ControlType'
  BY <1>1, OutControl, OutThenControl, RestStates, TypeSplit
     DEF handleRset, handleQuit
<1>3. DataType'
  BY EnvResetType, NothingToldType
     DEF handleRset, handleQuit, TypeOK, DataType, peerVars
<1> QED BY <1>2, <1>3, TypeSplit

\* The steps of the Serve loop that run no handler keep the types.
LEMMA LoopType ==
    ASSUME TypeOK,
           \/ handleWelcome \/ TooManyBadCommands \/ ReadLineFails
           \/ BareNewline \/ Unrecognized
    PROVE  TypeOK'
<1>1. /\ {"220", "FailMaxUnrecognizedCmd", "FailUnrecognizedCmd"} \subseteq Reply
      /\ ControlType
      /\ state \in RestState
      /\ "Aborted" \in RestState
  BY TypeSplit, RestStates DEF Reply, ControlType
<1>2. DataType'
  BY DEF handleWelcome, TooManyBadCommands, ReadLineFails, BareNewline,
         Unrecognized, loopFrame, TypeOK, DataType, peerVars, BadCommand
<1>3. ControlType'
  <2>1. CASE handleWelcome
    BY <1>1, <2>1, OutOneType DEF handleWelcome, loopFrame, ControlType, PC
  <2>2. CASE TooManyBadCommands
    BY <1>1, <2>2, OutThenType
       DEF TooManyBadCommands, loopFrame, ControlType, PC, Terminal
  <2>3. CASE ReadLineFails
    BY <1>1, <2>3, SilentType
       DEF ReadLineFails, loopFrame, ControlType, PC, Terminal
  <2>4. CASE BareNewline
    BY <1>1, <2>4, PanicsControl DEF BareNewline
  <2>5. CASE Unrecognized
    BY <1>1, <2>5, OutOneType DEF Unrecognized, loopFrame, ControlType
  <2> QED BY <2>1, <2>2, <2>3, <2>4, <2>5
<1> QED BY <1>2, <1>3, TypeSplit

\* The client falls silent or leaves.
LEMMA ClientType ==
    ASSUME TypeOK, Client
    PROVE  TypeOK'
BY SilentType DEF Client, TypeOK, peerVars

\* The steps of a session for all inputs there are, not only those Next
\* enumerates: greetings with any number of arguments, any mechanism, all lists
\* of extensions, lines of every length and chunks of every size.
AnyGreeting ==
    \E n : \E refused \in BOOLEAN :
       handleEhlo(n, refused) \/ handleHelo(n, refused)

AnyAuthentication == (\E mech, n : handleAuth(mech, n)) \/ AuthDialogue

AnyTransaction ==
    \/ \E from \in Address \cup {NoAddress}, senderOk \in BOOLEAN,
          exts \in Seq(Extension), resolves \in Resolutions :
             handleMail(from, senderOk, exts, resolves)
    \/ \E rcpt \in Address \cup {NoAddress}, args \in Seq(Extension),
          verdict \in {"", "FailMailboxDoesntExist", "FailMailboxFull",
                       "FailAccessDenied"} :
             handleRcpt(rcpt, args, verdict)
    \/ handleData
    \/ \E n \in Nat : DataLine(n)
    \/ DataReadFails
    \/ DataTooBig
    \/ \E dot \in BOOLEAN, queued \in BOOLEAN : DataDone(dot, queued)
    \/ \E n \in Int, valid \in BOOLEAN, last \in BOOLEAN :
          handleBdat(n, valid, last)
    \/ handleBdatNoArgs
    \/ BdatChunk
    \/ BdatReadFails

AnyServe ==
    \/ handleWelcome \/ TooManyBadCommands \/ ReadLineFails \/ BareNewline
    \/ Unrecognized
    \/ AnyGreeting \/ handleStartTLS \/ Handshake \/ AnyAuthentication
    \/ AnyTransaction
    \/ handleNoop \/ handleHelp \/ handleVrfy \/ handleExpn \/ handleRset
    \/ handleQuit

AnyNext == AnyServe \/ Client \/ Ended

\* The inputs that Next enumerates are some of these.
LEMMA NextIsAnyNext == [Next]_vars => [AnyNext]_vars
<1>1. Greeting => AnyGreeting
  BY DEF Greeting, AnyGreeting
<1>2. Authentication => AnyAuthentication
  BY DEF Authentication, AnyAuthentication
<1>3. MailTransaction => AnyTransaction
  <2>1. /\ MailExtLists \subseteq Seq(Extension)
        /\ RcptArgLists \subseteq Seq(Extension)
        /\ LineLengths \subseteq Nat /\ ChunkSizes \subseteq Int
    BY InputsAssumption
  <2> QED BY <2>1, Zenon DEF MailTransaction, AnyTransaction
<1> QED BY <1>1, <1>2, <1>3 DEF Next, AnyNext, Serve, AnyServe

\* A new session is well typed.
LEMMA InitType == Init => TypeOK
<1> SUFFICES ASSUME Init PROVE TypeOK
  OBVIOUS
<1>1. DataType
  BY NewEnvelopeType, NothingToldType, ConfigsAssumption, BodyTypesAssumption
     DEF Init, DataType, ServerConfig
<1>2. ControlType
  BY NoLocalType, NoReply, RestStates DEF Init, ControlType, PC, Deadline
<1> QED BY <1>1, <1>2, TypeSplit

\* Every step keeps the types.
LEMMA NextType == TypeOK /\ [AnyNext]_vars => TypeOK'
<1> SUFFICES ASSUME TypeOK, [AnyNext]_vars PROVE TypeOK'
  OBVIOUS
<1>1. CASE AnyGreeting
  BY <1>1, HelloType DEF AnyGreeting, handleEhlo, handleHelo
<1>2. CASE handleStartTLS \/ Handshake
  BY <1>2, StartTLSType, HandshakeType
<1>3. CASE AnyAuthentication
  BY <1>3, AuthType, AuthDialogueType DEF AnyAuthentication
<1>4. CASE AnyTransaction
  <2>1. CASE \E from \in Address \cup {NoAddress}, senderOk \in BOOLEAN,
               exts \in Seq(Extension), resolves \in Resolutions :
                  handleMail(from, senderOk, exts, resolves)
    BY <2>1, HandleMailType
  <2>2. CASE \E rcpt \in Address \cup {NoAddress}, args \in Seq(Extension),
               verdict \in {"", "FailMailboxDoesntExist", "FailMailboxFull",
                            "FailAccessDenied"} :
                  handleRcpt(rcpt, args, verdict)
    BY <2>2, HandleRcptType
  <2>3. CASE handleData
    BY <2>3, HandleDataType
  <2>4. CASE \E n \in Nat : DataLine(n)
    BY <2>4, DataLineType
  <2>5. CASE DataReadFails \/ DataTooBig
    BY <2>5, DataEndsType
  <2>6. CASE \E dot \in BOOLEAN, queued \in BOOLEAN : DataDone(dot, queued)
    BY <2>6, DataDoneType
  <2>7. CASE \E n \in Int, valid \in BOOLEAN, last \in BOOLEAN :
               handleBdat(n, valid, last)
    BY <2>7, HandleBdatType
  <2>8. CASE handleBdatNoArgs \/ BdatReadFails
    BY <2>8, BdatEndsType
  <2>9. CASE BdatChunk
    BY <2>9, BdatChunkType
  <2> QED BY <1>4, <2>1, <2>2, <2>3, <2>4, <2>5, <2>6, <2>7, <2>8, <2>9
          DEF AnyTransaction
<1>5. CASE handleNoop \/ handleHelp \/ handleVrfy \/ handleExpn
  <2>1. {"SuccessNoopCmd", "SuccessHelpCmd", "252 VRFY", "252"} \subseteq Reply
    BY DEF Reply
  <2> QED BY <1>5, <2>1, RepliesType
          DEF handleNoop, handleHelp, handleVrfy, handleExpn
<1>6. CASE handleRset \/ handleQuit
  BY <1>6, RsetQuitType
<1>7. CASE \/ handleWelcome \/ TooManyBadCommands \/ ReadLineFails
           \/ BareNewline \/ Unrecognized
  BY <1>7, LoopType
<1>8. CASE Client
  BY <1>8, ClientType
<1>9. CASE UNCHANGED vars
  BY <1>9 DEF vars, TypeOK
<1> QED BY <1>1, <1>2, <1>3, <1>4, <1>5, <1>6, <1>7, <1>8, <1>9
        DEF AnyNext, AnyServe, Ended

\* Every state of every session is well typed; in particular no session ever
\* rests in WaitingForQuit, so the branch of Serve for that state is dead.
THEOREM TypeCorrect == Spec => []TypeOK
<1>1. Init => TypeOK
  BY InitType
<1>2. TypeOK /\ [Next]_vars => TypeOK'
  BY NextType, NextIsAnyNext
<1> QED BY <1>1, <1>2, PTL DEF Spec

=============================================================================
