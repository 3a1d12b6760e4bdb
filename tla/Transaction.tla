----------------------------- MODULE Transaction -----------------------------
(***************************************************************************)
(* The mail transaction: handleMail, handleRcpt, handleData and handleBdat  *)
(* of session.go.  Addresses are atoms; what the callbacks of the embedding *)
(* program and the DNS lookup answer is a parameter of the action.          *)
(***************************************************************************)
EXTENDS SessionState, FiniteSets

CONSTANTS
    MailExtLists,   \* lists of arguments that may follow MAIL FROM:<..>
    RcptArgLists,   \* argument lists of RCPT, the address being the first
    LineLengths,    \* trimmed lengths of the lines of a message
    ChunkSizes,     \* sizes a BDAT command may announce
    MaxData         \* bound on the octets an envelope collects

\* An argument "name=value" by what the handlers do with it: num is its value
\* read as a number, if valid, and body its value as the argument of BODY.
\* "MALFORMED" has no "=" or several, "IGNORED" is ALT-ADDRESS or AUTH (MAIL)
\* or RRVS (RCPT), "UNKNOWN" any name the handler has no case for.
Extension == [name  : {"MALFORMED", "SIZE", "BODY", "MT-PRIORITY", "IGNORED",
                       "UNKNOWN"},
              num   : Int,
              valid : BOOLEAN,
              body  : BodyTypes]

\* The first argument of RCPT is "TO:<address>": with one "=" in it, it looks
\* like an extension without a case.
ASSUME InputsAssumption ==
    /\ MailExtLists \subseteq Seq(Extension)
    /\ RcptArgLists \subseteq Seq(Extension)
    /\ \A args \in RcptArgLists :
          \A i \in 1 .. Len(args) :
             args[i].name \in {"MALFORMED", "UNKNOWN"}
                              \cup (IF i = 1 THEN {} ELSE {"IGNORED"})
    /\ LineLengths \subseteq Nat
    /\ ChunkSizes \subseteq Int

\* What no step of a transaction changes
transactionFrame == <<srv, client, helloSeen, tls, peerVars>>

-----------------------------------------------------------------------------
\* The extension loops of MAIL and RCPT

\* Mutant: the range of MT-PRIORITY is not checked
ExtRefusalAnyPriority(x) ==
    IF x.name = "MALFORMED" THEN "FailInvalidAddress"
    ELSE IF x.name \in {"SIZE", "MT-PRIORITY"} /\ ~x.valid
         THEN "FailInvalidExtension"
    ELSE IF x.name = "SIZE" /\ x.num > DefaultMsgSize THEN "FailTooBig"
    ELSE ""

\* The reply with which an argument ends the loop, "" if the loop goes on
ExtRefusal(x) ==
    IF x.name = "MALFORMED" THEN "FailInvalidAddress"
    ELSE IF x.name \in {"SIZE", "MT-PRIORITY"} /\ ~x.valid
         THEN "FailInvalidExtension"
    ELSE IF x.name = "SIZE" /\ x.num > DefaultMsgSize THEN "FailTooBig"
    ELSE IF x.name = "MT-PRIORITY" /\ x.num \notin -9 .. 9
         THEN "FailInvalidExtension"
    ELSE ""

\* The arguments the loop gets past, and the one that ends it, if any
Passed(exts) == {i \in 1 .. Len(exts) :
                    \A j \in 1 .. i : ExtRefusal(exts[j]) = ""}

Stopper(exts) == {i \in 1 .. Len(exts) :
                    /\ ExtRefusal(exts[i]) # ""
                    /\ \A j \in 1 .. i - 1 : ExtRefusal(exts[j]) = ""}

Unknown(exts) == {i \in Passed(exts) : exts[i].name = "UNKNOWN"}

\* The last argument of that name the loop got past, if any
LastOf(name, exts) ==
    {exts[i] : i \in {k \in Passed(exts) :
        /\ exts[k].name = name
        /\ \A j \in Passed(exts) : exts[j].name = name => j <= k}}

\* One 555 for every argument without a case
Notes(exts) == [i \in 1 .. Cardinality(Unknown(exts)) |-> "555"]

\* An argument without a case also takes the sender out of the envelope.
DropSender(e, exts) ==
    IF Unknown(exts) = {} THEN e ELSE [e EXCEPT !.MailFrom = NoAddress]

-----------------------------------------------------------------------------
\* What DNS says of the sender's host (fqn in address.go).  A host without MX
\* record is looked up by name; any other error of the MX lookup lets it pass.
fqn(mx, host) == mx # "no such host" \/ host = "found"

Resolutions == {fqn(mx, host) : mx   \in {"found", "no such host", "error"},
                                host \in {"found", "error"}}

-----------------------------------------------------------------------------
\* MAIL resets the session first, refused or not.  from is the address in its
\* argument, NoAddress if there is none to parse.

\* Mutant: MAIL is accepted in the clear where TLS is mandatory
MailRefusalInClear(e, from, senderOk) ==
    IF AuthRequired /\ ~authenticated THEN "FailAccessDenied"
    ELSE IF from = NoAddress THEN "FailInvalidAddress"
    ELSE IF ~senderOk THEN "FailAccessDenied"
    ELSE ""

MailRefusal(e, from, senderOk) ==
    IF ~tls /\ srv.TLSOnly THEN "FailEncryptionNeeded"
    ELSE IF AuthRequired /\ ~authenticated THEN "FailAccessDenied"
    ELSE IF IsSet(e) THEN "FailNestedMailCmd"
    ELSE IF from = NoAddress THEN "FailInvalidAddress"
    ELSE IF ~senderOk THEN "FailAccessDenied"
    ELSE ""

AfterMail(st) == CASE st = "GotRcpt" -> "ReadyForData"
                   [] st = "Init"    -> "GotMail"
                   [] OTHER          -> "Aborted"

MailReply(st) ==
    IF AfterMail(st) = "Aborted" THEN "FailBadSequence" ELSE "SuccessMailCmd"

\* The loop over the extensions, in an envelope whose sender is set; a BODY
\* or a priority it got past stays in force when a later argument is refused.
\* A sender taken out by the loop makes IsFQN panic.
MailExtensions(e, exts, resolves) ==
    /\ bodyType' \in LET last == LastOf("BODY", exts)
                     IN IF last = {} THEN {bodyType} ELSE {x.body : x \in last}
    /\ \E p \in LET last == LastOf("MT-PRIORITY", exts)
                IN IF last = {} THEN {e.Priority} ELSE {x.num : x \in last} :
          envelope' = DropSender([e EXCEPT !.Priority = p], exts)
    /\ \/ \E i \in Stopper(exts) :
             /\ Out(Append(Notes(exts), ExtRefusal(exts[i])), "Init")
             /\ Handled
             /\ told' = NothingTold
       \/ /\ Stopper(exts) = {} /\ Unknown(exts) # {}
          /\ PanicsAfter(Notes(exts), "Init")
          /\ told' = NothingTold
       \/ /\ Stopper(exts) = {} /\ Unknown(exts) = {} /\ ~resolves
          /\ Out(<<"ErrorUnableToResolveHost">>, "Init")
          /\ Handled
          /\ told' = NothingTold
       \/ /\ Stopper(exts) = {} /\ Unknown(exts) = {} /\ resolves
          /\ Out(<<MailReply("Init")>>, AfterMail("Init"))
          /\ Handled
          /\ told' = [NothingTold EXCEPT !.mail = ~broken']

handleMail(from, senderOk, exts, resolves) ==
    /\ Command
    /\ handed' = {}
    /\ LET e == EnvReset(envelope)
           refusal == MailRefusal(e, from, senderOk)
       IN \/ /\ refusal # ""
             /\ Out(<<refusal>>, "Init")
             /\ Handled
             /\ envelope' = e
             /\ told' = NothingTold
             /\ UNCHANGED bodyType
          \/ /\ refusal = ""
             /\ MailExtensions([e EXCEPT !.MailFrom = from], exts, resolves)
    /\ UNCHANGED <<transactionFrame, bad>>

-----------------------------------------------------------------------------
\* RCPT.  rcpt is the address in its first argument, NoAddress if it does not
\* parse; verdict is the reply the RecipientChecker's error is turned into.

\* Mutant: RCPT is accepted before a greeting
RcptRefusalNoHello(rcpt, args, verdict) ==
    IF AuthRequired /\ ~authenticated THEN "FailAccessDenied"
    ELSE IF Len(envelope.MailTo) > MaxRcptCount THEN "ErrorTooManyRecipients"
    ELSE IF args = <<>> THEN ""
    ELSE IF rcpt = NoAddress THEN "FailInvalidAddress"
    ELSE IF srv.RecipientChecker THEN verdict
    ELSE ""

RcptRefusal(rcpt, args, verdict) ==
    IF AuthRequired /\ ~authenticated THEN "FailAccessDenied"
    ELSE IF ~helloSeen THEN "FailBadSequence"
    ELSE IF Len(envelope.MailTo) > MaxRcptCount THEN "ErrorTooManyRecipients"
    ELSE IF args = <<>> THEN ""
    ELSE IF rcpt = NoAddress THEN "FailInvalidAddress"
    ELSE IF srv.RecipientChecker THEN verdict
    ELSE ""

\* The arguments its extension loop ranges over: all of them
RcptExtensions(args) == args

\* Mutant: a recipient before the sender is enough for DATA
AfterRcptAnyOrder(st) == CASE st \in {"GotMail", "Init"} -> "ReadyForData"
                           [] st \in {"GotRcpt", "ReadyForData"} -> st
                           [] OTHER -> "Aborted"

AfterRcpt(st) == CASE st = "GotMail" -> "ReadyForData"
                   [] st = "Init"    -> "GotRcpt"
                   [] st \in {"GotRcpt", "ReadyForData"} -> st
                   [] OTHER          -> "Aborted"

RcptReply(st) ==
    IF AfterRcpt(st) = "Aborted" THEN "FailBadSequence" ELSE "SuccessRcptCmd"

\* The recipient is added before the state is looked at.
RcptAccepts(rcpt, exts) ==
    /\ envelope' = AddRecipient(DropSender(envelope, exts), rcpt)
    /\ Out(Append(Notes(exts), RcptReply(state)), AfterRcpt(state))
    /\ told' = IF broken' \/ RcptReply(state) # "SuccessRcptCmd" THEN told
               ELSE [told EXCEPT !.rcpts = Append(@, rcpt)]

handleRcpt(rcpt, args, verdict) ==
    /\ Command
    /\ handed' = {}
    /\ LET refusal == RcptRefusal(rcpt, args, verdict)
           exts == RcptExtensions(args)
       IN \/ /\ refusal # ""
             /\ Out(<<refusal>>, state)
             /\ Handled
             /\ UNCHANGED <<envelope, told>>
          \/ /\ refusal = "" /\ args = <<>>
             /\ PanicsAfter(<<"FailInvalidRecipient">>, state)
             /\ UNCHANGED <<envelope, told>>
          \/ /\ refusal = "" /\ args # <<>> /\ ~srv.RecipientChecker
             /\ Panics
             /\ UNCHANGED <<envelope, told>>
          \/ /\ refusal = "" /\ args # <<>> /\ srv.RecipientChecker
             /\ \E i \in Stopper(exts) :
                   Out(Append(Notes(exts), ExtRefusal(exts[i])), state)
             /\ Handled
             /\ envelope' = DropSender(envelope, exts)
             /\ UNCHANGED told
          \/ /\ refusal = "" /\ args # <<>> /\ srv.RecipientChecker
             /\ Stopper(exts) = {}
             /\ RcptAccepts(rcpt, exts)
             /\ Handled
    /\ UNCHANGED <<transactionFrame, bodyType, bad>>

-----------------------------------------------------------------------------
\* DATA.  The text of the message is read line by line; every line counts
\* with its trimmed length and is stored with a CR LF, which does not count.

\* A body declared BINARYMIME can only be sent with BDAT.
BodyAllowsData == bodyType # "BINARYMIME"

handleData ==
    /\ Command
    /\ handed' = {}
    /\ \/ /\ ~BodyAllowsData
          /\ OutThen(<<"FailBadSequence">>, "Aborted")
          /\ Handled
          /\ UNCHANGED envelope
       \/ /\ BodyAllowsData /\ ~CanBeginData(envelope)
          /\ Out(<<"554">>, state)
          /\ Handled
          /\ UNCHANGED envelope
       \/ /\ BodyAllowsData /\ CanBeginData(envelope)
          /\ state # "ReadyForData"
          /\ envelope' = BeginData(envelope)
          /\ OutThen(<<"FailBadSequence">>, "Aborted")
          /\ Handled
       \/ /\ BodyAllowsData /\ CanBeginData(envelope)
          /\ state = "ReadyForData"
          /\ envelope' = BeginData(envelope)
          /\ OutThen(<<"SuccessDataCmd">>, "GettingData")
          /\ pc' = "data"
          /\ deadline' = "msg"
          /\ local' = NoLocal
    /\ UNCHANGED <<transactionFrame, bodyType, bad, told>>

\* The condition of the reading loop, and the check after it
MoreText == local.size < MsgSize

\* Mutant: off by one
TooBigByOne == local.size > MsgSize + 1

TooBig == local.size > MsgSize

DataLine(n) ==
    /\ pc = "data" /\ MoreText /\ Receives
    /\ envelope.data + n + 2 <= MaxData
    /\ envelope' = Write(envelope, n + 2)
    /\ local' = [local EXCEPT !.size = @ + n, !.lines = @ + 1]
    /\ Silent
    /\ handed' = {}
    /\ UNCHANGED <<transactionFrame, pc, state, bodyType, bad, deadline, told>>

DataReadFails ==
    /\ pc = "data" /\ MoreText /\ ReadError
    /\ OutThen(<<"FailReadErrorDataCmd">>, "Aborted")
    /\ Handled
    /\ handed' = {}
    /\ UNCHANGED <<transactionFrame, bodyType, bad, envelope, told>>

\* Past the limit the handler returns with the state, and the rest of the
\* message, as they are.
DataTooBig ==
    /\ pc = "data" /\ TooBig
    /\ Out(<<"FailTooBig">>, state)
    /\ Handled
    /\ handed' = {}
    /\ UNCHANGED <<transactionFrame, bodyType, bad, envelope, told>>

ServerHeaders ==
    {"Received"} \cup (IF authenticated THEN {"Message-ID"} ELSE {})

\* The end of the text, by a line with a single dot or by reaching the limit:
\* close the envelope, give it to Handler and reset the session, whatever
\* became of the reply.  queued says whether Handler returned no error.
DataDone(dot, queued) ==
    /\ pc = "data"
    /\ IF dot THEN MoreText /\ Receives ELSE ~MoreText /\ ~TooBig
    /\ \/ ~srv.Handler /\ Panics /\ handed' = {} /\ UNCHANGED <<envelope, told>>
       \/ /\ srv.Handler
          /\ \E e \in Closed(AddHeaders(envelope, ServerHeaders)) :
                /\ handed' = {[env |-> e, octets |-> envelope.data, dot |-> dot,
                               size |-> local.size, lines |-> local.lines]}
                /\ envelope' = EnvReset(e)
          /\ OutThen(IF queued THEN <<"SuccessMessageQueued">> ELSE <<"451">>,
                     "Init")
          /\ Handled
          /\ told' = NothingTold
    /\ UNCHANGED <<transactionFrame, bodyType, bad>>

-----------------------------------------------------------------------------
\* BDAT.  n is the chunk size its first argument announces, valid says whether
\* it is a number, last whether LAST follows.  A negative size panics.

handleBdat(n, valid, last) ==
    /\ Command
    /\ handed' = {}
    /\ \/ /\ state = "DataDone"
          /\ Out(<<"503">>, state)
          /\ Handled
          /\ UNCHANGED bad
       \/ /\ state # "DataDone" /\ ~valid
          /\ Out(<<"FailUnrecognizedCmd">>, state)
          /\ Handled
          /\ BadCommand
       \/ /\ state # "DataDone" /\ valid /\ n < 0
          /\ Panics
          /\ UNCHANGED bad
       \/ /\ state # "DataDone" /\ valid /\ n >= 0
          /\ envelope.data + n <= MaxData
          /\ pc' = "bdat"
          /\ local' = [NoLocal EXCEPT !.chunk = n, !.last = last \/ n = 0]
          /\ Silent
          /\ UNCHANGED <<state, deadline, bad>>
    /\ UNCHANGED <<transactionFrame, bodyType, envelope, told>>

\* BDAT without arguments: the same reply, but not counted as a bad command
handleBdatNoArgs ==
    /\ Command
    /\ Out(IF state = "DataDone" THEN <<"503">> ELSE <<"FailUnrecognizedCmd">>,
           state)
    /\ Handled
    /\ handed' = {}
    /\ UNCHANGED <<transactionFrame, bodyType, bad, envelope, told>>

\* One Read got the whole chunk; a chunk of no octets needs no input.
BdatChunk ==
    /\ pc = "bdat"
    /\ local.chunk = 0 \/ Receives
    /\ \/ /\ local.last
          /\ envelope' \in Closed(Write(envelope, local.chunk))
          /\ OutThen(<<"250 BDAT finished">>, "DataDone")
       \/ /\ ~local.last
          /\ envelope' = Write(envelope, local.chunk)
          /\ Out(<<"250 BDAT ok">>, state)
    /\ Handled
    /\ handed' = {}
    /\ UNCHANGED <<transactionFrame, bodyType, bad, told>>

\* That Read failed, or returned before the whole chunk had arrived.
BdatReadFails ==
    /\ pc = "bdat"
    /\ local.chunk > 0
    /\ ReadError \/ Receives
    /\ OutThen(<<"FailReadErrorDataCmd">>, "Aborted")
    /\ Handled
    /\ handed' = {}
    /\ UNCHANGED <<transactionFrame, bodyType, bad, envelope, told>>

=============================================================================
