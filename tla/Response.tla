------------------------------ MODULE Response ------------------------------
(***************************************************************************)
(* The replies by the code their text begins with (response.go), which is   *)
(* all that a client goes by.  Only the replies a session sends are here.   *)
(***************************************************************************)
EXTENDS Integers

\* A Response: BasicCode (0 if not given), Class and EnhancedCode
Resp(basic, class, detail) ==
    [BasicCode |-> basic, Class |-> class, EnhancedCode |-> detail]

\* The part of codeMap that is looked up: all failures have a code of their own.
codeMap ==
    [OtherAddressStatus |-> 250, DestinationMailboxAddressValid |-> 250,
     OtherOrUndefinedMailSystemStatus |-> 250,
     OtherOrUndefinedProtocolStatus |-> 250,
     ConversionWithLossPerformed |-> 250, SecurityStatus |-> 220]

\* A success that codeMap does not know is a plain 200.
getBasicStatusCode(r) ==
    IF r.Class = 2 /\ r.EnhancedCode \in DOMAIN codeMap
    THEN codeMap[r.EnhancedCode]
    ELSE r.Class * 100

Invalid(basic) == Resp(basic, 5, "InvalidCommand")
InvalidArguments(basic) == Resp(basic, 5, "InvalidCommandArguments")

Codes ==
    [FailLineTooLong             |-> Invalid(554),
     FailMailboxDoesntExist      |-> Invalid(550),
     FailNestedMailCmd           |-> Invalid(503),
     FailBadSequence             |-> Invalid(503),
     FailUnrecognizedCmd         |-> Invalid(554),
     FailMaxUnrecognizedCmd      |-> Invalid(554),
     FailInvalidAddress          |-> InvalidArguments(501),
     FailInvalidRecipient        |-> InvalidArguments(501),
     FailInvalidExtension        |-> InvalidArguments(501),
     FailMissingArgument         |-> InvalidArguments(550),
     ErrorCmdParamNotImplemented |-> InvalidArguments(504),
     FailTooBig      |-> Resp(552, 4, "MessageLengthExceedsAdministrativeLimit"),
     FailMailboxFull             |-> Resp(522, 5, "MailboxFull"),
     FailAccessDenied            |-> Resp(554, 5, "DeliveryNotAuthorized"),
     FailCmdNotSupported         |-> Resp(502, 5, ""),
     FailReadErrorDataCmd  |-> Resp(451, 4, "OtherOrUndefinedMailSystemStatus"),
     FailAuthentication    |-> Resp(535, 5, "OtherOrUndefinedProtocolStatus"),
     FailEncryptionNeeded        |-> Resp(523, 5, "EncryptionNeeded"),
     FailUndefinedSecurityStatus |-> Resp(550, 5, "SecurityStatus"),
     ErrorUnableToResolveHost    |-> Resp(451, 4, ""),
     ErrorTooManyRecipients      |-> Resp(452, 4, "TooManyRecipients"),
     ErrorAuth             |-> Resp(454, 4, "OtherOrUndefinedMailSystemStatus"),
     SuccessMailCmd              |-> Resp(0, 2, "OtherAddressStatus"),
     SuccessResetCmd             |-> Resp(0, 2, "OtherAddressStatus"),
     SuccessRcptCmd         |-> Resp(0, 2, "DestinationMailboxAddressValid"),
     SuccessNoopCmd              |-> Resp(0, 2, "OtherStatus"),
     SuccessQuitCmd              |-> Resp(221, 2, "OtherStatus"),
     SuccessAuthentication       |-> Resp(235, 2, "SecurityStatus"),
     SuccessStartTLSCmd          |-> Resp(220, 2, "OtherStatus"),
     SuccessMessageQueued        |-> Resp(250, 2, "OtherStatus")]

\* The replies that are written out
Written(reply) ==
    CASE reply = "SuccessHelpCmd" -> 214
      [] reply = "220" -> 220
      [] reply \in {"250-EHLO", "250 HELO", "250 BDAT ok",
                    "250 BDAT finished"} -> 250
      [] reply \in {"252", "252 VRFY"} -> 252
      [] reply = "334" -> 334
      [] reply = "SuccessDataCmd" -> 354
      [] reply = "451" -> 451
      [] reply = "501" -> 501
      [] reply = "503" -> 503
      [] reply = "550" -> 550
      [] reply = "554" -> 554
      [] reply = "555" -> 555

\* Response.String
CodeOf(reply) ==
    IF reply \notin DOMAIN Codes THEN Written(reply)
    ELSE IF Codes[reply].BasicCode # 0 THEN Codes[reply].BasicCode
    ELSE getBasicStatusCode(Codes[reply])

\* A completion, and a prompt for more input
Positive(reply) == CodeOf(reply) \in 200 .. 299
Prompting(reply) == CodeOf(reply) \in 300 .. 399

=============================================================================
