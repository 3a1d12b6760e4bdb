---------------------------- MODULE SessionClaims ----------------------------
(***************************************************************************)
(* What comments of the repository say about a session, where the code does *)
(* something else.  Each claim is refuted by a run of its own.              *)
(***************************************************************************)
EXTENDS Session

\* server.go: "New e-mails are handed off to this function."  A message with
\* sender and recipients whose last chunk is answered 250 has been given to
\* Handler (handleBdat).
BdatHandedOff ==
    /\ replies = <<"250 BDAT finished">>
    /\ told.mail /\ told.rcpts # <<>>
    => handed # {}

\* limits.go: MaxRcptCount is the "maximum number of recipients of message", and
\* envelope.go: AddRecipient "returns error if maximum number of recipients is
\* reached" (handleRcpt, AddRecipient).
RecipientsWithinLimit == Len(envelope.MailTo) <= MaxRcptCount

\* session.go: RSET resets the "session to beginning and empties the envelope";
\* nothing a transaction set outlives it (handleRset).
RsetRestoresInitial ==
    replies = <<"SuccessResetCmd">> => /\ envelope = NewEnvelope
                                       /\ bodyType = ""

\* limits.go: the limits set "Two minutes for command input": a client that
\* says nothing is disconnected (Serve).
SilentClientTimesOut == client = "silent" ~> pc \in Terminal

=============================================================================
