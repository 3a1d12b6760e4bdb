------------------------------ MODULE Envelope ------------------------------
(***************************************************************************)
(* The message envelope (envelope.go): sender, recipients, the octets of    *)
(* the message and what Close makes of them.  Pure operators on a record;   *)
(* the session owns the only envelope and applies them.                     *)
(*                                                                         *)
(* The message body is abstracted to its length: data is the number of      *)
(* octets that Bytes and Reader would still return.  headers holds the      *)
(* names of the headers the server adds, and Mail says whether the final    *)
(* message was parsed and which of those headers reached it.                *)
(***************************************************************************)
EXTENDS Integers, Sequences

CONSTANTS
    Address,    \* parsed mail addresses
    NoAddress,  \* the nil *mail.Address
    BufSize     \* octets the bufio.Reader in Close takes from data at once

ASSUME AddressAssumption == NoAddress \notin Address

ASSUME BufSizeAssumption == BufSize \in Nat \ {0}

AddedHeader == {"Received", "Message-ID"}

\* e.Mail = nil: never closed, or the message could not be parsed
NoMail == [parsed |-> FALSE, added |-> {}]

Envelope == [MailFrom : Address \cup {NoAddress},
             MailTo   : Seq(Address),
             Priority : -9 .. 9,
             data     : Nat,
             headers  : SUBSET AddedHeader,
             Mail     : [parsed : BOOLEAN, added : SUBSET AddedHeader]]

NewEnvelope == [MailFrom |-> NoAddress, MailTo |-> <<>>, Priority |-> 0,
                data |-> 0, headers |-> {}, Mail |-> NoMail]

IsSet(e) == e.MailFrom # NoAddress

\* Mutant: the recipients survive a reset
EnvResetKeepsRecipients(e) ==
    [e EXCEPT !.MailFrom = NoAddress, !.data = 0, !.headers = {}]

\* Envelope.Reset: Priority and Mail keep their values
EnvReset(e) == [e EXCEPT !.MailTo = <<>>, !.MailFrom = NoAddress,
                         !.data = 0, !.headers = {}]

\* Mutant: assigned where it should be appended
AddRecipientAssigns(e, rcpt) == [e EXCEPT !.MailTo = <<rcpt>>]

AddRecipient(e, rcpt) == [e EXCEPT !.MailTo = Append(@, rcpt)]

\* BeginData refuses an envelope without recipients, else takes a new buffer
CanBeginData(e) == e.MailTo # <<>>

\* Mutant: the old buffer is kept
BeginDataKeepsBuffer(e) == e

BeginData(e) == [e EXCEPT !.data = 0]

\* Write and WriteString append n octets
Write(e, n) == [e EXCEPT !.data = @ + n]

AddHeaders(e, hs) == [e EXCEPT !.headers = @ \cup hs]

\* What may be left of d octets once a bufio.Reader has read the header
\* section out of them: its first fill takes BufSize octets, or all of them.
Leftover(d) == {n \in 0 .. d : n = 0 \/ n + BufSize <= d}

\* Close parses the message out of data, consuming what the reader buffered:
\* n octets are left unread, and ok says whether the header section parsed.
Close(e, n, ok) ==
    [e EXCEPT !.data = n,
              !.Mail = IF ok THEN [parsed |-> TRUE, added |-> e.headers]
                             ELSE NoMail]

\* What Close may make of e.  An empty message has no header section to parse;
\* of any other one the model does not tell whether it parses.
Closed(e) == {Close(e, n, ok) : n \in Leftover(e.data),
                                ok \in {b \in BOOLEAN : b => e.data > 0}}

=============================================================================
