# A TLA+ model of gosmtp

gosmtp is an SMTP server library. An embedding program sets callbacks on a
`Server` and starts it; the server runs one goroutine per connection, which
reads commands, answers them, collects a message in an envelope and gives the
envelope to the program's `Handler`. This directory models such a session, the
connection with its client and the server around it in TLA+, checks them with
TLC on small instances, and proves with TLAPS, for every configuration, limit
and input, the safety properties of a session, that it implements an abstract
mail service, alone and in the dialogue with its client, that client and session
read the stream between them alike, and the invariants of the server, of the
command table and of header folding.

## The system

| part | state | operations | interacts with |
|---|---|---|---|
| session loop (`session.go`) | `state`, `badCommandsCount`, `helloSeen`, `tls`, the buffered connection and its deadlines | `Serve`, `ReadLine`, `Out`, one handler per verb | the client by lines and replies; the envelope, the limits and the callbacks by calls |
| authentication (`auth.go`, `handleAuth`) | `peer.Username`, `peer.Authenticated`, the user name of a dialogue in progress | `AUTH LOGIN`, `AUTH PLAIN`, their follow-up lines | reads the connection in the middle of a handler; `Authenticator` |
| mail transaction (`handleMail`, `handleRcpt`, `handleData`, `handleBdat`) | `state`, `bodyType`, the envelope | MAIL, RCPT, DATA, BDAT and the extension loops | `SenderChecker`, `RecipientChecker`, `Handler`, DNS |
| envelope (`envelope.go`) | sender, recipients, priority, buffer, added headers, parsed message | `Reset`, `AddRecipient`, `BeginData`, `Write`, `Close` | owned by the session, handed to `Handler` |
| limits (`limits.go`) | none | compared with counters, turned into deadlines | session and transaction; some comparisons use `DefaultLimits` and some the server's own |
| connection | the socket and the `bufio.Reader` with what was sent and not read yet | a line, a chunk, a TLS record is taken out; STARTTLS replaces the reader | lines, text, chunks, credentials and TLS records lie in one stream |
| server (`server.go`, set up as in `examples/mamail.go`) | configuration, the listener, the connections that wait | `NewServer`, `Auth`, `ListenAndServe`, `Serve`, `newSession` | starts the sessions, which share its configuration and its process |
| commands (`command.go`), addresses (`address.go`), replies (`response.go`), utilities (`utils.go`) | none | parsing, DNS lookups, the table of replies, folding of headers | called by the handlers |

What is hard about it: a handler may wait for the client in the middle, with
state read before the wait; a reply may be lost, and the handler may go on; a
client may disconnect or fall silent at every read; the conditions for a
delivery are checked by different commands than the one that delivers; two
limits are compared with something slightly different from what they limit;
values that belong to one transaction are reset in several places; what the
client sends as text, chunk or password is read as a command once the two sides
disagree; clients retry after lost replies; and a panic in one session ends all
of them. The list with source lines is `hazards` in `PROJECT.json`.

What makes each part correct:

* *session loop*: a session ends when its client does; a lost reply does not
  leave client and server with different transactions; bad commands are bounded;
* *authentication*: credentials only over TLS, and an identity that lasts;
* *transaction*: deliveries only under the configured conditions, to exactly
  the acknowledged recipients, with exactly the text of one DATA command,
  within the size limit;
* *envelope*: reset and reuse leak nothing from one message into the next;
* *connection*: client and session read the stream alike, each command has one
  answer, and nothing that was sent in the clear is read after STARTTLS;
* *server*: nothing is stored twice unless an answer was lost, authentication
  that was set up is enforced, and no session keeps another from being served;
* *commands and headers*: a command spells its line and reaches its handler;
  a folded header unfolds to what it was.

## Modules

| module | models |
|---|---|
| `Envelope` | `envelope.go`, as operators on a record |
| `SessionState` | the session's variables, the server's configuration, and what all handlers share: `Out`, the end of a handler, panics, reads |
| `Auth` | `handleAuth` and `auth.go` |
| `Transaction` | MAIL, RCPT, DATA and BDAT |
| `Session` | the composition: the loop, the other commands, the client as environment; the properties and the inductive invariant |
| `SessionClaims` | what comments say of a session where the code does something else |
| `MailService`, `ServiceRefinement` | what a session promises, and the mapping under which `Session` implements it |
| `CommandLine` | from a line to a handler: `ReadLine`, the trimming, `command.go`, the table `handlers`, as operators |
| `LineReader` | the top of the loop on one line, checked against what the line spells |
| `Response` | the codes of the replies (`response.go`) |
| `Dialogue` | a session, its client and the stream between them |
| `Server` | `server.go`: setting up, the accept loop, many sessions, retries, the end of the process |
| `Wrap` | `wrap` of `utils.go` |
| `MCSession`, `MCDialogue`, `MCServer`, `MCLineReader`, `MCWrap` | the instances for TLC |
| `SessionProofs`, `SafetyProofs` | the theorems about a session |
| `RefinementProofs` | that a session implements `MailService` |
| `CommandLineProofs`, `LineProofs` | what the operators of `CommandLine` return, and the theorems about `LineReader` |
| `DialogueProofs` | the theorems about `Dialogue` |
| `ServerProofs`, `WrapProofs` | the theorems about `Server` and `Wrap` |

`SessionState` extends `Envelope`; `Auth` and `Transaction` extend
`SessionState`; `Session` composes the two; `Dialogue` extends `Session`,
`CommandLine` and `Response`. `Server` stands alone: of a session it keeps what
other sessions and the client's next attempt can see.

### How the model of a session corresponds to the code

**A handler is one action** unless it waits for the client. Only the session's
own goroutine touches its state, so nothing can happen in the middle of a
handler except at a read; there the handler is cut, `pc` says where it waits
and `local` holds its local variables. `pc` is `"read"` while `Serve` waits for
a command, `"handshake"` in STARTTLS, `"data"` and `"bdat"` inside those
commands, and has four values inside AUTH. `"closed"` is the end of `Serve`,
`"panic"` an unrecovered panic.

**Replies.** `replies` holds what the last step flushed. `Out(msgs, st)` is the
method `Out` in a handler that leaves state `st`: one flush per element, any of
which may fail, and then the buffered writer fails for good (`broken`) and the
state is Aborted. `OutThen` is `Out` in a handler that assigns the state after
the call and so loses the abort. A new writer is made only by STARTTLS.

**Reads.** `client` is `"active"` (may still send), `"silent"` (sends nothing
more, connection open) or `"gone"`. A read succeeds only from an active client
and fails when the connection is closed or a deadline is in force; a deadline
may also expire on a client that is merely slow. `deadline` is the last one
set: by a finished handler, DATA or STARTTLS. Behind a TLS listener the first
write shakes hands and waits for the client, without a read deadline.

**Panics.** The code recovers from none. Modelled where it can panic: HELO and
EHLO without argument, a line of a single LF, MAIL with an argument that has no
case (`IsFQN` of a nil address), RCPT without argument, nil `RecipientChecker`,
`Handler` and `Authenticator`, AUTH PLAIN with too many separators or a response
without an argument, BDAT with a negative size.

**Data.** Addresses and user names are atoms. An argument `name=value` of MAIL
or RCPT is a record with what the handlers do with it. The message is the
length of its text (`size`, as the code counts) and of its buffer (`data`).
`Close` leaves in the buffer what a buffered reader of `BufSize` octets would;
whether a non-empty message parses is not determined. The answers of callbacks
and of DNS are parameters of the actions. Texts of replies and headers are left
out; a header is its name.

**History.** `told` is what the replies so far tell the client: MAIL was
accepted, and which recipients were. It is set where the reply that says so was
flushed, and cleared where the code ends the transaction. `handed` holds the
message the last step gave to `Handler`, `local.lines` counts lines of DATA.

**Addresses.** Whether the host of a sender resolves is `fqn` of what the MX and
the host lookup return: an error other than "no such host" lets it pass.

**Bounds.** `MaxData` bounds the octets an envelope collects; it limits
`DataLine` and `handleBdat` and stands for the memory of the process. All other
constants are the code's own limits. The proofs hold for every value of all of
them, `MaxData` included.

### The abstract service

`MailService` knows a transaction that is idle, has a sender, takes text or has
ended, its recipients, whether the client is trusted, and what was given to
`Handler`. Text is taken only for a sender and recipients and from a trusted
client, a message is given away once and for exactly these recipients, and while
text is taken nothing starts over. `ServiceRefinement` maps a session to it: the
phase and the recipients are those the replies have told the client of (`told`),
trust is the greeting with the TLS and the authentication the server demands. So
the refinement says that through lost replies, refusals, resets and panics the
handlers together keep the promise that none of them checks alone.

### The dialogue

`wire` is what was sent and not yet read from the socket, `buf` what is in the
`bufio.Reader`. `Fill` moves any number of items, so lines and chunks arrive in
arbitrary pieces. Each item knows what the client meant by it (command, text,
dot, credentials, octet of a chunk, TLS hello) and whether it was encrypted; the
session sees the line only, and decides with `CommandLine` what it is. Every
step of the session is a step of `Session` with the parameters the line gives;
callbacks and DNS still answer anything.

The client keeps to the protocol: it greets first, sends text after a 354,
credentials after a 334 and a TLS hello after a 220 to STARTTLS, and goes by the
first digit of a reply. It pipelines the commands in `Ahead`, STARTTLS among them,
although RFC 3207 forbids sending on behind that; behind its first command, DATA
and AUTH it waits. It hears a reply as soon as it is flushed; `Hearing` is what it
has become when it has heard all replies of a step. Its commands are words with
single spaces between them, the verb in ASCII (`WellSpaced`).

Some handlers send a 555 or 550 in front of their answer (`Notices`). The client
cannot know that and takes it for the answer; the answer itself then comes when
nothing is due, and is told from any other reply by the notice heard just before.
`heard` keeps what the last reply was (`Meaning`): a notice, an answer, or a
surplus one, that nothing was sent for.

`Pairs(due, stream)` says that the answers the client waits for are those to the
commands in the stream, one each and in their order. `RepliesPaired` claims it
whenever the session is about to read a command, and that the last reply was an
answer: a reply too few leaves a verb in `due` that is not in the stream, one too
many takes the verb of the next command off or is a surplus one.

`slip` records the first time that the code makes the two sides disagree, after
which the client says no more (a bound) and the alignment is no longer claimed.
A slip is defined by its cause, the line that was taken or the read that failed in
the state it met, never by what is left in the stream, so that an octet or a line
left over for any other reason violates `InputAligned`:

| slip | what happened |
|---|---|
| `text` | text ended before the client's dot: too big, exactly the limit, or a line that trims to a dot |
| `chunk` | BDAT with a chunk came after BDAT LAST, where it is refused without reading the chunk (`ChunkUnread`; `claim_discard`) |
| `late` | a read timed out and the session went on: the password of AUTH LOGIN with two arguments, a TLS hello after a handshake that failed |
| `tls` | something else than a TLS hello met the handshake, or commands in the clear were dropped by it |
| `reply` | a notice came in front of an answer (555 and 250 to RCPT, 550 and 250 to EHLO) while the answer to another command was due |
| `lost` | a reply was lost |

That these are all is what `InputAligned` and `RepliesPaired` say. A chunk that
arrives in pieces is no slip: the session ends.

### The server

The embedding program creates a server, calls `Auth`, with a function or with
nil, assigns `Authenticator` and `TLSConfig`, a value or nil, in any order, and
serves on a listener of its own or of `ListenAndServe`. Every client has one
message and sends it again until it is answered 250 (`MaxTries`). A session can
upgrade, authenticate, take a message, reply, lose the reply, end or panic;
`Session` shows when. Behind DATA (`Deliver`, `Handle`) the reply goes by what
`Handler` returned; behind BDAT LAST (`DeliverChunks`) it is 250, nobody needs to
have authenticated and `Handler` is not called, so that a 250 alone does not
mean that a message is stored: `acked` keeps which of the two it was. A panic and the exit of the program cut all
connections, one between `Handler` and its reply included; an `Accept` error
that is not temporary ends the loop and leaves the sessions.

### Lines, replies and headers

A line is a sequence of words and spaces, with CR, LF and TAB at its end. A word is an atom with an upper-case
form and the form that is left when `ReadLine`, which takes the last two octets
for CR LF, has cut its last octet off. `Response` gives each reply the code that
`String` prints; most successes get theirs from `codeMap`, and one that is not
there (NOOP) is a 200. `Wrap` is `wrap` iteration by iteration on a slice that
grows; `at` records where in it each octet of the text ended up.

## What TLC checks

Deadlock is checked in all runs; what has ended stutters.

| run | instance | shows |
|---|---|---|
| `sess_transaction` | no TLS; two recipients at most, two bad commands, text limit 2, lines of 0, 1 and 3 octets, chunks of -1, 0 and 1 | the safety properties of transaction, envelope and loop, and the refinement of `MailService` |
| `sess_auth` | STARTTLS with both mechanisms and TLSOnly, TLS listener with LOGIN, TLSOnly without mechanisms, optional TLS, and three servers with a nil callback | `AuthGuarded`, `DeliveryGated` and `ServiceSpec` where they have something to forbid, `IdentityStable`, and the ends of sessions, `DisconnectEnds`, `ArmedDeadlineEnds` |
| `dialogue` | a plain server with transactions by DATA and BDAT, a submission server with STARTTLS and AUTH; two commands without a reply, three lines of text, three octets in chunks | `InputAligned`, `RepliesPaired`, `ClearTextDropped`, `WaitEnds` |
| `server` | two clients with two tries, one temporary error, every set of mechanisms, functions and fields set or nil, messages by DATA and BDAT | `StoredOnce`, `AuthEnforced`, `ConnectionServed` |
| `lines` | all lines of up to five words and spaces, ended by CR LF, LF, CR CR LF, TAB CR LF or TAB SP CR LF | `NothingLost`, `Dispatched` |
| `wrap` | all texts of up to seven octets over x, space and LF, width 2 | `Unfolds`, `BrokenInTime`, `Ends` |
| `claim_*` | small instances | claims of comments, one each, that the code does not keep |

Why the bounds are enough: with a text limit of 2, lines of 0, 1 and 3 reach a
message below, at and above the limit and one that grows only by its CR LFs;
`MaxRcptCount = 1` reaches the limit, the one recipient past it and the refusal;
`BadCmds = 2` reaches a counter below, at and, if a handler counted twice, past
the limit; two messages in a row, and a message after a refused one, a BDAT or a
reset, fit into the octets allowed, because every reset starts again at zero;
`BufSize = 4` is smaller than the largest message and larger than the smallest.
The extension lists contain every kind of argument and lists in which the loop
has changed something before it is refused. In `dialogue`, two commands without
a reply are one that is handled and one behind it that must not be misread; a
chunk of no octets is a BDAT that does not read; the lines of text are one that reads like a command and one that trims to a dot. In
`server`, two tries are a lost answer and its retry, and two clients the session
that panics and the one that is cut. With width 2, seven octets hold two breaks
and a line break of the text's own between them.

The properties of a session, in `Session`:

* `DeliveryGated`, `RecipientsAcknowledged`, `MessageIsolated`, `SizeRespected`:
  what is given to `Handler`. `SizeRespected` is about the text as the code counts
  it, without line ends;
* `InSync`: the agreement of client and server about the transaction. Two
  states are exempt, because the code rests in them: GettingData after a message
  that was too big, DataDone after BDAT LAST;
* `AuthGuarded`, `IdentityStable`, `BadCommandsBounded`;
* `DisconnectEnds`, `ArmedDeadlineEnds`.

**Fairness.** `FairSpec` of `Session` asks for weak fairness of the session's
own steps where it is not waiting for input (the greeting, the bad-command limit,
a message past its limit) and where the wait must end: the Go scheduler runs a
runnable goroutine, a read on a closed connection returns, and a read with a
deadline returns when it expires. Nothing is assumed of a client that may still
send. A silent client without a deadline disables the read, so the session may
wait for ever: that is `claim_silent`. `FairDialogue` asks for the same, of the
steps for which there is input (`Busy`) and of reads that can only fail
(`Fails`), with the two conditions written out; the client may always stay
silent. `WaitEnds` is about a client that waits on, for the answer to a command or
for the end of a handshake: it is answered again and again (`Answered`: an answer
takes a verb off what is due), or the session ends. An earlier reply does not count
for a later command. `FairSpec` of `Server` asks only that the accept loop goes on, and
nothing of the sessions; `FairSpec` of `Wrap` that the loop does.

### Where the code and its documentation disagree

`findings` in `PROJECT.json` quotes the sentences that a run refutes:

* BDAT LAST acknowledges a message that is handed to nobody (`claim_bdat`);
* RSET keeps body type and priority (`claim_rset`);
* there is no deadline before the first handled command (`claim_silent`);
* a message ends, and is handed over, at a padded dot or at exactly the size
  limit, with lines of it still to come (`claim_whole_mail`);
* `MaxRcptCount` admits one recipient more (`claim_recipients`);
* the chunk of a BDAT that is refused is not discarded, and read for a command
  (`claim_discard`).

What the model shows in a single step, or by its definitions, has no run:

* RCPT refuses every address without `=`, as its extension loop starts at the
  address (`RcptExtensions`), although `session_test.go:77` expects otherwise; an
  address with one `=`, or an unknown argument, removes the sender, and the message
  is delivered without one (`DropSender`);
* the envelope given to `Handler` has been emptied by `Close` up to what a buffered
  reader leaves (`Leftover`); the body is in `Mail.Body`, if the message parsed;
* `MsgSize`, the "max email size", is compared with the text without its line ends,
  so that empty lines are free (`DataLine`);
* a line that ends in LF alone loses its last character, and what is left is obeyed
  (`ReadLine` of `CommandLine`);
* assigning `Authenticator`, as the example does, enables no authentication: that
  takes `Auth` (`Authenticate` of `Server`, by `authMechanisms`);
* nil `Handler` and `RecipientChecker`, which "can be left empty", panic, as a nil
  `Authenticator` given to `Auth` does;
* DATA goes on after a lost 354; the response to the PLAIN prompt must begin with a
  verb, so that a compliant client never authenticates that way (`PlainLine`);
  `fqn` lets a host pass whose lookup fails for another reason than "no such host";
  BDAT, unlike DATA, asks for no authentication.

## What is proved

### The session

`TypeCorrect` (`SessionProofs`) and the theorems of `SafetyProofs` hold for all
sets of addresses, users, configurations, arguments, line lengths and chunk
sizes and all limits, from the assumptions `AddressAssumption`,
`BufSizeAssumption`, `ConfigsAssumption`, `LimitsAssumption`,
`BodyTypesAssumption` and `InputsAssumption`, which TLC evaluates in every run
of `MCSession` and `MCDialogue`.
None is stronger than a type, except that the first argument of RCPT begins
with `TO:` and therefore is no extension the loop knows.

None of the safety properties is inductive: DATA delivers without looking at
greeting, TLS or authentication, so `DeliveryGated` follows only from what the
session's `state` says about earlier commands. `IInv` adds exactly that:

* `StateInv`: a state in which MAIL was accepted is secured, one in which a
  recipient was accepted was greeted and has a recipient;
* `LostInv`: after a lost reply no transaction is open, because every handler
  that overwrites the abort leaves a state in which none is;
* `SyncInv`: `InSync`, also while a handler waits;
* `DataInv`: while text is read, the transaction is the one the client was told
  of and the buffer holds the lines read so far;
* `CounterInv`: a waiting handler is below the bad-command limit, and so may
  still count once;
* `AuthGuarded` and `HandedInv`, which are properties themselves.

The proof sorts steps into a few kinds: those that leave the transaction alone
or abort (`Quiet`), those that end it (`Cleared`), those after which no handler
waits (`Rests`). Each kind keeps its part of `IInv` (`QuietInv`, `ClearedInv`,
`RestsInv`), most actions are shown to be of a kind, and accepted MAIL, RCPT and
DATA, a line of text, a chunk and the delivery are argued by themselves. The
action properties `RecipientsAcknowledged` and `IdentityStable` follow from
`IInv` step by step. `RecipientsAreBounded` says how far the limit on recipients,
which `claim_recipients` shows to be passed, is passed: by one at most. It needs no
more than the types, as a step keeps the recipients, drops them all or adds one to
at most `MaxRcptCount` (`RecipientsStep`).

In `SafetyProofs`, `InductiveInvariant` proves `IInv`; `DeliveryIsGated`,
`StaysInSync`, `MessagesAreIsolated`, `SizeIsRespected`, `AuthIsGuarded`, `BadCommandsAreBounded`, `RecipientsAreBounded`,
`RecipientsAreAcknowledged` and `IdentityIsStable` prove the properties of
`Session` that their names echo.

### The refinement

`SessionImplementsService` (`RefinementProofs`) proves `Spec => ServiceSpec`
under the assumptions above. The mapping needs no invariant of its own: under
`IInv` every step of a session is one of a few steps of the service. A step
after which the session has ended is the service's end (`EndStep`); a step that
keeps phase and recipients and gives nothing away can at most gain trust
(`KeepsStep`); a step that drops the transaction is
a reset (`DropsStep`). Most handlers are of these kinds. Accepted MAIL, RCPT and
DATA, a message that is too big and the delivery have a lemma each (`MailStep`,
`RcptStep`, `DataStep`, `TooBigStep`, `DoneStep`); there `StateInv` and `SyncInv`
supply that the session's state, which the handler looks at, is what the client
was told, which is all the service knows.

### The server

`ServerProofs` holds for any finite set of clients and all bounds on attempts
and `Accept` errors, from `ServerAssumption`. Neither property is inductive, and
`ServerInv` adds:

* `LedgerInv`: `stored` equals the lost answers to messages that `Handler` had
  stored, plus one if such an answer arrived or is under way; the 250 to BDAT LAST,
  arrived, under way or lost, is in no account. `StoredOnce` bounds `stored` from
  above only, for a reply under way whatever it answers, and would not survive the
  reply. It also says that a client with an answer is not being served, so that an
  answer is counted once;
* `BacklogInv`: whoever waits for `Accept` does so once, so that a connection
  that is accepted does not overwrite a session in progress;
* `AuthInv`: `AuthEnforced`, that the program sets the server up before there
  are sessions, that `Auth` leaves no server without mechanisms, and that nobody
  authenticates in the clear. Without the second, `Auth` called while sessions
  run would find one that had got through without it. Nothing is said about the
  function: mechanisms may well be there without an `Authenticator`, and then
  nobody gets through.

`MailIsStoredOnce` and `AuthIsEnforced` are the properties.

### Lines and handlers

`CommandsAreDispatched` and `NothingIsLost` (`LineProofs`) prove `Dispatched` and
`NothingLost` for all words and all sets of lines of any length, from
`WordAssumption` (case folding and chopping give words, and nothing in upper case
is nothing) and `LinesAssumption` (what tokens are: words have text, no two stand
side by side, and no CR, LF or TAB is in front of a word). The invariant is short
(`LineInv`: the command is what `parseCommand` makes of the line); the work is in
what the operators compute. `TrimmedLine` says that cutting CR LF and trimming
leave the line up to its last word, `SpacesCount` and `SplitIs` what splitting at
spaces makes of it, `FirstWord` and `NoFirstWord` which field comes first and when
there are others, `TableInOrder` that verbs and handlers are in the same order, and
`ParseFirst` puts them together.

That the fields, joined again, are the line (`JoinSplit`) is an induction over its
tokens: where a field ends behind the i-th token, joining the fields so far gives
the first i tokens. A space there ends an empty field (`EmptyField`, `JoinedSpace`),
a word is a field by itself (`WordField`, `JoinedWord`), and a word goes back two
tokens, so the hypothesis holds for two. The library's induction theorems have an
operator as parameter, which the provers cannot instantiate; `Induction`
(`CommandLineProofs`) is the same for a set, from the well-foundedness of the
naturals, and `JoinsExists` shows that the recursive function in `Join` is one.

`NothingLost` allows any white space behind the text. Only spaces would be too
few: `NOOP CR CR LF` leaves a CR to the trimming.

### The dialogue

`DialogueProofs` holds for all commands, texts, extensions and numbers, any set
`Ahead` and all bounds, from the assumptions about sessions and words and
`DialogueAssumption`: commands are well spaced, nothing is sent on behind the
greeting, DATA or AUTH, and the rest are types and bounds.

*A session in a dialogue is a session.* `DialogueIsAnyNext` shows that every step is
one that the proofs about `Session` cover. These are about `AnyNext`, the next-state
relation with any argument instead of the ones that `Next` enumerates. So
`DialogueInductive` (`IInv` in every dialogue, with the types of the stream) and
`DialogueImplementsService` follow with little more than the type of what
`CommandLine` makes of a line.

*The stream is read alike.* `InputAligned`, `RepliesPaired` and `ClearTextDropped` are
far from inductive: what a session will take for a command after a chunk, a text or
an AUTH is still ahead in the stream, and `ClearTextDropped` says nothing until TLS is
on. `DialogueInv` says all of it at every place a session may be:

* `Aligned`: until a slip, `AlignedAt` describes the stream, by where the session
  is, and the last reply was an answer. At a command, commands with their chunks
  behind them, and the answer to each of them due (`Stream`); in BDAT the rest of its chunk first; at the handshake the
  commands sent ahead and, once the client has sent it, the hello behind them; in
  DATA lines of text, the dot at most at their end; in AUTH one response at most.
  `Grouped` adds that only the last command without a reply may be one that nothing
  is sent behind, so that after DATA and AUTH nothing is ahead;
* `Encrypted`: a hello is the last that was sent, the handshake begins without TLS,
  and once the session has TLS, so has the client, and all that is under way.

`Stream` has two halves. `Chunked` says that octets belong to the command in front of
them and that a command has all of its own. `Pairs` has a function from the replies
due to the places of their commands. Both are shown to survive sending a command with
its chunk behind, taking the first command, and taking a chunk (`StreamSend`,
`StreamTake`, `StreamChunk`).

A command keeps client and session aligned because of how it ends. `ObeyOutcome`
says, for every verb and all that its handler may do: the session ends; or it waits
for the next command and has given one answer, with nothing but notices in front
(`Answering`), the first of them a reply for which the client takes the verb off
what is due, and no chunk is left behind, which needs that the line was none of
`ChunkUnread`; or it waits for text, credentials, a chunk or the handshake
and has given just the reply by which the client knows (`Outcome`). `CommandTaken`
turns this into alignment, through the client's `Hearing`. A notice in front of the
answer counts as a slip only if the answer to another command is due: otherwise the
client waits for nothing when the answer follows, and hears that it is one
(`HearingFinal`). That each step of the client keeps the
alignment is `SendAligned`, each step of the session `AlignedStep`.

`Aligned` and `Encrypted` need each other. A successful handshake drops all that is
under way only because nothing is behind the hello (`HelloAlone`), and nothing is
because the client is told of the handshake's end before it sends on, which is
alignment (`NoHello`, `SendEncrypted`).

`DialogueInvariant` is the invariant; `DialogueInputAligned`, `DialogueRepliesPaired`
and `DialogueClearTextDropped` are the properties.

### Headers

`WrapProofs` holds for every set of octets, header and width, from
`WrapAssumption`. `Unfolds` and `BrokenInTime` need each other's neighbours:
`PlacedInv` (what was placed lies before the octet to look at) keeps a break,
which moves everything behind it by two, away from what was placed, and
`LengthInv` ties the counter `length` to the distance from the last line break,
with one octet of slack for the TAB that is not counted. `FoldingUnfolds`,
`LinesAreBrokenInTime` and `WrapTypeCorrect` are the properties.

### Only model-checked

All invariants and action properties of the passing runs are proved. What is left:

* Liveness: `DisconnectEnds`, `ArmedDeadlineEnds`, `WaitEnds`,
  `ConnectionServed`, `Ends`. The prover does not treat fairness.
* The claims, which are refuted by an example.

## What is not modelled

* The text of addresses, replies and headers; sizes near the limits of 64-bit
  integers, and chunk sizes too large to allocate.
* What `Handler` does with the envelope after it returned, while the session
  goes on to reset and reuse it.
* In `Dialogue`: replies under way (they are heard at once), a client after the
  first slip, lines that end in LF alone (these are in `LineReader`), and a TLS
  listener, whose handshake is a step of `Session`.
* In `response.go`: replies that no handler sends, the failures in `codeMap`
  (every failure brings its own code) and the default texts, of no consequence to
  a client that goes by the code.
* In `utils.go`: `limitedLineSplitter`, `removeBrackets` and the mail store for
  tests, which nothing calls, and functions that return a fixed string. The same
  holds for `Reject` and `checkHost` in `session.go`, and for `shuttingDown` and
  the mutex of `Server`.

## Plan

1. *Done*: `Envelope`, `SessionState`, `Auth`, `Transaction`, `Session`, types
   and safety proved.
2. *Done*: `MailService` and the refinement, `Dialogue`, `Server`, `CommandLine`,
   `LineReader`, `Response`, `Wrap`, model-checked.
3. *Done*: `Spec => ServiceSpec`, the invariants of `Server`, the dispatching of
   lines, and the folding of headers, proved.
4. *Done*: the same for a session in its dialogue, the alignment of the stream, and
   that splitting a line loses nothing, proved.
5. Left to TLC: liveness. A proof would need the fairness conditions as leads-to
   arguments, which the prover does not treat.
