------------------------------- MODULE Server -------------------------------
(***************************************************************************)
(* The server process (server.go): how the embedding program sets a Server  *)
(* up, the accept loop, one goroutine per session, and the end of them all. *)
(*                                                                         *)
(* Every client has one message, sends it again where it was refused or the *)
(* connection was lost without a 250, and does nothing once it has one.  Of *)
(* a session only what others can see is left: encryption, authentication,  *)
(* the end of a message, the call of Handler, the reply and the end; Session *)
(* has the rest.                                                            *)
(***************************************************************************)
EXTENDS Integers, Sequences, FiniteSets

CONSTANTS
    Client,
    GivenLimits,    \* values of Limits a program may pass to NewServer
    DefaultLimits,
    Mechanism,      \* names of mechanisms a program may pass to Auth
    MaxTries,       \* bound on how often a client sends its message
    MaxErrors       \* bound on the temporary errors of Accept

SupportedAuthMechanisms == {"LOGIN", "PLAIN"}

ASSUME ServerAssumption == /\ IsFiniteSet(Client)
                           /\ SupportedAuthMechanisms \subseteq Mechanism
                           /\ MaxTries \in Nat /\ MaxErrors \in Nat

VARIABLES
    proc,    \* "setup", "serving", "returned" (from Serve), "dead"
    srv,     \* the Server
    ln,      \* the listener: "none", "tls", "plain" or "closed"
    backlog, \* connections that wait for Accept, in order
    conn,    \* the connection of every client
    errors   \* temporary errors so far

\* History: whether Auth succeeded; how often the message of a client was sent
\* and stored by Handler, which 250 it was answered, and how often the 250 after
\* Handler had stored it was lost
VARIABLES authOn, tries, stored, acked, lost

serverVars == <<proc, srv, ln, errors, authOn>>
historyVars == <<tries, stored, acked, lost>>
vars == <<serverVars, backlog, conn, historyVars>>

\* The answers to a message: none but a 4yz, 250 as Handler returned no error, and
\* 250 to the last of the chunks, which Handler has not seen
Answer == {"none", "queued", "chunks"}

\* answer: what the message that was last sent is to be answered
NoConn == [phase |-> "none", tls |-> FALSE, authenticated |-> FALSE,
           answer |-> "none"]

Open == {"serving", "handling", "replying"}

Init ==
    /\ proc = "setup"
    /\ srv = [Limits |-> DefaultLimits, authMechanisms |-> {},
              Authenticator |-> FALSE, TLSConfig |-> FALSE]
    /\ ln = "none"
    /\ backlog = <<>>
    /\ conn = [c \in Client |-> NoConn]
    /\ errors = 0
    /\ authOn = FALSE
    /\ tries = [c \in Client |-> 0]
    /\ stored = [c \in Client |-> 0]
    /\ acked = [c \in Client |-> "none"]
    /\ lost = [c \in Client |-> 0]

-----------------------------------------------------------------------------
\* The embedding program, before it serves

Setup == /\ proc = "setup"
         /\ UNCHANGED <<ln, errors, backlog, conn, historyVars>>

\* A list of limits that is not exactly one is ignored.
NewServer(limits) ==
    /\ Setup
    /\ srv' = [Limits |-> IF Len(limits) = 1 THEN limits[1] ELSE DefaultLimits,
               authMechanisms |-> {}, Authenticator |-> FALSE,
               TLSConfig |-> FALSE]
    /\ authOn' = FALSE
    /\ UNCHANGED proc

\* Mutant: only the function is set, as by assigning the field
AuthAssigned(f, mechs) == [srv EXCEPT !.Authenticator = f]

\* Auth without mechanisms offers all of them.  f tells whether there is a function
\* at all: nil is taken as well.
AuthSet(f, mechs) ==
    [srv EXCEPT !.authMechanisms =
                   IF mechs = {} THEN SupportedAuthMechanisms ELSE mechs,
                !.Authenticator = f]

Auth(f, mechs) ==
    /\ Setup
    /\ \/ /\ mechs \subseteq SupportedAuthMechanisms
          /\ srv' = AuthSet(f, mechs)
          /\ authOn' = TRUE
       \/ /\ ~(mechs \subseteq SupportedAuthMechanisms)
          /\ UNCHANGED <<srv, authOn>>
    /\ UNCHANGED proc

\* The exported fields, assigned by the program itself: a value or nil
AssignField(set) ==
    /\ Setup
    /\ \/ srv' = [srv EXCEPT !.TLSConfig = set]
       \/ srv' = [srv EXCEPT !.Authenticator = set]
    /\ UNCHANGED <<proc, authOn>>

\* A TLS listener where there is a TLSConfig; Serve takes any listener.
ListenAndServe(ok) ==
    /\ proc = "setup"
    /\ IF ok THEN proc' = "serving" /\ ln' = IF srv.TLSConfig THEN "tls" ELSE "plain"
             ELSE proc' = "returned" /\ UNCHANGED ln
    /\ UNCHANGED <<srv, errors, authOn, backlog, conn, historyVars>>

Serve == /\ proc = "setup"
         /\ proc' = "serving" /\ ln' = "plain"
         /\ UNCHANGED <<srv, errors, authOn, backlog, conn, historyVars>>

-----------------------------------------------------------------------------
\* The accept loop

newSession == [NoConn EXCEPT !.phase = "serving", !.tls = (ln = "tls")]

\* Mutant: the session is served in the accept loop itself, without go
AcceptAlone == /\ proc = "serving" /\ backlog # <<>>
               /\ \A c \in Client : conn[c].phase \notin Open
               /\ conn' = [conn EXCEPT ![Head(backlog)] = newSession]
               /\ backlog' = Tail(backlog)
               /\ UNCHANGED <<serverVars, historyVars>>

Accept == /\ proc = "serving" /\ backlog # <<>>
          /\ conn' = [conn EXCEPT ![Head(backlog)] = newSession]
          /\ backlog' = Tail(backlog)
          /\ UNCHANGED <<serverVars, historyVars>>

\* A temporary error is logged and the loop goes on.
AcceptTemporary == /\ proc = "serving" /\ errors < MaxErrors
                   /\ errors' = errors + 1
                   /\ UNCHANGED <<proc, srv, ln, authOn, backlog, conn,
                                  historyVars>>

\* What ends with the process, or waits at a listener that is closed, is lost,
\* a reply that was about to be sent with it.
Cut(phases) ==
    /\ conn' = [c \in Client |-> IF conn[c].phase \in phases
                                 THEN [conn[c] EXCEPT !.phase = "ended"]
                                 ELSE conn[c]]
    /\ lost' = [c \in Client |->
                  IF /\ conn[c].phase \in phases \cap {"replying"}
                     /\ conn[c].answer = "queued"
                  THEN lost[c] + 1 ELSE lost[c]]
    /\ backlog' = <<>>
    /\ UNCHANGED <<tries, stored, acked>>

\* Any other error closes the listener and ends Serve.  The sessions go on for
\* as long as the program does.
AcceptFails == /\ proc = "serving"
               /\ proc' = "returned" /\ ln' = "closed"
               /\ Cut({"waiting"})
               /\ UNCHANGED <<srv, errors, authOn>>

Dies == /\ proc' = "dead" /\ ln' = "closed"
        /\ Cut({"waiting"} \cup Open)
        /\ UNCHANGED <<srv, errors, authOn>>

Exit == proc = "returned" /\ Dies

-----------------------------------------------------------------------------
\* The sessions

Moves(c, phase) == conn' = [conn EXCEPT ![c].phase = phase]

Session(c, phase) == conn[c].phase = phase /\ UNCHANGED <<serverVars, backlog>>

\* handleStartTLS
StartTLS(c) == /\ Session(c, "serving")
               /\ srv.TLSConfig /\ ~conn[c].tls
               /\ conn' = [conn EXCEPT ![c].tls = TRUE]
               /\ UNCHANGED historyVars

\* handleAuth; without an Authenticator the call of it is a panic.
Authenticate(c) == /\ Session(c, "serving")
                   /\ conn[c].tls /\ srv.authMechanisms # {} /\ srv.Authenticator
                   /\ conn' = [conn EXCEPT ![c].authenticated = TRUE]
                   /\ UNCHANGED historyVars

\* The client has reason to send its message.
Pending(c) == acked[c] = "none" /\ tries[c] < MaxTries

\* A message is complete behind DATA, and Handler is called.
Deliver(c) == /\ Session(c, "serving")
              /\ srv.authMechanisms # {} => conn[c].authenticated
              /\ Pending(c)
              /\ tries' = [tries EXCEPT ![c] = @ + 1]
              /\ Moves(c, "handling")
              /\ UNCHANGED <<stored, acked, lost>>

\* A message is complete with BDAT LAST: nobody needs to have authenticated, and
\* Handler is not called.
DeliverChunks(c) == /\ Session(c, "serving")
                    /\ Pending(c)
                    /\ tries' = [tries EXCEPT ![c] = @ + 1]
                    /\ conn' = [conn EXCEPT ![c].phase = "replying",
                                            ![c].answer = "chunks"]
                    /\ UNCHANGED <<stored, acked, lost>>

\* Handler stores the message, or returns an error.
Handle(c) == /\ Session(c, "handling")
             /\ \E ok \in BOOLEAN :
                   /\ stored' = [stored EXCEPT ![c] = @ + IF ok THEN 1 ELSE 0]
                   /\ conn' = [conn EXCEPT ![c].phase = "replying",
                                           ![c].answer = IF ok THEN "queued"
                                                         ELSE "none"]
             /\ UNCHANGED <<tries, acked, lost>>

\* Mutant: the error is an interface around a nil pointer, and never equals nil
AnswerNeverQueued(c) == IF conn[c].answer = "queued" THEN "none" ELSE conn[c].answer

\* 250 or 451, by the error Handler returned; always 250 to BDAT LAST
AnswerOf(c) == conn[c].answer

\* The reply arrives, or the session ends without it.
Reply(c) == /\ Session(c, "replying")
            /\ Moves(c, "serving")
            /\ acked' = [acked EXCEPT ![c] = AnswerOf(c)]
            /\ UNCHANGED <<tries, stored, lost>>

ReplyLost(c) == /\ Session(c, "replying")
                /\ Moves(c, "ended")
                /\ lost' = [lost EXCEPT ![c] = @ + IF conn[c].answer = "queued"
                                                    THEN 1 ELSE 0]
                /\ UNCHANGED <<tries, stored, acked>>

\* QUIT, a failed read, too many bad commands
EndSession(c) == /\ Session(c, "serving")
                 /\ Moves(c, "ended")
                 /\ UNCHANGED historyVars

\* No session recovers from a panic, such as the call of a nil Authenticator: the
\* process ends with it.
Panic(c) == conn[c].phase \in {"serving", "handling"} /\ Dies

Connect(c) == /\ ln \in {"tls", "plain"}
              /\ conn[c].phase \in {"none", "ended"}
              /\ Pending(c)
              /\ Moves(c, "waiting")
              /\ backlog' = Append(backlog, c)
              /\ UNCHANGED <<serverVars, historyVars>>

-----------------------------------------------------------------------------
Stopped == proc \in {"serving", "returned", "dead"} /\ UNCHANGED vars

Program == \/ \E limits \in {<<>>} \cup {<<l>> : l \in GivenLimits}
                               \cup {<<l, l>> : l \in GivenLimits} :
                  NewServer(limits)
           \/ \E f \in BOOLEAN, mechs \in SUBSET Mechanism : Auth(f, mechs)
           \/ \E set \in BOOLEAN : AssignField(set)
           \/ \E ok \in BOOLEAN : ListenAndServe(ok)
           \/ Serve
           \/ Exit

Step(c) == \/ Deliver(c) \/ DeliverChunks(c) \/ Handle(c)
           \/ Reply(c) \/ ReplyLost(c) \/ EndSession(c)

Next == \/ Program
        \/ Accept \/ AcceptTemporary \/ AcceptFails
        \/ \E c \in Client : \/ Connect(c) \/ StartTLS(c) \/ Authenticate(c)
                             \/ Step(c) \/ Panic(c)
        \/ Stopped

Spec == Init /\ [][Next]_vars

\* The accept loop goes on, the errors of Accept being temporary.  Nothing is
\* assumed about the sessions: each has a goroutine of its own.
FairSpec == Spec /\ WF_vars(Accept)

-----------------------------------------------------------------------------
\* A message is stored twice only if an answer to it was lost on the way: each
\* but the last time it was stored ended in a lost reply or a dead process.  The
\* 250 to BDAT LAST is not one for a message that was stored (handleData).
StoredOnce == \A c \in Client :
                 stored[c] <= lost[c] + IF acked[c] = "queued"
                                           \/ conn[c].phase = "replying"
                                        THEN 1 ELSE 0

\* Where the program called Auth with success, Handler is called only for clients
\* that authenticated over TLS, whether or not Auth was given a function and
\* whichever fields were assigned besides.
AuthEnforced ==
    authOn => \A c \in Client :
        conn[c].phase = "handling" => conn[c].authenticated /\ conn[c].tls

\* Whoever connects is served, however long other sessions take, unless the
\* server stops.
ConnectionServed ==
    \A c \in Client : conn[c].phase = "waiting" ~> conn[c].phase # "waiting"

-----------------------------------------------------------------------------
\* The inductive invariant behind the safety properties

Phase == {"none", "waiting", "ended"} \cup Open

Conn == [phase : Phase, tls : BOOLEAN, authenticated : BOOLEAN,
         answer : Answer]

TypeOK ==
    /\ proc \in {"setup", "serving", "returned", "dead"}
    /\ srv \in [Limits         : GivenLimits \cup {DefaultLimits},
                authMechanisms : SUBSET SupportedAuthMechanisms,
                Authenticator  : BOOLEAN,
                TLSConfig      : BOOLEAN]
    /\ ln \in {"none", "tls", "plain", "closed"}
    /\ backlog \in Seq(Client)
    /\ conn \in [Client -> Conn]
    /\ errors \in Nat
    /\ authOn \in BOOLEAN
    /\ tries \in [Client -> Nat]
    /\ stored \in [Client -> Nat]
    /\ acked \in [Client -> Answer]
    /\ lost \in [Client -> Nat]

\* What waits for Accept waits there once.
BacklogInv ==
    /\ \A k \in 1 .. Len(backlog) : conn[backlog[k]].phase = "waiting"
    /\ \A k, l \in 1 .. Len(backlog) : backlog[k] = backlog[l] => k = l

\* A 250 is under way for a message that Handler has stored.
Answering(c) == conn[c].phase = "replying" /\ conn[c].answer = "queued"

\* Every time a message was stored is accounted for: by a lost answer to DATA, by
\* the one that arrived or by the one under way.  Chunks are in no account, and who
\* has an answer sends nothing.
LedgerInv ==
    \A c \in Client :
        /\ stored[c] = lost[c] + IF acked[c] = "queued" \/ Answering(c) THEN 1 ELSE 0
        /\ conn[c].phase \in {"handling", "replying"} => acked[c] = "none"

\* Before the program serves there are no sessions, and Auth, which is called
\* then, leaves no server without mechanisms; nobody authenticates in the clear.
AuthInv ==
    /\ AuthEnforced
    /\ proc = "setup" => ln = "none" /\ \A c \in Client : conn[c] = NoConn
    /\ authOn => srv.authMechanisms # {}
    /\ \A c \in Client : conn[c].authenticated => conn[c].tls

ServerInv == TypeOK /\ BacklogInv /\ LedgerInv /\ AuthInv

=============================================================================
