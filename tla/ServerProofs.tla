---------------------------- MODULE ServerProofs ----------------------------
(***************************************************************************)
(* The safety properties of the server, for every set of clients, every     *)
(* number of attempts and every way of setting it up.                       *)
(***************************************************************************)
EXTENDS Server, SequenceTheorems, TLAPS

-----------------------------------------------------------------------------
\* A field of the connection of c is replaced.
LEMMA ConnUpdate ==
    ASSUME TypeOK, NEW c \in Client, NEW p \in Phase, NEW b \in BOOLEAN,
           NEW a \in Answer
    PROVE  /\ [conn EXCEPT ![c].phase = p] \in [Client -> Conn]
           /\ [conn EXCEPT ![c].tls = b] \in [Client -> Conn]
           /\ [conn EXCEPT ![c].authenticated = b] \in [Client -> Conn]
           /\ [conn EXCEPT ![c].phase = p, ![c].answer = a] \in [Client -> Conn]
BY DEF TypeOK, Conn

\* A session begins with a connection of the right type.
LEMMA NewSessionType == newSession \in Conn /\ NoConn \in Conn
BY DEF newSession, NoConn, Conn, Phase, Open, Answer

-----------------------------------------------------------------------------
\* Types

\* Setting the server up keeps the types.
LEMMA SetupType ==
    ASSUME TypeOK,
           \/ \E limits \in {<<>>} \cup {<<l>> : l \in GivenLimits}
                              \cup {<<l, l>> : l \in GivenLimits} :
                 NewServer(limits)
           \/ \E f \in BOOLEAN, mechs \in SUBSET Mechanism : Auth(f, mechs)
           \/ \E set \in BOOLEAN : AssignField(set)
           \/ \E ok \in BOOLEAN : ListenAndServe(ok)
           \/ Serve
    PROVE  TypeOK'
<1>1. ASSUME NEW limits \in {<<>>} \cup {<<l>> : l \in GivenLimits}
                               \cup {<<l, l>> : l \in GivenLimits},
             NewServer(limits)
      PROVE  TypeOK'
  <2>1. (IF Len(limits) = 1 THEN limits[1] ELSE DefaultLimits)
           \in GivenLimits \cup {DefaultLimits}
    OBVIOUS
  <2> QED BY <1>1, <2>1 DEF NewServer, Setup, TypeOK, historyVars
<1>2. ASSUME NEW f \in BOOLEAN, NEW mechs \in SUBSET Mechanism, Auth(f, mechs)
      PROVE  TypeOK'
  BY <1>2 DEF Auth, AuthSet, Setup, TypeOK, historyVars
<1>3. CASE \E set \in BOOLEAN : AssignField(set)
  BY <1>3 DEF AssignField, Setup, TypeOK, historyVars
<1>4. CASE Serve \/ \E ok \in BOOLEAN : ListenAndServe(ok)
  BY <1>4 DEF Serve, ListenAndServe, TypeOK, historyVars
<1> QED BY <1>1, <1>2, <1>3, <1>4

\* What Cut leaves of the connections is of the right type.
LEMMA CutType ==
    ASSUME TypeOK, NEW phases, Cut(phases)
    PROVE  /\ conn' \in [Client -> Conn]
           /\ lost' \in [Client -> Nat]
           /\ backlog' \in Seq(Client)
           /\ UNCHANGED <<tries, stored, acked>>
<1>1. \A c \in Client : conn[c] \in Conn /\ lost[c] \in Nat
  BY DEF TypeOK
<1>2. \A c \in Client : [conn[c] EXCEPT !.phase = "ended"] \in Conn
  BY <1>1 DEF Conn, Phase
<1> QED BY <1>1, <1>2 DEF Cut

\* The accept loop and the end of the process keep the types.
LEMMA LoopType ==
    ASSUME TypeOK,
           \/ Accept \/ AcceptTemporary \/ AcceptFails \/ Exit
           \/ \E c \in Client : Panic(c)
    PROVE  TypeOK'
<1>1. CASE Accept
  <2>1. Head(backlog) \in Client /\ Tail(backlog) \in Seq(Client)
    BY <1>1, HeadTailProperties DEF Accept, TypeOK
  <2> QED BY <1>1, <2>1, NewSessionType DEF Accept, TypeOK, serverVars, historyVars
<1>2. CASE AcceptTemporary
  BY <1>2 DEF AcceptTemporary, TypeOK, historyVars
<1>3. CASE AcceptFails
  BY <1>3, CutType DEF AcceptFails, TypeOK
<1>4. CASE Dies
  BY <1>4, CutType DEF Dies, TypeOK
<1> QED BY <1>1, <1>2, <1>3, <1>4 DEF Exit, Panic

\* Sessions and clients keep the types.
LEMMA ClientType ==
    ASSUME TypeOK, NEW c \in Client,
           Connect(c) \/ StartTLS(c) \/ Authenticate(c) \/ Step(c)
    PROVE  TypeOK'
<1>1. /\ {"waiting", "handling", "replying", "serving", "ended"} \subseteq Phase
      /\ conn[c].answer \in Answer /\ {"none", "queued", "chunks"} \subseteq Answer
  BY DEF Phase, Open, TypeOK, Conn, Answer
<1>2. CASE Connect(c)
  <2>1. Append(backlog, c) \in Seq(Client)
    BY AppendProperties DEF TypeOK
  <2>2. conn' \in [Client -> Conn]
    BY <1>1, <1>2, ConnUpdate DEF Connect, Moves
  <2> QED BY <1>2, <2>1, <2>2 DEF Connect, TypeOK, serverVars, historyVars
<1>3. CASE StartTLS(c) \/ Authenticate(c) \/ EndSession(c)
  <2>1. conn' \in [Client -> Conn]
    <3>1. CASE StartTLS(c)
      BY <1>1, <3>1, ConnUpdate DEF StartTLS
    <3>2. CASE Authenticate(c)
      BY <1>1, <3>2, ConnUpdate DEF Authenticate
    <3>3. CASE EndSession(c)
      BY <1>1, <3>3, ConnUpdate DEF EndSession, Moves
    <3> QED BY <1>3, <3>1, <3>2, <3>3
  <2> QED BY <1>3, <2>1 DEF StartTLS, Authenticate, EndSession, Session, TypeOK,
                            serverVars, historyVars
<1>4. CASE Deliver(c) \/ DeliverChunks(c)
  <2>1. conn' \in [Client -> Conn]
    <3>1. CASE Deliver(c)
      BY <1>1, <3>1, ConnUpdate DEF Deliver, Moves
    <3>2. CASE DeliverChunks(c)
      BY <1>1, <3>2, ConnUpdate DEF DeliverChunks
    <3> QED BY <1>4, <3>1, <3>2
  <2>2. tries' \in [Client -> Nat]
    <3>1. tries' = [tries EXCEPT ![c] = @ + 1]
      BY <1>4 DEF Deliver, DeliverChunks
    <3> QED BY <3>1 DEF TypeOK
  <2> QED BY <1>4, <2>1, <2>2 DEF Deliver, DeliverChunks, Session, TypeOK, serverVars
<1>5. CASE Handle(c)
  <2>1. PICK ok \in BOOLEAN :
           /\ stored' = [stored EXCEPT ![c] = @ + IF ok THEN 1 ELSE 0]
           /\ conn' = [conn EXCEPT ![c].phase = "replying",
                                  ![c].answer = IF ok THEN "queued" ELSE "none"]
    BY <1>5 DEF Handle
  <2>2. conn' \in [Client -> Conn]
    BY <1>1, <2>1, ConnUpdate
  <2>3. stored' \in [Client -> Nat]
    BY <2>1 DEF TypeOK
  <2> QED BY <1>5, <2>2, <2>3 DEF Handle, Session, TypeOK, serverVars
<1>6. CASE Reply(c)
  <2>1. acked' \in [Client -> Answer]
    BY <1>1, <1>6 DEF Reply, AnswerOf, TypeOK
  <2> QED BY <1>1, <1>6, <2>1, ConnUpdate
          DEF Reply, Moves, Session, TypeOK, serverVars
<1>7. CASE ReplyLost(c)
  <2>1. lost' \in [Client -> Nat]
    BY <1>7 DEF ReplyLost, TypeOK
  <2> QED BY <1>1, <1>7, <2>1, ConnUpdate
          DEF ReplyLost, Moves, Session, TypeOK, serverVars
<1> QED BY <1>2, <1>3, <1>4, <1>5, <1>6, <1>7 DEF Step

\* A stuttering step keeps the types.
LEMMA StutterType == TypeOK /\ UNCHANGED vars => TypeOK'
BY DEF TypeOK, vars, serverVars, historyVars

-----------------------------------------------------------------------------
\* The clients that wait for Accept

\* Nobody waits twice, and whoever is accepted waits no longer (Serve).
LEMMA AcceptBacklog ==
    ASSUME TypeOK, BacklogInv, Accept
    PROVE  BacklogInv'
<1>1. /\ backlog \in Seq(Client) /\ backlog # <<>>
      /\ conn \in [Client -> Conn]
  BY DEF Accept, TypeOK
<1>2. /\ Len(backlog') = Len(backlog) - 1
      /\ \A k \in 1 .. Len(backlog') : backlog'[k] = backlog[k + 1]
      /\ Head(backlog) = backlog[1]
  BY <1>1, HeadTailProperties DEF Accept
<1>3. \A k \in 1 .. Len(backlog') : /\ k + 1 \in 1 .. Len(backlog)
                                    /\ backlog[k + 1] # Head(backlog)
                                    /\ backlog[k + 1] \in Client
  BY <1>1, <1>2 DEF BacklogInv
<1>4. \A k \in 1 .. Len(backlog') : conn'[backlog'[k]].phase = "waiting"
  BY <1>1, <1>2, <1>3 DEF BacklogInv, Accept
<1>5. \A k, l \in 1 .. Len(backlog') : backlog'[k] = backlog'[l] => k = l
  BY <1>1, <1>2, <1>3 DEF BacklogInv
<1> QED BY <1>4, <1>5 DEF BacklogInv

\* A client that connects was not waiting.
LEMMA ConnectBacklog ==
    ASSUME TypeOK, BacklogInv, NEW c \in Client, Connect(c)
    PROVE  BacklogInv'
<1>1. /\ backlog \in Seq(Client)
      /\ conn \in [Client -> Conn]
      /\ conn[c].phase # "waiting"
      /\ conn' = [conn EXCEPT ![c].phase = "waiting"]
      /\ backlog' = Append(backlog, c)
  BY DEF Connect, Moves, TypeOK
<1>2. /\ Len(backlog') = Len(backlog) + 1
      /\ \A k \in 1 .. Len(backlog) : backlog'[k] = backlog[k]
      /\ backlog'[Len(backlog) + 1] = c
  BY <1>1, AppendProperties
<1>3. \A k \in 1 .. Len(backlog) : backlog[k] \in Client /\ backlog[k] # c
  BY <1>1 DEF BacklogInv
<1>4. conn'[c].phase = "waiting" /\ \A d \in Client \ {c} : conn'[d] = conn[d]
  BY <1>1 DEF Conn
<1>5. \A k \in 1 .. Len(backlog') : k \in 1 .. Len(backlog) \/ k = Len(backlog) + 1
  BY <1>1, <1>2
<1>6. \A k \in 1 .. Len(backlog') : conn'[backlog'[k]].phase = "waiting"
  BY <1>2, <1>3, <1>4, <1>5 DEF BacklogInv
<1>7. \A k, l \in 1 .. Len(backlog') : backlog'[k] = backlog'[l] => k = l
  BY <1>2, <1>3, <1>5 DEF BacklogInv
<1> QED BY <1>6, <1>7 DEF BacklogInv

\* A session that goes on is not among those that wait.
LEMMA SessionBacklog ==
    ASSUME TypeOK, BacklogInv, NEW c \in Client,
           conn[c].phase # "waiting", backlog' = backlog,
           \A d \in Client \ {c} : conn'[d] = conn[d]
    PROVE  BacklogInv'
<1>1. \A k \in 1 .. Len(backlog) : backlog[k] \in Client \ {c}
  BY DEF TypeOK, BacklogInv
<1> QED BY <1>1 DEF BacklogInv

-----------------------------------------------------------------------------
\* The account of what was stored

\* Accept begins a session for a client that waited, and with no answer due.
LEMMA AcceptLedger ==
    ASSUME TypeOK, BacklogInv, LedgerInv, Accept
    PROVE  LedgerInv'
<1>1. backlog \in Seq(Client) /\ backlog # <<>> /\ conn \in [Client -> Conn]
  BY DEF Accept, TypeOK
<1>2. Head(backlog) \in Client /\ conn[Head(backlog)].phase = "waiting"
  BY <1>1, HeadTailProperties DEF BacklogInv
<1>3. conn' = [conn EXCEPT ![Head(backlog)] = newSession] /\ UNCHANGED historyVars
  BY DEF Accept
<1>4. \A c \in Client : /\ Answering(c)' = Answering(c)
                        /\ conn'[c].phase \in {"handling", "replying"} =>
                              conn'[c] = conn[c]
  BY <1>1, <1>2, <1>3 DEF newSession, NoConn, Answering
<1> QED BY <1>3, <1>4 DEF LedgerInv, historyVars

\* A connection that is cut before its reply counts as a lost answer.
LEMMA CutLedger ==
    ASSUME TypeOK, LedgerInv, NEW phases, Cut(phases)
    PROVE  LedgerInv'
<1> SUFFICES ASSUME NEW c \in Client
             PROVE  /\ stored'[c] = lost'[c] + IF acked'[c] = "queued" \/ Answering(c)'
                                               THEN 1 ELSE 0
                    /\ conn'[c].phase \in {"handling", "replying"} => acked'[c] = "none"
  BY DEF LedgerInv
<1>1. /\ stored[c] \in Nat /\ lost[c] \in Nat /\ conn[c] \in Conn
      /\ stored'[c] = stored[c] /\ acked'[c] = acked[c]
  BY DEF TypeOK, Cut
<1>2. CASE conn[c].phase \notin phases
  <2>1. conn'[c] = conn[c] /\ lost'[c] = lost[c]
    BY <1>2 DEF Cut
  <2> QED BY <1>1, <2>1 DEF LedgerInv, Answering
<1>3. CASE conn[c].phase \in phases
  <2>1. conn'[c].phase = "ended"
    BY <1>1, <1>3 DEF Cut, Conn
  <2>2. lost'[c] = IF Answering(c) THEN lost[c] + 1 ELSE lost[c]
    BY <1>3 DEF Cut, Answering
  <2>3. Answering(c) => acked[c] = "none"
    BY DEF LedgerInv, Answering
  <2> QED BY <1>1, <2>1, <2>2, <2>3 DEF LedgerInv, Answering
<1> QED BY <1>2, <1>3

\* What one client and its session do changes only its own account.
LEMMA OneLedger ==
    ASSUME LedgerInv, NEW c \in Client,
           \A d \in Client \ {c} : /\ conn'[d] = conn[d]
                                   /\ stored'[d] = stored[d]
                                   /\ acked'[d] = acked[d]
                                   /\ lost'[d] = lost[d],
           stored'[c] = lost'[c] + IF acked'[c] = "queued" \/ Answering(c)'
                                   THEN 1 ELSE 0,
           conn'[c].phase \in {"handling", "replying"} => acked'[c] = "none"
    PROVE  LedgerInv'
BY DEF LedgerInv, Answering

\* Every step of a client and its session balances the account.
LEMMA ClientLedger ==
    ASSUME TypeOK, LedgerInv, NEW c \in Client,
           Connect(c) \/ StartTLS(c) \/ Authenticate(c) \/ Step(c)
    PROVE  LedgerInv'
<1>1. /\ conn \in [Client -> Conn] /\ conn[c] \in Conn
      /\ stored \in [Client -> Nat] /\ lost \in [Client -> Nat]
      /\ acked \in [Client -> Answer]
      /\ stored[c] = lost[c] + IF acked[c] = "queued" \/ Answering(c) THEN 1 ELSE 0
      /\ conn[c].phase \in {"handling", "replying"} => acked[c] = "none"
  BY DEF TypeOK, LedgerInv
<1>2. CASE Connect(c) \/ EndSession(c)
  <2>1. /\ conn[c].phase \in {"none", "ended", "serving"}
        /\ conn'[c].phase \in {"waiting", "ended"}
        /\ \A d \in Client \ {c} : conn'[d] = conn[d]
        /\ UNCHANGED historyVars
    BY <1>1, <1>2 DEF Connect, EndSession, Session, Moves, Conn
  <2> QED BY <1>1, <2>1, OneLedger DEF Answering, historyVars
<1>3. CASE StartTLS(c) \/ Authenticate(c)
  <2>1. /\ conn[c].phase = "serving" /\ conn'[c].phase = "serving"
        /\ \A d \in Client \ {c} : conn'[d] = conn[d]
        /\ UNCHANGED historyVars
    BY <1>1, <1>3 DEF StartTLS, Authenticate, Session, Conn
  <2> QED BY <1>1, <2>1, OneLedger DEF Answering, historyVars
<1>4. CASE Deliver(c) \/ DeliverChunks(c)
  <2>1. /\ conn[c].phase = "serving"
        /\ \/ conn'[c].phase = "handling"
           \/ conn'[c].phase = "replying" /\ conn'[c].answer = "chunks"
        /\ \A d \in Client \ {c} : conn'[d] = conn[d]
        /\ UNCHANGED <<stored, acked, lost>>
        /\ acked[c] = "none"
    BY <1>1, <1>4 DEF Deliver, DeliverChunks, Pending, Session, Moves, Conn
  <2> QED BY <1>1, <2>1, OneLedger DEF Answering
<1>5. CASE Handle(c)
  <2>1. PICK ok \in BOOLEAN :
           /\ stored' = [stored EXCEPT ![c] = @ + IF ok THEN 1 ELSE 0]
           /\ conn' = [conn EXCEPT ![c].phase = "replying",
                                  ![c].answer = IF ok THEN "queued" ELSE "none"]
    BY <1>5 DEF Handle
  <2>2. /\ conn[c].phase = "handling"
        /\ conn'[c].phase = "replying"
        /\ conn'[c].answer = IF ok THEN "queued" ELSE "none"
        /\ stored'[c] = stored[c] + IF ok THEN 1 ELSE 0
        /\ \A d \in Client \ {c} : conn'[d] = conn[d] /\ stored'[d] = stored[d]
        /\ UNCHANGED <<acked, lost>>
    BY <1>1, <1>5, <2>1 DEF Handle, Session, Conn
  <2>3. /\ acked[c] = "none" /\ acked'[c] = "none"
        /\ Answering(c)' = ok /\ ~Answering(c)
    BY <1>1, <2>2 DEF Answering
  <2>4. stored'[c] = lost'[c] + IF acked'[c] = "queued" \/ Answering(c)' THEN 1 ELSE 0
    BY <1>1, <2>2, <2>3
  <2> QED BY <2>2, <2>3, <2>4, OneLedger
<1>6. CASE Reply(c)
  <2>1. /\ conn[c].phase = "replying" /\ conn'[c].phase = "serving"
        /\ acked'[c] = conn[c].answer
        /\ \A d \in Client \ {c} : conn'[d] = conn[d] /\ acked'[d] = acked[d]
        /\ UNCHANGED <<stored, lost>>
    BY <1>1, <1>6 DEF Reply, Session, Moves, Conn, AnswerOf
  <2> QED BY <1>1, <2>1, OneLedger DEF Answering
<1>7. CASE ReplyLost(c)
  <2>1. /\ conn[c].phase = "replying" /\ conn'[c].phase = "ended"
        /\ lost'[c] = lost[c] + IF conn[c].answer = "queued" THEN 1 ELSE 0
        /\ \A d \in Client \ {c} : conn'[d] = conn[d] /\ lost'[d] = lost[d]
        /\ UNCHANGED <<stored, acked>>
    BY <1>1, <1>7 DEF ReplyLost, Session, Moves, Conn
  <2> QED BY <1>1, <2>1, OneLedger DEF Answering
<1> QED BY <1>2, <1>3, <1>4, <1>5, <1>6, <1>7 DEF Step

-----------------------------------------------------------------------------
\* Authentication

\* While the server is set up there are no sessions yet, so whatever the
\* program changes, no message is being handled (NewServer, Auth).
LEMMA SetupAuth ==
    ASSUME TypeOK, AuthInv,
           \/ \E limits \in {<<>>} \cup {<<l>> : l \in GivenLimits}
                              \cup {<<l, l>> : l \in GivenLimits} :
                 NewServer(limits)
           \/ \E f \in BOOLEAN, mechs \in SUBSET Mechanism : Auth(f, mechs)
           \/ \E set \in BOOLEAN : AssignField(set)
    PROVE  AuthInv'
<1>1. /\ UNCHANGED <<proc, ln, conn>>
      /\ proc = "setup" /\ ln = "none" /\ \A c \in Client : conn[c] = NoConn
  BY DEF NewServer, Auth, AssignField, Setup, AuthInv
<1>2. authOn' => srv'.authMechanisms # {}
  <2>1. CASE \E limits : NewServer(limits)
    BY <2>1 DEF NewServer
  <2>2. CASE \E f \in BOOLEAN, mechs \in SUBSET Mechanism : Auth(f, mechs)
    <3>1. PICK f \in BOOLEAN, mechs \in SUBSET Mechanism : Auth(f, mechs)
      BY <2>2
    <3>2. (IF mechs = {} THEN SupportedAuthMechanisms ELSE mechs) # {}
      BY DEF SupportedAuthMechanisms
    <3>3. UNCHANGED <<srv, authOn>> \/ srv' = AuthSet(f, mechs)
      BY <3>1 DEF Auth
    <3>4. /\ srv' = AuthSet(f, mechs) => srv'.authMechanisms # {}
          /\ srv' = srv /\ authOn' = authOn => (authOn' => srv'.authMechanisms # {})
      BY <3>2 DEF AuthSet, TypeOK, AuthInv
    <3> QED BY <3>3, <3>4
  <2>3. CASE \E set \in BOOLEAN : AssignField(set)
    <3>1. PICK set \in BOOLEAN : AssignField(set)
      BY <2>3
    <3>2. srv'.authMechanisms = srv.authMechanisms
      BY <3>1 DEF AssignField, TypeOK
    <3>3. authOn' = authOn /\ (authOn => srv.authMechanisms # {})
      BY <3>1 DEF AssignField, AuthInv
    <3> QED BY <3>2, <3>3
  <2> QED BY <2>1, <2>2, <2>3
<1>3. \A c \in Client : /\ conn'[c].phase = "none"
                        /\ ~conn'[c].authenticated
  BY <1>1 DEF NoConn
<1> QED BY <1>1, <1>2, <1>3 DEF AuthInv, AuthEnforced

\* After that the server is not changed, and a step may only add sessions that
\* are not handling anything, end some, or move one that is authenticated.
LEMMA ServingAuth ==
    ASSUME TypeOK, AuthInv, UNCHANGED <<srv, authOn>>,
           proc' = "setup" => proc = "setup" /\ UNCHANGED <<ln, conn>>,
           \A c \in Client :
              /\ conn'[c].authenticated => conn'[c].tls
              /\ conn'[c].phase = "handling" =>
                    \/ conn'[c] = conn[c]
                    \/ /\ srv.authMechanisms # {} => conn[c].authenticated
                       /\ conn'[c].authenticated = conn[c].authenticated
                       /\ conn'[c].tls = conn[c].tls
    PROVE  AuthInv'
BY DEF AuthInv, AuthEnforced

\* The accept loop and the end of the process (Serve).
LEMMA LoopAuth ==
    ASSUME TypeOK, AuthInv,
           \/ Accept \/ AcceptTemporary \/ AcceptFails \/ Exit
           \/ \E c \in Client : Panic(c)
           \/ Serve \/ \E ok \in BOOLEAN : ListenAndServe(ok)
    PROVE  AuthInv'
<1>1. /\ conn \in [Client -> Conn]
      /\ \A c \in Client : conn[c] \in Conn
      /\ \A c \in Client : conn[c].authenticated => conn[c].tls
  BY DEF TypeOK, AuthInv
<1>2. CASE Accept
  <2>1. UNCHANGED <<srv, authOn, proc, ln>> /\ proc # "setup"
    BY <1>2 DEF Accept, serverVars
  <2>2. \A c \in Client : conn'[c] = conn[c] \/ conn'[c] = newSession
    BY <1>1, <1>2 DEF Accept
  <2>3. newSession.phase = "serving" /\ ~newSession.authenticated
    BY DEF newSession, NoConn
  <2> QED BY <1>1, <2>1, <2>2, <2>3, ServingAuth
<1>3. CASE \/ AcceptTemporary \/ Serve \/ \E ok \in BOOLEAN : ListenAndServe(ok)
  <2>1. UNCHANGED <<srv, authOn, conn>> /\ proc' # "setup"
    BY <1>3 DEF AcceptTemporary, Serve, ListenAndServe
  <2> QED BY <1>1, <2>1, ServingAuth
<1>4. ASSUME NEW phases, Cut(phases), UNCHANGED <<srv, authOn>>,
             proc' # "setup"
      PROVE  AuthInv'
  <2>1. \A c \in Client : \/ conn'[c] = conn[c]
                          \/ conn'[c] = [conn[c] EXCEPT !.phase = "ended"]
    BY <1>4 DEF Cut
  <2>2. \A c \in Client : /\ conn'[c].authenticated = conn[c].authenticated
                          /\ conn'[c].tls = conn[c].tls
                          /\ conn'[c] = conn[c] \/ conn'[c].phase = "ended"
    BY <1>1, <2>1 DEF Conn
  <2> QED BY <1>1, <1>4, <2>2, ServingAuth
<1>5. CASE AcceptFails
  BY <1>4, <1>5 DEF AcceptFails
<1>6. CASE Dies
  BY <1>4, <1>6 DEF Dies
<1> QED BY <1>2, <1>3, <1>5, <1>6 DEF Exit, Panic

\* A message reaches Handler only from a session that authenticated, if the
\* server has mechanisms, and sessions authenticate only over TLS.
LEMMA ClientAuth ==
    ASSUME TypeOK, AuthInv, NEW c \in Client,
           Connect(c) \/ StartTLS(c) \/ Authenticate(c) \/ Step(c)
    PROVE  AuthInv'
<1>1. /\ conn \in [Client -> Conn] /\ conn[c] \in Conn
      /\ \A d \in Client : conn[d].authenticated => conn[d].tls
      /\ UNCHANGED <<proc, srv, ln, authOn>>
  BY DEF TypeOK, AuthInv, Connect, StartTLS, Authenticate, Step, Deliver,
         DeliverChunks, Handle, Reply, ReplyLost, EndSession, Session, serverVars
<1>2. proc # "setup"
  BY DEF AuthInv, NoConn, Connect, StartTLS, Authenticate, Step, Deliver,
         DeliverChunks, Handle, Reply, ReplyLost, EndSession, Session
<1>3. \A d \in Client \ {c} : conn'[d] = conn[d]
  BY <1>1 DEF Connect, StartTLS, Authenticate, Step, Deliver, DeliverChunks,
              Handle, Reply, ReplyLost, EndSession, Moves
<1>4. CASE StartTLS(c) \/ Authenticate(c)
  <2>1. /\ conn'[c].phase = "serving"
        /\ conn'[c].authenticated => conn'[c].tls
    BY <1>1, <1>4 DEF StartTLS, Authenticate, Session, Conn
  <2> QED BY <1>1, <1>2, <1>3, <2>1, ServingAuth
<1>5. CASE Connect(c) \/ Step(c)
  <2>1. /\ conn'[c].authenticated = conn[c].authenticated
        /\ conn'[c].tls = conn[c].tls
    BY <1>1, <1>5 DEF Connect, Step, Deliver, DeliverChunks, Handle, Reply, ReplyLost,
                      EndSession, Moves, Conn
  <2>2. CASE conn'[c].phase # "handling"
    BY <1>1, <1>2, <1>3, <2>1, <2>2, ServingAuth
  <2>3. CASE Deliver(c)
    BY <1>1, <1>2, <1>3, <2>1, <2>3, ServingAuth DEF Deliver
  <2>4. CASE \/ Connect(c) \/ DeliverChunks(c) \/ Handle(c)
             \/ Reply(c) \/ ReplyLost(c) \/ EndSession(c)
    <3>1. conn'[c].phase \in {"waiting", "replying", "serving", "ended"}
      BY <1>1, <2>4 DEF Connect, DeliverChunks, Handle, Reply, ReplyLost, EndSession,
                        Moves, Conn
    <3> QED BY <2>2, <3>1
  <2> QED BY <1>5, <2>3, <2>4 DEF Step
<1> QED BY <1>4, <1>5

-----------------------------------------------------------------------------
\* A server that was just created has no sessions and no history.
LEMMA InitServerInv == Init => ServerInv
<1> SUFFICES ASSUME Init PROVE ServerInv
  OBVIOUS
<1>1. TypeOK
  <2>1. conn \in [Client -> Conn]
    BY NewSessionType DEF Init
  <2>2. /\ stored \in [Client -> Nat] /\ lost \in [Client -> Nat]
        /\ tries \in [Client -> Nat] /\ acked \in [Client -> Answer]
    BY DEF Init, Answer
  <2>3. backlog \in Seq(Client)
    BY DEF Init
  <2> QED BY <2>1, <2>2, <2>3 DEF Init, TypeOK
<1>2. BacklogInv /\ LedgerInv
  BY DEF Init, BacklogInv, LedgerInv, Answering, NoConn
<1>3. AuthInv
  BY DEF Init, AuthInv, AuthEnforced, NoConn
<1> QED BY <1>1, <1>2, <1>3 DEF ServerInv

\* Every step of the program, the accept loop, a session or a client keeps the
\* invariant.
LEMMA NextServerInv == ServerInv /\ [Next]_vars => ServerInv'
<1> SUFFICES ASSUME ServerInv, [Next]_vars PROVE ServerInv'
  OBVIOUS
<1>1. TypeOK /\ BacklogInv /\ LedgerInv /\ AuthInv
  BY DEF ServerInv
<1>2. CASE \/ \E limits \in {<<>>} \cup {<<l>> : l \in GivenLimits}
                               \cup {<<l, l>> : l \in GivenLimits} :
                 NewServer(limits)
           \/ \E f \in BOOLEAN, mechs \in SUBSET Mechanism : Auth(f, mechs)
           \/ \E set \in BOOLEAN : AssignField(set)
  <2>1. TypeOK' /\ AuthInv'
    BY <1>1, <1>2, SetupType, SetupAuth
  <2>2. UNCHANGED <<backlog, conn, historyVars>>
    BY <1>2 DEF NewServer, Auth, AssignField, Setup
  <2> QED BY <1>1, <2>1, <2>2
          DEF ServerInv, BacklogInv, LedgerInv, Answering, historyVars
<1>3. CASE Serve \/ \E ok \in BOOLEAN : ListenAndServe(ok)
  <2>1. TypeOK' /\ AuthInv'
    BY <1>1, <1>3, SetupType, LoopAuth
  <2>2. UNCHANGED <<backlog, conn, historyVars>>
    BY <1>3 DEF Serve, ListenAndServe
  <2> QED BY <1>1, <2>1, <2>2
          DEF ServerInv, BacklogInv, LedgerInv, Answering, historyVars
<1>4. CASE Accept
  BY <1>1, <1>4, LoopType, LoopAuth, AcceptBacklog, AcceptLedger DEF ServerInv
<1>5. CASE AcceptTemporary
  <2>1. TypeOK' /\ AuthInv'
    BY <1>1, <1>5, LoopType, LoopAuth
  <2>2. UNCHANGED <<backlog, conn, historyVars>>
    BY <1>5 DEF AcceptTemporary
  <2> QED BY <1>1, <2>1, <2>2
          DEF ServerInv, BacklogInv, LedgerInv, Answering, historyVars
<1>6. CASE AcceptFails \/ Exit \/ \E c \in Client : Panic(c)
  <2>1. TypeOK' /\ AuthInv'
    BY <1>1, <1>6, LoopType, LoopAuth
  <2>2. PICK phases : Cut(phases)
    BY <1>6 DEF AcceptFails, Exit, Panic, Dies
  <2>3. BacklogInv'
    BY <2>2 DEF Cut, BacklogInv
  <2> QED BY <1>1, <2>1, <2>2, <2>3, CutLedger DEF ServerInv
<1>7. ASSUME NEW c \in Client,
             Connect(c) \/ StartTLS(c) \/ Authenticate(c) \/ Step(c)
      PROVE  ServerInv'
  <2>1. TypeOK' /\ LedgerInv' /\ AuthInv'
    BY <1>1, <1>7, ClientType, ClientLedger, ClientAuth
  <2>2. CASE Connect(c)
    BY <1>1, <2>1, <2>2, ConnectBacklog DEF ServerInv
  <2>3. CASE StartTLS(c) \/ Authenticate(c) \/ Step(c)
    <3>1. /\ conn[c].phase # "waiting" /\ backlog' = backlog
          /\ \A d \in Client \ {c} : conn'[d] = conn[d]
      BY <1>1, <2>3 DEF TypeOK, StartTLS, Authenticate, Step, Deliver,
                        DeliverChunks, Handle, Reply, ReplyLost, EndSession, Moves,
                        Session
    <3> QED BY <1>1, <2>1, <3>1, SessionBacklog DEF ServerInv
  <2> QED BY <1>7, <2>2, <2>3
<1>8. CASE UNCHANGED vars
  <2>1. TypeOK'
    BY <1>1, <1>8, StutterType
  <2> QED BY <1>1, <1>8, <2>1
          DEF ServerInv, BacklogInv, LedgerInv, AuthInv, AuthEnforced, Answering,
              vars, serverVars, historyVars
<1> QED BY <1>2, <1>3, <1>4, <1>5, <1>6, <1>7, <1>8 DEF Next, Program, Stopped

\* In every state of the server the account of what Handler stored is even, chunks
\* that were answered 250 being in no account, nobody waits twice for Accept, and
\* a server on which Auth succeeded has mechanisms (Serve, Auth, handleData,
\* handleBdat).
THEOREM ServerInvariant == Spec => []ServerInv
BY InitServerInv, NextServerInv, PTL DEF Spec

\* No message is stored more often than once and once for each lost answer to DATA,
\* for any number of clients, attempts and errors, through panics and the end of
\* the process (handleData, Serve).
THEOREM MailIsStoredOnce == Spec => []StoredOnce
<1>1. ServerInv => StoredOnce
  <2> SUFFICES ASSUME ServerInv, NEW c \in Client
               PROVE  stored[c] <= lost[c] +
                          IF acked[c] = "queued" \/ conn[c].phase = "replying"
                          THEN 1 ELSE 0
    BY DEF StoredOnce
  <2>1. stored[c] = lost[c] + IF acked[c] = "queued" \/ Answering(c) THEN 1 ELSE 0
    BY DEF ServerInv, LedgerInv
  <2>2. lost[c] \in Nat
    BY DEF ServerInv, TypeOK
  <2> QED BY <2>1, <2>2 DEF Answering
<1> QED BY <1>1, ServerInvariant, PTL

\* On a server where Auth succeeded, Handler is called only for clients that
\* authenticated over TLS, even if Auth was given nil or the fields were assigned
\* or set to nil besides, in whichever order (Auth, handleAuth).
THEOREM AuthIsEnforced == Spec => []AuthEnforced
<1>1. ServerInv => AuthEnforced
  BY DEF ServerInv, AuthInv
<1> QED BY <1>1, ServerInvariant, PTL

=============================================================================
