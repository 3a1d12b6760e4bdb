----------------------------- MODULE MCSession -----------------------------
(***************************************************************************)
(* Instances of Session for TLC.                                            *)
(***************************************************************************)
EXTENDS SessionClaims, ServiceRefinement

CONSTANTS a1, u1

Config(tlsConfig, implicit, only, mechs) ==
    [TLSConfig |-> tlsConfig, implicitTLS |-> implicit, TLSOnly |-> only,
     authMechanisms |-> mechs, Authenticator |-> TRUE, Handler |-> TRUE,
     RecipientChecker |-> TRUE]

\* A server without TLS, and the same without one of the callbacks
PlainServer == Config(FALSE, FALSE, FALSE, {})
NoHandlerServer == [PlainServer EXCEPT !.Handler = FALSE]
NoCheckerServer == [PlainServer EXCEPT !.RecipientChecker = FALSE]

\* A submission server that upgrades, and one behind a TLS listener
StartTLSServer == Config(TRUE, FALSE, TRUE, {"LOGIN", "PLAIN"})
TLSServer == Config(TRUE, TRUE, FALSE, {"LOGIN"})

\* The latter after Auth(nil, "LOGIN")
NoAuthenticatorServer == [TLSServer EXCEPT !.Authenticator = FALSE]

\* Optional encryption, mandatory encryption without authentication
RelayServer == Config(TRUE, FALSE, FALSE, {})
TLSOnlyServer == Config(TRUE, FALSE, TRUE, {})

Ext(name) == [name |-> name, num |-> 0, valid |-> TRUE, body |-> ""]
Size(n) == [Ext("SIZE") EXCEPT !.num = n]
Body(b) == [Ext("BODY") EXCEPT !.body = b]
Priority(n) == [Ext("MT-PRIORITY") EXCEPT !.num = n]

\* No extension, each kind of extension, and lists in which the loop stops
\* after it has already changed something
AllMailExts ==
    {<<>>, <<Ext("IGNORED"), Size(3)>>, <<Size(4)>>,
     <<[Ext("SIZE") EXCEPT !.valid = FALSE]>>,
     <<Body("8BITMIME"), Body("BINARYMIME")>>,
     <<Priority(0)>>, <<Priority(10)>>,
     <<Ext("UNKNOWN")>>, <<Body("BINARYMIME"), Ext("MALFORMED")>>,
     <<Ext("UNKNOWN"), Ext("MALFORMED")>>}

NoMailExts == {<<>>}

FewMailExts == {<<>>, <<Body("8BITMIME")>>, <<Body("BINARYMIME")>>}

AllRcptArgs ==
    {<<>>, <<Ext("MALFORMED")>>, <<Ext("UNKNOWN")>>,
     <<Ext("UNKNOWN"), Ext("IGNORED")>>, <<Ext("UNKNOWN"), Ext("MALFORMED")>>,
     <<Ext("UNKNOWN"), Ext("UNKNOWN")>>}

FewRcptArgs == {<<Ext("MALFORMED")>>, <<Ext("UNKNOWN")>>}

SomeChunks == {-1, 0, 1}

TransactionConfigs == {PlainServer}
UnsetConfigs == {NoHandlerServer, NoCheckerServer, NoAuthenticatorServer}
AuthConfigs == {StartTLSServer, TLSServer, TLSOnlyServer}
LivenessConfigs ==
    AuthConfigs \cup UnsetConfigs \cup {RelayServer}

=============================================================================
