-------------------------- MODULE ServiceRefinement --------------------------
(***************************************************************************)
(* Session implements MailService.  The abstract transaction is the one the *)
(* replies have told the client of.                                         *)
(***************************************************************************)
EXTENDS Session

ServicePhase == IF pc \in Terminal THEN "ended"
                ELSE IF pc = "data" THEN "text"
                ELSE IF told.mail THEN "sender"
                ELSE "idle"

ServiceRcpts == IF pc \in Terminal THEN <<>> ELSE told.rcpts

Service == INSTANCE MailService
           WITH Recipient <- Address,
                phase     <- ServicePhase,
                rcpts     <- ServiceRcpts,
                trusted   <- helloSeen /\ Secured,
                given     <- {h.env.MailTo : h \in handed}

\* Every behaviour of a session is one of the abstract service: the handlers
\* of MAIL, RCPT, DATA and the resets, with lost replies and panics, together
\* keep the promise about what reaches Handler, for whom and how often.
ServiceSpec == Service!Spec

=============================================================================
