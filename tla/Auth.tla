-------------------------------- MODULE Auth --------------------------------
(***************************************************************************)
(* The AUTH command (handleAuth in session.go, auth.go).  A client's        *)
(* credentials are abstracted to the user name and to whether they decode;  *)
(* the Authenticator callback answers "ok", "no" or "err".                  *)
(***************************************************************************)
EXTENDS SessionState

\* No step of AUTH touches these
authFrame == <<srv, client, helloSeen, bodyType, tls, envelope, told>>

AuthStep == handed' = {} /\ UNCHANGED authFrame

\* Mutant: AUTH is accepted without TLS
AuthRefusalInClear(mech, n) ==
    IF ~AuthRequired THEN "FailCmdNotSupported"
    ELSE IF authenticated THEN "FailBadSequence"
    ELSE IF n = 0 THEN "FailMissingArgument"
    ELSE IF mech \notin srv.authMechanisms THEN "ErrorCmdParamNotImplemented"
    ELSE ""

\* Mutant: a second AUTH is accepted
AuthRefusalRepeated(mech, n) ==
    IF ~tls THEN "FailEncryptionNeeded"
    ELSE IF ~AuthRequired THEN "FailCmdNotSupported"
    ELSE IF n = 0 THEN "FailMissingArgument"
    ELSE IF mech \notin srv.authMechanisms THEN "ErrorCmdParamNotImplemented"
    ELSE ""

\* Replies of handleAuth before any mechanism runs, "" if it goes on.
\* n is the number of arguments, mech the first of them.
AuthRefusal(mech, n) ==
    IF ~tls THEN "FailEncryptionNeeded"
    ELSE IF ~AuthRequired THEN "FailCmdNotSupported"
    ELSE IF authenticated THEN "FailBadSequence"
    ELSE IF n = 0 THEN "FailMissingArgument"
    ELSE IF mech \notin srv.authMechanisms THEN "ErrorCmdParamNotImplemented"
    ELSE ""

\* Both mechanisms store the user name before they ask the Authenticator; to
\* call one that is nil panics.
checkLogin(user, verdict) ==
    /\ username' = user
    /\ \/ ~srv.Authenticator /\ Panics /\ UNCHANGED authenticated
       \/ /\ srv.Authenticator
          /\ authenticated' = (authenticated \/ verdict = "ok")
          /\ CASE verdict = "ok"  -> Out(<<"SuccessAuthentication">>, state)
               [] verdict = "no"  -> Out(<<"FailAuthentication">>, state)
               [] verdict = "err" -> OutThen(<<"ErrorAuth">>, "Aborted")
          /\ Handled
    /\ UNCHANGED bad

\* A dialogue that ends before the Authenticator is asked
Malformed(reply, st) == /\ Out(<<reply>>, st)
                        /\ Handled
                        /\ UNCHANGED peerVars

\* ReadLine fails in the middle of a dialogue
DialogueAborts == /\ state' = "Aborted"
                  /\ Silent
                  /\ Handled
                  /\ UNCHANGED <<peerVars, bad>>

\* Ask for the next line of the dialogue and wait for it at "at"
Prompt(user, at) == /\ Out(<<"334">>, state)
                    /\ local' = [NoLocal EXCEPT !.login = user]
                    /\ pc' = at
                    /\ UNCHANGED <<deadline, bad, peerVars>>

\* AUTH LOGIN with n arguments.  With one, the user name is awaited without
\* a prompt; with two, it is the second argument.
handleLoginAuth(n) ==
    \/ /\ n = 1
       /\ pc' = "loginUser"
       /\ Silent
       /\ UNCHANGED <<state, deadline, local, bad, peerVars>>
    \/ /\ n = 2
       /\ \/ Malformed("501", state) /\ UNCHANGED bad
          \/ \E u \in Users : Prompt(u, "loginPass2")
    \/ /\ n > 2
       /\ \E v \in {"ok", "no", "err"} : checkLogin(NoUser, v)

\* AUTH PLAIN with n arguments.  Credentials without a separator have an empty
\* user name; more than two separators panic.
handlePlainAuth(n) ==
    \/ /\ n = 1
       /\ Prompt(NoUser, "plain")
    \/ /\ n = 2
       /\ \/ Malformed("501", state) /\ BadCommand
          \/ \E u \in Users \cup {NoUser}, v \in {"ok", "no", "err"} :
                checkLogin(u, v)
          \/ Panics /\ UNCHANGED <<bad, peerVars>>
    \/ /\ n > 2
       /\ \E v \in {"ok", "no", "err"} : checkLogin(NoUser, v)

handleAuth(mech, n) ==
    /\ Command
    /\ AuthStep
    /\ LET refusal == AuthRefusal(mech, n) IN
       \/ /\ refusal # ""
          /\ Malformed(refusal, state)
          /\ bad' = IF refusal = "FailCmdNotSupported" THEN bad + 1 ELSE bad
       \/ refusal = "" /\ mech = "LOGIN" /\ handleLoginAuth(n)
       \/ refusal = "" /\ mech = "PLAIN" /\ handlePlainAuth(n)

-----------------------------------------------------------------------------
\* The lines that follow the AUTH command: what is made of one that was read.

\* An index is out of range, as in a line of nothing but LF.
DialoguePanics == Panics /\ UNCHANGED <<bad, peerVars>>

LoginUserLine ==
    \/ Malformed("501", state) /\ BadCommand
    \/ \E u \in Users \cup {NoUser} : Prompt(u, "loginPass1")

LoginUser ==
    /\ pc = "loginUser"
    /\ AuthStep
    /\ \/ Receives /\ (LoginUserLine \/ DialoguePanics)
       \/ ReadError /\ DialogueAborts

LoginPassword1Line ==
    \/ Malformed("501", state) /\ UNCHANGED bad
    \/ \E v \in {"ok", "no", "err"} : checkLogin(local.login, v)

LoginPassword1 ==
    /\ pc = "loginPass1"
    /\ AuthStep
    /\ \/ Receives /\ (LoginPassword1Line \/ DialoguePanics)
       \/ ReadError /\ DialogueAborts

\* The password of the two-argument form: a failed read does not abort, a
\* password that does not decode does.
LoginPassword2Line ==
    \/ Malformed("501", "Aborted") /\ UNCHANGED bad
    \/ \E v \in {"ok", "no", "err"} : checkLogin(local.login, v)

LoginPassword2Fails == Malformed("FailLineTooLong", state) /\ BadCommand

LoginPassword2 ==
    /\ pc = "loginPass2"
    /\ AuthStep
    /\ \/ Receives /\ (LoginPassword2Line \/ DialoguePanics)
       \/ ReadError /\ LoginPassword2Fails

\* The response to the PLAIN prompt goes through parseCommand, so it must
\* begin with a verb (isCommand), and its credentials are the first of its n
\* arguments; a verb without an argument panics, as more than two separators do.
PlainLine(isCommand, n) ==
    \/ /\ ~isCommand
       /\ Malformed("FailUnrecognizedCmd", state)
       /\ BadCommand
    \/ /\ isCommand /\ n > 0
       /\ \/ Malformed("501", state) /\ BadCommand
          \/ \E u \in Users \cup {NoUser}, v \in {"ok", "no", "err"} :
                checkLogin(u, v)
    \/ isCommand /\ DialoguePanics

PlainResponse ==
    /\ pc = "plain"
    /\ AuthStep
    /\ \/ /\ Receives
          /\ \/ \E isCommand \in BOOLEAN, n \in {0, 1} : PlainLine(isCommand, n)
             \/ DialoguePanics
       \/ ReadError /\ DialogueAborts

AuthDialogue == LoginUser \/ LoginPassword1 \/ LoginPassword2 \/ PlainResponse

=============================================================================
