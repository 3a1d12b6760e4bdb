----------------------------- MODULE MailService -----------------------------
(***************************************************************************)
(* What a session promises to the client on one side and to the Handler of  *)
(* the embedding program on the other: a transaction collects recipients,   *)
(* its text is taken only from a trusted client and for a sender and        *)
(* recipients that were accepted, and it is given to Handler at most once,  *)
(* for exactly these recipients.  Commands, replies, limits, waits and      *)
(* panics are not visible here.                                             *)
(***************************************************************************)
EXTENDS Sequences

CONSTANT Recipient

VARIABLES
    phase,    \* "idle", "sender" (one was accepted), "text" or "ended"
    rcpts,    \* the recipients accepted so far
    trusted,  \* the client has shown all that the server demands of it
    given     \* the recipients of the message given to Handler by the last step

vars == <<phase, rcpts, trusted, given>>

Init == phase = "idle" /\ rcpts = <<>> /\ trusted = FALSE /\ given = {}

Open == phase # "ended"

\* Trust may be gained by any step and is never lost.
MayGainTrust == trusted' \in {trusted, TRUE}

\* A new sender starts a transaction over.
Begin == /\ phase \in {"idle", "sender"}
         /\ phase' = "sender"
         /\ rcpts' = <<>>
         /\ given' = {}
         /\ UNCHANGED trusted

\* A recipient may also come before the sender; such a transaction can only
\* be started over or ended.
AddRecipient(r) == /\ phase \in {"idle", "sender"}
                   /\ rcpts' = Append(rcpts, r)
                   /\ given' = {}
                   /\ UNCHANGED <<phase, trusted>>

TakeText == /\ phase = "sender" /\ rcpts # <<>> /\ trusted
            /\ phase' = "text"
            /\ given' = {}
            /\ UNCHANGED <<rcpts, trusted>>

RefuseText == /\ phase = "text"
              /\ phase' = "sender"
              /\ given' = {}
              /\ UNCHANGED <<rcpts, trusted>>

Deliver == /\ phase = "text"
           /\ given' = {rcpts}
           /\ phase' = "idle"
           /\ rcpts' = <<>>
           /\ UNCHANGED trusted

\* Start over without a sender; not while text is taken
Abandon == /\ phase \in {"idle", "sender"}
           /\ phase' = "idle"
           /\ rcpts' = <<>>
           /\ given' = {}
           /\ MayGainTrust

\* Anything that is not about the transaction
Other == /\ Open
         /\ given' = {}
         /\ MayGainTrust
         /\ UNCHANGED <<phase, rcpts>>

End == /\ Open
       /\ phase' = "ended"
       /\ rcpts' = <<>>
       /\ given' = {}
       /\ MayGainTrust

Next == \/ Begin
        \/ \E r \in Recipient : AddRecipient(r)
        \/ TakeText \/ RefuseText \/ Deliver
        \/ Abandon \/ Other \/ End

Spec == Init /\ [][Next]_vars

=============================================================================
