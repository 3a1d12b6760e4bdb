------------------------------- MODULE MCWrap -------------------------------
(***************************************************************************)
(* Wrap for TLC: all headers of at most MaxLen octets.                      *)
(***************************************************************************)
EXTENDS Wrap

CONSTANT MaxLen

AllTexts == UNION {[1 .. n -> {"x", SP, LF}] : n \in 0 .. MaxLen}

=============================================================================
