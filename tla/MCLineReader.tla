---------------------------- MODULE MCLineReader ----------------------------
(***************************************************************************)
(* LineReader on lines of up to MaxTokens words and spaces.                 *)
(***************************************************************************)
EXTENDS LineReader

CONSTANT MaxTokens

LowerCase == [mail |-> "MAIL", noop |-> "NOOP"]

VerbSet == {Verbs[c] : c \in DOMAIN Verbs}

Words == VerbSet \cup DOMAIN LowerCase \cup {"", "x", "xy", "nonASCII"}

UpperCase == [w \in Words |-> IF w \in DOMAIN LowerCase THEN LowerCase[w] ELSE w]

\* One character less; what a verb loses makes it a word of no use.
Shorter == [w \in Words |-> IF w \in {"", "x"} THEN "" ELSE "x"]

\* Any word in front, and behind it words and runs of spaces
Rests == {t \in UNION {[1 .. n -> {"x", "xy", SP}] : n \in 0 .. MaxTokens - 1} :
             \A i \in 1 .. Len(t) : i % 2 = 1 => t[i] = SP}

Texts == {<<>>} \cup {<<w>> \o r : w \in (Words \ {""}) \cup {SP}, r \in Rests}

Ends == {<<LF>>, <<CR, LF>>, <<CR, CR, LF>>, <<TAB, CR, LF>>, <<TAB, SP, CR, LF>>}

AllLines == {t \o end : t \in Texts, end \in Ends}

=============================================================================
