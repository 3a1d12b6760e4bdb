-------------------------------- MODULE Wrap --------------------------------
(***************************************************************************)
(* wrap of utils.go, which folds the Received header in place: a space past *)
(* the width is replaced by CR LF TAB, while the loop runs over the slice    *)
(* that grows under it.  One step is one iteration; i counts from 1.         *)
(***************************************************************************)
EXTENDS Integers, Sequences

CONSTANTS
    Octet,  \* octets of a header
    Texts,  \* the headers to fold
    Width   \* 76 in the code

SP == " "
CR == "CR"
LF == "LF"
TAB == "TAB"

ASSUME WrapAssumption == /\ {SP, CR, LF, TAB} \subseteq Octet
                         /\ Texts \subseteq Seq(Octet)
                         /\ Width \in Nat

VARIABLES
    text,    \* the argument
    sl,      \* the slice
    i,       \* the octet to look at
    length,  \* octets since the last line break
    at       \* history: where in sl the octets of text seen so far are now

vars == <<text, sl, i, length, at>>

Init == /\ text \in Texts
        /\ sl = text
        /\ i = 1
        /\ length = 0
        /\ at = <<>>

\* Mutant: the space moves on with the rest
SpliceKeepsSpace(s, n) ==
    SubSeq(s, 1, n - 1) \o <<CR, LF, TAB>> \o SubSeq(s, n, Len(s))

\* Mutant: the copy is left out, and two of the zeros appended remain
SpliceWithoutCopy(s, n) ==
    LET t == s \o <<"NUL", "NUL">>
    IN SubSeq(t, 1, n - 1) \o <<CR, LF, TAB>> \o SubSeq(t, n + 3, Len(t))

\* append, copy and the three assignments: octet n of s becomes three
Splice(s, n) ==
    SubSeq(s, 1, n - 1) \o <<CR, LF, TAB>> \o SubSeq(s, n + 1, Len(s))

\* Mutant: compared with the width before the break
TooLongByOne == length > Width + 1

TooLong == length > Width

Break == /\ i <= Len(sl)
         /\ TooLong /\ sl[i] = SP
         /\ sl' = Splice(sl, i)
         /\ i' = i + 3
         /\ length' = 1
         /\ at' = Append(at, i)
         /\ UNCHANGED text

\* Mutant: the loop does not advance past a line break
KeepStuck == /\ i <= Len(sl)
             /\ ~(TooLong /\ sl[i] = SP)
             /\ length' = IF sl[i] = LF THEN 1 ELSE length + 1
             /\ i' = IF sl[i] = LF THEN i ELSE i + 1
             /\ at' = IF sl[i] = LF THEN at ELSE Append(at, i)
             /\ UNCHANGED <<text, sl>>

Keep == /\ i <= Len(sl)
        /\ ~(TooLong /\ sl[i] = SP)
        /\ length' = IF sl[i] = LF THEN 1 ELSE length + 1
        /\ i' = i + 1
        /\ at' = Append(at, i)
        /\ UNCHANGED <<text, sl>>

Returned == i > Len(sl)

Next == Break \/ Keep \/ (Returned /\ UNCHANGED vars)

Spec == Init /\ [][Next]_vars

\* The loop runs to its end.
FairSpec == Spec /\ WF_vars(Next)

-----------------------------------------------------------------------------
TypeOK == /\ text \in Texts
          /\ sl \in Seq(Octet)
          /\ i \in Nat \ {0}
          /\ length \in Nat
          /\ at \in Seq(Nat \ {0})

\* How many octets octet k of text takes in sl, where it now begins at at[k]
Taken(k) == (IF k < Len(at) THEN at[k + 1] ELSE i) - at[k]

\* Folding is undone by reading CR LF TAB as a space: the octets of the header
\* follow each other in sl, in order and without a gap, each as it was or, for
\* a space, as CR LF TAB; what the loop has not reached is as it was.
Unfolds ==
    /\ at = <<>> => i = 1
    /\ at # <<>> => at[1] = 1
    /\ \A k \in 1 .. Len(at) :
          \/ Taken(k) = 1 /\ sl[at[k]] = text[k]
          \/ /\ Taken(k) = 3 /\ text[k] = SP
             /\ sl[at[k]] = CR /\ sl[at[k] + 1] = LF /\ sl[at[k] + 2] = TAB
    /\ Len(sl) - i = Len(text) - Len(at) - 1
    /\ \A n \in i .. Len(sl) : sl[n] = text[Len(at) + 1 + n - i]

\* No line could have been broken earlier: at most Width octets of its line
\* come before a space that was kept.
BrokenInTime ==
    \A n \in 1 .. i - 1 :
        sl[n] = SP => \/ n <= Width + 1
                      \/ \E m \in 1 .. n - 1 : m >= n - Width - 1 /\ sl[m] = LF

\* The loop ends, though its bound moves away whenever a line is broken.
Ends == <>Returned

-----------------------------------------------------------------------------
\* The inductive invariant behind Unfolds and BrokenInTime

\* What was placed lies before the octet to look at, which is in sl or just
\* past its end.
PlacedInv == /\ i <= Len(sl) + 1
             /\ \A k \in 1 .. Len(at) : at[k] < i

\* length counts from the last line break, or from the start; the TAB of a line
\* that was folded is not counted.
LengthInv == \/ i <= length + 1
             \/ \E m \in 1 .. i - 1 : sl[m] = LF /\ i - m <= length + 1

WrapInv == TypeOK /\ PlacedInv /\ LengthInv /\ Unfolds /\ BrokenInTime

=============================================================================
