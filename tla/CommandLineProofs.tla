-------------------------- MODULE CommandLineProofs --------------------------
(***************************************************************************)
(* What the operators of CommandLine return, for every alphabet of words    *)
(* and every line.                                                          *)
(***************************************************************************)
EXTENDS CommandLine, FiniteSetTheorems, SequenceTheorems,
        WellFoundedInduction, TLAPS

\* What lines are made of
Token == Word \cup White

-----------------------------------------------------------------------------
\* Trimming

\* The order of the naturals, as a set of pairs
Less == {ss \in Nat \X Nat : ss[1] < ss[2]}

\* The order is well-founded.
LEMMA LessWellFounded == IsWellFoundedOn({ss \in Nat \X Nat : ss[1] < ss[2]}, Nat)
BY NatLessThanWellFounded, Zenon DEF OpToRel

\* Every set of naturals has a smallest element.
LEMMA SmallestExists ==
    ASSUME NEW T, T \subseteq Nat, T # {}
    PROVE  \E t \in T : \A u \in T : ~(<<u, t>> \in Less)
<1>1. IsWellFoundedOn(Less, Nat)
  BY LessWellFounded, Zenon DEF Less
<1> QED BY <1>1, WFMin, Zenon

\* Induction: a set with zero and, with every number, the next one.
LEMMA Induction ==
    ASSUME NEW S, 0 \in S, \A n \in Nat : n \in S => n + 1 \in S
    PROVE  \A n \in Nat : n \in S
<1> DEFINE T == Nat \ S
<1> SUFFICES ASSUME T # {} PROVE FALSE
  OBVIOUS
<1>1. PICK t \in T : \A u \in T : ~(<<u, t>> \in Less)
  <2>1. T \subseteq Nat
    OBVIOUS
  <2> HIDE DEF T
  <2> QED BY <2>1, SmallestExists
<1>2. t \in Nat /\ t # 0
  OBVIOUS
<1>3. t - 1 \in Nat /\ (t - 1) + 1 = t /\ <<t - 1, t>> \in Less
  BY <1>2 DEF Less
<1>4. t - 1 \notin S
  BY <1>3
<1> QED BY <1>1, <1>3, <1>4

\* A set of numbers with an upper bound has a largest element.
LEMMA LargestExists ==
    ASSUME NEW n \in Nat, NEW S, S \subseteq 0 .. n, S # {}
    PROVE  \E x \in S : \A y \in S : x >= y
<1> DEFINE T == {n - x : x \in S}
<1>1. T \subseteq Nat
  OBVIOUS
<1>2. T # {}
  OBVIOUS
<1>3. \A i, j \in Nat : <<i, j>> \in Less <=> i < j
  BY DEF Less
<1>4. \A y \in S : n - y \in T
  OBVIOUS
<1> HIDE DEF T
<1>5. PICK t \in T : \A u \in T : ~(<<u, t>> \in Less)
  BY <1>1, <1>2, SmallestExists
<1>6. PICK x \in S : t = n - x
  BY DEF T
<1>7. \A y \in S : ~(n - y < n - x)
  BY <1>1, <1>3, <1>4, <1>5, <1>6
<1> QED BY <1>7

\* Max, of such a set
LEMMA MaxOf ==
    ASSUME NEW n \in Nat, NEW S, S \subseteq 0 .. n, S # {}
    PROVE  Max(S) \in S /\ \A y \in S : Max(S) >= y
BY LargestExists DEF Max

\* TrimRight keeps everything up to the last token that is not blank.
LEMMA TrimRightKeeps ==
    ASSUME NEW l \in Seq(Token)
    PROVE  \E k \in 0 .. Len(l) :
               /\ TrimRight(l) = SubSeq(l, 1, k)
               /\ k > 0 => l[k] \notin Blank
               /\ \A i \in k + 1 .. Len(l) : l[i] \in Blank
<1> DEFINE S == {0} \cup {i \in 1 .. Len(l) : l[i] \notin Blank}
<1>1. Len(l) \in Nat /\ S \subseteq 0 .. Len(l) /\ S # {}
  OBVIOUS
<1>2. Max(S) \in S /\ \A y \in S : Max(S) >= y
  <2> HIDE DEF S
  <2> QED BY <1>1, MaxOf
<1>3. TrimRight(l) = SubSeq(l, 1, Max(S))
  BY DEF TrimRight
<1>4. \A i \in Max(S) + 1 .. Len(l) : l[i] \in Blank
  BY <1>1, <1>2
<1>5. Max(S) \in 0 .. Len(l)
  BY <1>1, <1>2
<1>6. Max(S) > 0 => l[Max(S)] \notin Blank
  BY <1>2
<1> HIDE DEF S
<1> QED BY <1>3, <1>4, <1>5, <1>6

\* The first m tokens
LEMMA Prefix ==
    ASSUME NEW s \in Seq(Token), NEW m \in Nat, m <= Len(s)
    PROVE  /\ SubSeq(s, 1, m) \in Seq(Token)
           /\ Len(SubSeq(s, 1, m)) = m
           /\ \A i \in 1 .. m : SubSeq(s, 1, m)[i] = s[i]
<1>1. \A i \in 1 .. m : s[i] \in Token
  BY ElementOfSeq
<1>2. m - 1 + 1 = m /\ (m < 1 => m = 0) /\ \A i \in 1 .. m : 1 + i - 1 = i
  OBVIOUS
<1> DEFINE p == SubSeq(s, 1, m)
<1>3. /\ p \in Seq(Token)
      /\ Len(p) = IF 1 <= m THEN m - 1 + 1 ELSE 0
      /\ \A i \in 1 .. m - 1 + 1 : p[i] = s[1 + i - 1]
  BY <1>1, SubSeqProperties
<1> HIDE DEF p
<1>4. Len(p) = m /\ \A i \in 1 .. m : p[i] = s[i]
  BY <1>2, <1>3
<1> QED BY <1>3, <1>4 DEF p

-----------------------------------------------------------------------------
\* Splitting

\* The spaces among the first n tokens
SpacesIn(t, n) == {i \in 1 .. n : t[i] = SP}

\* They are finitely many, and none exactly if there is no space.
LEMMA SpacesCount ==
    ASSUME NEW t, NEW n \in Nat
    PROVE  /\ Cardinality(SpacesIn(t, n)) \in Nat
           /\ Cardinality(SpacesIn(t, n)) = 0 <=> \A i \in 1 .. n : t[i] # SP
<1>1. IsFiniteSet(1 .. n)
  BY FS_Interval
<1>2. IsFiniteSet(SpacesIn(t, n))
  BY <1>1, FS_Subset DEF SpacesIn
<1>3. SpacesIn(t, n) = {} <=> \A i \in 1 .. n : t[i] # SP
  BY DEF SpacesIn
<1> QED BY <1>2, <1>3, FS_EmptySet, FS_CardinalityType

\* The tokens of the k-th field
FieldTokens(t, k) == {t[i] : i \in {j \in DOMAIN t : t[j] # SP
                                   /\ Cardinality(SpacesIn(t, j)) = k - 1}}

\* The fields of Split, and their number
LEMMA SplitIs ==
    ASSUME NEW t \in Seq(Token), NEW n, n = Cardinality(SpacesIn(t, Len(t))) + 1
    PROVE  /\ n \in Nat /\ n >= 1 /\ DOMAIN Split(t) = 1 .. n
           /\ Len(Split(t)) = n /\ Split(t) # <<>>
           /\ \A k \in 1 .. n :
                 Split(t)[k] = IF FieldTokens(t, k) = {} THEN ""
                               ELSE CHOOSE w \in FieldTokens(t, k) : TRUE
<1> DEFINE Field(k) == IF FieldTokens(t, k) = {} THEN ""
                       ELSE CHOOSE w \in FieldTokens(t, k) : TRUE
<1>1. Split(t) = [k \in 1 .. n |-> Field(k)]
  BY DEF Split, SpacesIn, FieldTokens
<1>2. n \in Nat /\ n >= 1
  BY SpacesCount
<1>3. DOMAIN Split(t) = 1 .. n /\ \A k \in 1 .. n : Split(t)[k] = Field(k)
  <2> HIDE DEF Field
  <2> QED BY <1>1
<1>4. Len(Split(t)) = n
  <2>1. Split(t) = [k \in 1 .. n |-> Split(t)[k]]
    BY <1>1, <1>3
  <2> QED BY <1>2, <2>1
<1>5. Split(t) # <<>>
  BY <1>2, <1>4
<1> QED BY <1>2, <1>3, <1>4, <1>5

\* A field with one word is this word.
LEMMA FieldWith ==
    ASSUME NEW t \in Seq(Token), NEW w, NEW k \in Nat, k >= 1,
           k <= Cardinality(SpacesIn(t, Len(t))) + 1, FieldTokens(t, k) = {w}
    PROVE  Split(t)[k] = w
<1> DEFINE n == Cardinality(SpacesIn(t, Len(t))) + 1
<1>1. n \in Nat
  BY SplitIs
<1>2. n = Cardinality(SpacesIn(t, Len(t))) + 1
  OBVIOUS
<1> HIDE DEF n
<1>3. k \in 1 .. n
  BY <1>1, <1>2
<1>4. Split(t)[k] = IF {w} = {} THEN "" ELSE CHOOSE x \in {w} : TRUE
  BY <1>2, <1>3, SplitIs
<1>5. (CHOOSE x \in {w} : TRUE) = w
  OBVIOUS
<1> QED BY <1>4, <1>5

\* A word in front, with a space behind it if anything is, is the first field.
LEMMA FirstFieldIs ==
    ASSUME NEW t \in Seq(Token), NEW k \in Nat, k = Len(t), k >= 1,
           t[1] # SP, k > 1 => t[2] = SP
    PROVE  Split(t)[1] = t[1]
<1>1. Cardinality(SpacesIn(t, 1)) = 0
  BY SpacesCount
<1>2. ASSUME NEW j \in 1 .. k, j # 1
      PROVE  Cardinality(SpacesIn(t, j)) # 0
  <2>1. j \in Nat /\ 2 \in 1 .. j /\ k > 1
    BY <1>2
  <2> QED BY <2>1, SpacesCount
<1>3. DOMAIN t = 1 .. k /\ 1 \in DOMAIN t /\ 1 - 1 = 0
  OBVIOUS
<1>4. {j \in DOMAIN t : t[j] # SP /\ Cardinality(SpacesIn(t, j)) = 1 - 1} = {1}
  BY <1>1, <1>2, <1>3
<1>5. FieldTokens(t, 1) = {t[1]}
  BY <1>4 DEF FieldTokens
<1>6. 1 \in Nat /\ 1 >= 1 /\ 1 <= Cardinality(SpacesIn(t, Len(t))) + 1
  BY SpacesCount
<1> QED BY <1>5, <1>6, FieldWith

\* There is one field exactly if there is no space.
LEMMA OneField ==
    ASSUME NEW t \in Seq(Token), NEW k \in Nat, k = Len(t)
    PROVE  Len(Split(t)) = 1 <=> \A i \in 1 .. k : t[i] # SP
<1> DEFINE c == Cardinality(SpacesIn(t, k))
<1>1. Len(Split(t)) = c + 1
  BY SplitIs
<1>2. c \in Nat /\ (c = 0 <=> \A i \in 1 .. k : t[i] # SP)
  BY SpacesCount
<1> HIDE DEF c
<1> QED BY <1>1, <1>2

\* Two words in front, with spaces where they should be: the second field
LEMMA SecondFieldIs ==
    ASSUME NEW t \in Seq(Token), NEW k \in Nat, k = Len(t), k >= 3,
           t[1] # SP, t[2] = SP, t[3] # SP, k > 3 => t[4] = SP
    PROVE  Len(Split(t)) > 1 /\ Split(t)[2] = t[3]
<1>1. SpacesIn(t, 1) = {} /\ SpacesIn(t, 3) = {2}
  BY DEF SpacesIn
<1>2. Cardinality(SpacesIn(t, 1)) = 0 /\ Cardinality(SpacesIn(t, 3)) = 1
  BY <1>1, FS_EmptySet, FS_Singleton
<1>3. ASSUME NEW j \in 1 .. k, j > 3
      PROVE  Cardinality(SpacesIn(t, j)) # 1
  <2>1. 2 \in SpacesIn(t, j) /\ 4 \in SpacesIn(t, j)
    BY <1>3 DEF SpacesIn
  <2>2. IsFiniteSet(SpacesIn(t, j))
    <3>1. IsFiniteSet(1 .. j) /\ SpacesIn(t, j) \subseteq 1 .. j
      BY FS_Interval DEF SpacesIn
    <3> QED BY <3>1, FS_Subset
  <2> SUFFICES ASSUME Cardinality(SpacesIn(t, j)) = 1 PROVE FALSE
    OBVIOUS
  <2>3. \E x : SpacesIn(t, j) = {x}
    BY <2>2, FS_Singleton
  <2> QED BY <2>1, <2>3
<1>4. DOMAIN t = 1 .. k /\ 3 \in DOMAIN t /\ 2 - 1 = 1
  OBVIOUS
<1>5. {j \in DOMAIN t : t[j] # SP /\ Cardinality(SpacesIn(t, j)) = 2 - 1} = {3}
  BY <1>2, <1>3, <1>4
<1>6. FieldTokens(t, 2) = {t[3]}
  BY <1>5 DEF FieldTokens
<1> DEFINE c == Cardinality(SpacesIn(t, k))
<1>7. c \in Nat /\ c # 0
  <2>1. 2 \in 1 .. k
    OBVIOUS
  <2> QED BY <2>1, SpacesCount
<1>8. Len(Split(t)) = c + 1
  BY SplitIs
<1>9. c = Cardinality(SpacesIn(t, Len(t)))
  OBVIOUS
<1> HIDE DEF c
<1>10. 2 \in Nat /\ 2 >= 1 /\ 2 <= c + 1
  BY <1>7
<1>11. Split(t)[2] = t[3]
  BY <1>6, <1>9, <1>10, FieldWith
<1>12. c + 1 > 1
  BY <1>7
<1> QED BY <1>8, <1>11, <1>12

\* The fields of a line of words and spaces are words.
LEMMA SplitType ==
    ASSUME NEW t \in Seq(Word \cup {SP})
    PROVE  Split(t) \in Seq(Word) /\ Split(t) # <<>>
<1> DEFINE n == Cardinality(SpacesIn(t, Len(t))) + 1
<1>1. t \in Seq(Token)
  <2>1. Word \cup {SP} \subseteq Token
    BY DEF Token, White
  <2> QED BY <2>1, SeqMonotonic
<1>2. n = Cardinality(SpacesIn(t, Len(t))) + 1
  OBVIOUS
<1> HIDE DEF n
<1>3. /\ n \in Nat /\ DOMAIN Split(t) = 1 .. n /\ Split(t) # <<>>
      /\ \A k \in 1 .. n :
            Split(t)[k] = IF FieldTokens(t, k) = {} THEN ""
                          ELSE CHOOSE w \in FieldTokens(t, k) : TRUE
  BY <1>1, <1>2, SplitIs
<1>4. ASSUME NEW k \in 1 .. n
      PROVE  Split(t)[k] \in Word
  <2>1. \A w \in FieldTokens(t, k) : w \in Word
    BY ElementOfSeq DEF FieldTokens
  <2>2. FieldTokens(t, k) # {} =>
           (CHOOSE w \in FieldTokens(t, k) : TRUE) \in FieldTokens(t, k)
    OBVIOUS
  <2> QED BY <1>3, <2>1, <2>2, WordAssumption
<1>5. Split(t) = [k \in 1 .. n |-> Split(t)[k]]
  <2>1. DOMAIN Split(t) = 1 .. n
    BY <1>3
  <2>2. Split(t) = [k \in DOMAIN Split(t) |-> Split(t)[k]]
    BY DEF Split
  <2> QED BY <2>1, <2>2
<1>6. [k \in 1 .. n |-> Split(t)[k]] \in Seq(Word)
  <2> DEFINE f == [k \in 1 .. n |-> Split(t)[k]]
  <2>1. \A k \in 1 .. n : Split(t)[k] \in Word
    BY <1>4
  <2>2. f \in [1 .. n -> Word]
    BY <2>1
  <2> HIDE DEF f
  <2>3. n \in Nat
    BY <1>3
  <2>4. f \in Seq(Word)
    BY <2>2, <2>3
  <2> QED BY <2>4 DEF f
<1> QED BY <1>3, <1>5, <1>6

\* What a line of words and spaces is trimmed to
LEMMA TrimRightIs ==
    ASSUME NEW u \in Seq(Word \cup {SP}), NEW n \in Nat, n = Len(u)
    PROVE  \E k \in 0 .. n :
               /\ TrimRight(u) \in Seq(Word \cup {SP})
               /\ Len(TrimRight(u)) = k
               /\ \A i \in 1 .. k : TrimRight(u)[i] = u[i]
               /\ k > 0 => u[k] \notin Blank
               /\ \A i \in 1 .. n : i > k => u[i] \in Blank
<1>1. u \in Seq(Token)
  <2>1. Word \cup {SP} \subseteq Token
    BY DEF Token, White
  <2> QED BY <2>1, SeqMonotonic
<1>2. PICK k \in 0 .. n : /\ TrimRight(u) = SubSeq(u, 1, k)
                          /\ k > 0 => u[k] \notin Blank
                          /\ \A i \in k + 1 .. n : u[i] \in Blank
  BY <1>1, TrimRightKeeps
<1> DEFINE t == SubSeq(u, 1, k)
<1>3. k \in Nat /\ k <= Len(u)
  OBVIOUS
<1>4. Len(t) = k /\ \A i \in 1 .. k : t[i] = u[i]
  BY <1>1, <1>3, Prefix
<1>5. \A i \in 1 .. k : u[i] \in Word \cup {SP}
  BY ElementOfSeq
<1>6. t \in Seq(Word \cup {SP})
  BY <1>5, SubSeqProperties
<1> HIDE DEF t
<1>7. \A i \in 1 .. n : i > k => u[i] \in Blank
  BY <1>2
<1>8. TrimRight(u) = t
  BY <1>2 DEF t
<1> QED BY <1>2, <1>4, <1>6, <1>7, <1>8

-----------------------------------------------------------------------------
\* Fields and their places

\* The number of spaces among the first i tokens
SpacesTo(t, i) == Cardinality(SpacesIn(t, i))

\* It grows by one with every space.
LEMMA SpacesStep ==
    ASSUME NEW t, NEW i \in Nat
    PROVE  /\ SpacesTo(t, 0) = 0 /\ SpacesTo(t, i) \in Nat
           /\ SpacesTo(t, i + 1) = IF t[i + 1] = SP THEN SpacesTo(t, i) + 1
                                 ELSE SpacesTo(t, i)
<1>1. 1 .. 0 = {} /\ 1 .. i + 1 = (1 .. i) \cup {i + 1} /\ i + 1 \notin 1 .. i
  OBVIOUS
<1>2. SpacesIn(t, 0) = {} /\ i + 1 \notin SpacesIn(t, i)
  BY <1>1 DEF SpacesIn
<1>3. SpacesIn(t, i + 1) = IF t[i + 1] = SP THEN SpacesIn(t, i) \cup {i + 1}
                           ELSE SpacesIn(t, i)
  BY <1>1 DEF SpacesIn
<1>4. IsFiniteSet(SpacesIn(t, i))
  <2>1. IsFiniteSet(1 .. i) /\ SpacesIn(t, i) \subseteq 1 .. i
    BY FS_Interval DEF SpacesIn
  <2> QED BY <2>1, FS_Subset
<1>5. Cardinality(SpacesIn(t, i) \cup {i + 1}) = Cardinality(SpacesIn(t, i)) + 1
  BY <1>2, <1>4, FS_AddElement
<1> QED BY <1>2, <1>3, <1>5, SpacesCount, FS_EmptySet DEF SpacesTo

\* It never shrinks.
LEMMA SpacesGrow ==
    ASSUME NEW t, NEW i \in Nat, NEW j \in Nat, i <= j
    PROVE  SpacesTo(t, i) <= SpacesTo(t, j)
<1>1. IsFiniteSet(SpacesIn(t, j))
  <2>1. IsFiniteSet(1 .. j) /\ SpacesIn(t, j) \subseteq 1 .. j
    BY FS_Interval DEF SpacesIn
  <2> QED BY <2>1, FS_Subset
<1>2. SpacesIn(t, i) \subseteq SpacesIn(t, j)
  BY DEF SpacesIn
<1> QED BY <1>1, <1>2, FS_Subset DEF SpacesTo

\* Behind the i-th token a field ends.
EndsField(t, k, i) == i = k \/ t[i + 1] = SP

\* Only the tokens up to there are in it or in front of it.
LEMMA EndsBefore ==
    ASSUME NEW t, NEW k \in Nat, NEW i \in 0 .. k, EndsField(t, k, i),
           NEW j \in 1 .. k, j > i
    PROVE  SpacesTo(t, j) # SpacesTo(t, i)
<1>1. t[i + 1] = SP /\ i \in Nat /\ j \in Nat /\ i + 1 \in Nat /\ i + 1 <= j
  BY DEF EndsField
<1>2. SpacesTo(t, i + 1) = SpacesTo(t, i) + 1 /\ SpacesTo(t, i) \in Nat
  BY <1>1, SpacesStep
<1>3. SpacesTo(t, i + 1) <= SpacesTo(t, j) /\ SpacesTo(t, j) \in Nat
  BY <1>1, SpacesGrow, SpacesStep
<1> QED BY <1>2, <1>3

\* Behind a space, only the tokens behind it are.
LEMMA BeginsAfter ==
    ASSUME NEW t, NEW i \in Nat, i > 0, t[i] = SP, NEW j \in Nat, j < i
    PROVE  SpacesTo(t, j) # SpacesTo(t, i)
<1> DEFINE h == i - 1
<1>1. h \in Nat /\ h + 1 = i /\ j <= h
  OBVIOUS
<1> HIDE DEF h
<1>2. SpacesTo(t, i) = SpacesTo(t, h) + 1 /\ SpacesTo(t, h) \in Nat
  BY <1>1, SpacesStep
<1>3. SpacesTo(t, j) <= SpacesTo(t, h) /\ SpacesTo(t, j) \in Nat
  BY <1>1, SpacesGrow, SpacesStep
<1> QED BY <1>2, <1>3

\* Where a field begins and ends behind the i-th token, it is empty.
LEMMA EmptyField ==
    ASSUME NEW t \in Seq(Token), NEW k \in Nat, k = Len(t), NEW i \in 0 .. k,
           EndsField(t, k, i), i = 0 \/ t[i] = SP
    PROVE  Split(t)[SpacesTo(t, i) + 1] = ""
<1> DEFINE c == SpacesTo(t, i)
<1>1. i \in Nat /\ c \in Nat /\ c <= SpacesTo(t, k) /\ SpacesTo(t, k) \in Nat
  BY SpacesStep, SpacesGrow
<1>2. DOMAIN t = 1 .. k
  OBVIOUS
<1>3. ASSUME NEW j \in 1 .. k, t[j] # SP
      PROVE  SpacesTo(t, j) # c
  <2>1. j > i \/ (i > 0 /\ t[i] = SP /\ j < i)
    BY <1>3
  <2>2. j \in Nat
    OBVIOUS
  <2> QED BY <1>1, <2>1, <2>2, EndsBefore, BeginsAfter
<1> HIDE DEF c
<1>4. (c + 1) - 1 = c
  BY <1>1
<1>5. FieldTokens(t, c + 1) = {}
  BY <1>2, <1>3, <1>4 DEF FieldTokens, SpacesTo
<1>6. c + 1 \in 1 .. SpacesTo(t, k) + 1
  BY <1>1
<1>7. Split(t)[c + 1] = ""
  BY <1>5, <1>6, SplitIs DEF SpacesTo
<1> QED BY <1>7 DEF c

\* A word between two spaces, or at an end, is a field.
LEMMA WordField ==
    ASSUME NEW t \in Seq(Token), NEW k \in Nat, k = Len(t), NEW i \in 1 .. k,
           t[i] # SP, EndsField(t, k, i), i = 1 \/ t[i - 1] = SP
    PROVE  Split(t)[SpacesTo(t, i) + 1] = t[i]
<1> DEFINE c == SpacesTo(t, i)
           h == i - 1
<1>1. i \in Nat /\ c \in Nat /\ c <= SpacesTo(t, k) /\ SpacesTo(t, k) \in Nat
  BY SpacesStep, SpacesGrow
<1>2. DOMAIN t = 1 .. k
  OBVIOUS
<1>3. h \in Nat /\ h + 1 = i /\ SpacesTo(t, h) = c
  <2>1. h \in Nat /\ h + 1 = i
    OBVIOUS
  <2> HIDE DEF h
  <2> QED BY <2>1, SpacesStep
<1>4. ASSUME NEW j \in 1 .. k, t[j] # SP, j # i
      PROVE  SpacesTo(t, j) # c
  <2>1. CASE j > i
    BY <2>1, EndsBefore
  <2>2. CASE j < i
    <3>1. t[h] = SP /\ h > 0
      BY <2>2
    <3>2. j < h /\ j \in Nat
      BY <1>4, <2>2, <3>1
    <3> HIDE DEF h
    <3> QED BY <1>3, <3>1, <3>2, BeginsAfter
  <2> QED BY <1>4, <2>1, <2>2
<1> HIDE DEF c
<1>5. (c + 1) - 1 = c /\ c = SpacesTo(t, i)
  BY <1>1 DEF c
<1>6. {j \in DOMAIN t : t[j] # SP /\ Cardinality(SpacesIn(t, j)) = (c + 1) - 1} = {i}
  BY <1>2, <1>4, <1>5 DEF SpacesTo
<1>7. FieldTokens(t, c + 1) = {t[i]}
  BY <1>6 DEF FieldTokens
<1>8. c + 1 \in Nat /\ c + 1 >= 1 /\ c + 1 <= SpacesTo(t, k) + 1
  BY <1>1
<1>9. Split(t)[c + 1] = t[i]
  BY <1>7, <1>8, FieldWith DEF SpacesTo
<1> QED BY <1>9 DEF c

-----------------------------------------------------------------------------
\* Parsing

\* What parseCommand finds in a line with first field w
Commands(t, w) ==
    {c \in 1 .. 14 : /\ w \notin EightBit /\ Verbs[c] = Upper[w]
                     /\ Upper[w] \in Bare => Len(Split(t)) = 1}

\* parseCommand, by its first field and whether there are more: a verb in
\* front, in whatever case, gives the command with its code.
LEMMA ParseIs ==
    ASSUME NEW t, NEW w, Split(t)[1] = w
    PROVE  IF Commands(t, w) = {} THEN parseCommand(t) = NoCommand
           ELSE /\ parseCommand(t) # NoCommand
                /\ parseCommand(t).commandCode \in Commands(t, w)
                /\ parseCommand(t).verb = w
                /\ parseCommand(t).arguments = Tail(Split(t))
<1> DEFINE codes == {c \in CodesOf(w) : Verbs[c] \in Bare => Len(Split(t)) = 1}
           code == CHOOSE c \in codes : TRUE
<1>1. parseCommand(t) = IF codes = {} THEN NoCommand
                        ELSE [commandCode |-> code, verb |-> w,
                              arguments |-> Tail(Split(t))]
  BY DEF parseCommand
<1>2. DOMAIN Verbs = 1 .. 14
  BY DEF Verbs
<1>3. codes = Commands(t, w)
  BY <1>2 DEF CodesOf, Commands
<1> HIDE DEF codes
<1>4. codes # {} => code \in codes
  OBVIOUS
<1> HIDE DEF code
<1>5. 0 \notin Commands(t, w) /\ NoCommand.commandCode = 0
  BY DEF Commands, NoCommand
<1>6. CASE codes # {}
  <2>1. parseCommand(t).commandCode = code /\ code \in Commands(t, w)
    BY <1>1, <1>3, <1>4, <1>6
  <2> QED BY <1>1, <1>3, <1>5, <1>6, <2>1
<1> QED BY <1>1, <1>3, <1>6

\* The command in a line of words and spaces has a code of the table and words
\* for arguments.
LEMMA ParsedType ==
    ASSUME NEW u \in Seq(Word \cup {SP}), Parsed(u) # NoCommand
    PROVE  /\ Parsed(u).commandCode \in 1 .. 14
           /\ Parsed(u).arguments \in Seq(Word)
<1> DEFINE t == TrimRight(u)
<1>1. t \in Seq(Word \cup {SP})
  BY TrimRightIs
<1> HIDE DEF t
<1>2. Split(t) \in Seq(Word) /\ Split(t) # <<>>
  BY <1>1, SplitType
<1>3. Tail(Split(t)) \in Seq(Word)
  BY <1>2, HeadTailProperties
<1>4. Parsed(u) = parseCommand(t)
  BY DEF Parsed, t
<1>5. /\ Commands(t, Split(t)[1]) # {}
      /\ parseCommand(t).commandCode \in Commands(t, Split(t)[1])
      /\ parseCommand(t).arguments = Tail(Split(t))
  BY <1>4, ParseIs
<1> QED BY <1>3, <1>4, <1>5 DEF Commands

\* u, of n tokens, begins like words with single spaces between them.
Spaced(u, n) ==
    /\ n >= 1 /\ u[1] \in Word \ {""}
    /\ n >= 2 => u[2] = SP
    /\ n >= 3 => u[3] \in Word \ {""}
    /\ n >= 4 => u[4] = SP

\* t, of k tokens, is what is left of u without the blanks at its end.
Kept(u, n, t, k) ==
    /\ \A i \in 1 .. k : t[i] = u[i]
    /\ k > 0 => u[k] \notin Blank
    /\ \A i \in 1 .. n : i > k => u[i] \in Blank

\* Words are not trimmed, a space behind the last of them is.
LEMMA KeptSpaced ==
    ASSUME NEW u, NEW n \in Nat, NEW t, NEW k \in 0 .. n,
           Spaced(u, n), Kept(u, n, t, k)
    PROVE  /\ Spaced(t, k) /\ t[1] = u[1]
           /\ IF n >= 3 THEN k >= 3 /\ t[3] = u[3] ELSE k = 1
<1>1. \A w \in Word \ {""} : w \notin Blank
  BY WordAssumption DEF Blank, White
<1>2. SP \in Blank
  BY DEF Blank, White
<1>3. /\ 1 \in 1 .. n /\ u[1] \notin Blank
      /\ n >= 2 => 2 \in 1 .. n /\ u[2] \in Blank
      /\ n >= 3 => 3 \in 1 .. n /\ u[3] \notin Blank
  <2>1. /\ n >= 1 /\ u[1] \in Word \ {""}
        /\ n >= 2 => u[2] = SP
        /\ n >= 3 => u[3] \in Word \ {""}
    BY DEF Spaced
  <2>2. u[1] \notin Blank /\ (n >= 3 => u[3] \notin Blank)
    BY <1>1, <2>1
  <2>3. n >= 2 => u[2] \in Blank
    BY <1>2, <2>1
  <2>4. n >= 1
    BY <2>1
  <2>5. 1 \in 1 .. n
    BY <2>4
  <2>6. n >= 2 => 2 \in 1 .. n
    OBVIOUS
  <2>7. n >= 3 => 3 \in 1 .. n
    OBVIOUS
  <2> QED BY <2>2, <2>3, <2>5, <2>6, <2>7
<1>4. /\ \A i \in 1 .. n : i > k => u[i] \in Blank
      /\ k > 0 => u[k] \notin Blank
      /\ \A i \in 1 .. k : t[i] = u[i]
  BY DEF Kept
<1>5. k >= 1
  BY <1>3, <1>4
<1>6. n >= 3 => k >= 3
  <2> SUFFICES ASSUME n >= 3, ~ (k >= 3) PROVE FALSE
    OBVIOUS
  <2>1. 3 \in 1 .. n /\ 3 > k
    OBVIOUS
  <2> QED BY <2>1, <1>3, <1>4
<1>7. k # 2
  <2> SUFFICES ASSUME k = 2 PROVE FALSE
    OBVIOUS
  <2>1. n >= 2 /\ k > 0
    OBVIOUS
  <2> QED BY <2>1, <1>3, <1>4
<1>8. t[1] = u[1] /\ (k >= 2 => t[2] = u[2]) /\ (k >= 3 => t[3] = u[3])
      /\ (k >= 4 => t[4] = u[4])
  BY <1>4, <1>5
<1>9. k <= n
  OBVIOUS
<1>10. Spaced(t, k)
  <2>1. k >= 2 => n >= 2
    BY <1>9
  <2>2. k >= 3 => n >= 3
    BY <1>9
  <2>3. k >= 4 => n >= 4
    BY <1>9
  <2> QED BY <1>5, <1>8, <2>1, <2>2, <2>3 DEF Spaced
<1> QED BY <1>5, <1>6, <1>7, <1>8, <1>10

\* The fields of such a line
LEMMA SpacedFields ==
    ASSUME NEW t \in Seq(Token), NEW k \in Nat, k = Len(t), Spaced(t, k)
    PROVE  /\ Split(t)[1] = t[1]
           /\ k >= 3 => Len(Split(t)) > 1 /\ Split(t)[2] = t[3]
           /\ k = 1 => Len(Split(t)) = 1
<1>1. \A w \in Word \ {""} : w # SP
  BY WordAssumption DEF White
<1>2. t[1] # SP /\ k >= 1 /\ (k > 1 => t[2] = SP)
  <2>1. k > 1 => k >= 2
    OBVIOUS
  <2> QED BY <1>1, <2>1 DEF Spaced
<1>3. Split(t)[1] = t[1]
  BY <1>2, FirstFieldIs
<1>4. ASSUME k >= 3
      PROVE  Len(Split(t)) > 1 /\ Split(t)[2] = t[3]
  <2>1. k >= 2 /\ (k > 3 => k >= 4)
    BY <1>4
  <2>2. t[2] = SP /\ t[3] # SP /\ (k > 3 => t[4] = SP)
    BY <1>1, <1>4, <2>1 DEF Spaced
  <2> QED BY <1>2, <1>4, <2>2, SecondFieldIs
<1>5. ASSUME k = 1
      PROVE  Len(Split(t)) = 1
  <2>1. \A i \in 1 .. k : t[i] # SP
    BY <1>2, <1>5
  <2> QED BY <2>1, OneField
<1> QED BY <1>3, <1>4, <1>5

\* All but the first of some words
LEMMA TailIs ==
    ASSUME NEW S, NEW s \in Seq(S), s # <<>>
    PROVE  /\ Tail(s) \in Seq(S)
           /\ Len(s) = 1 => Tail(s) = <<>>
           /\ Len(s) > 1 => Tail(s) # <<>> /\ Tail(s)[1] = s[2]
<1> DEFINE r == Tail(s)
           n == Len(s)
<1>1. /\ r \in Seq(S) /\ Len(r) = n - 1 /\ n \in Nat
      /\ \A i \in 1 .. Len(r) : r[i] = s[i + 1]
  BY HeadTailProperties
<1> HIDE DEF r, n
<1>2. n = 1 => r = <<>>
  BY <1>1
<1>3. n > 1 => r # <<>> /\ r[1] = s[2]
  BY <1>1
<1> QED BY <1>1, <1>2, <1>3 DEF r, n

\* The command in a line of words with single spaces between them: its verb is
\* the first word, its first argument the second.
LEMMA ParsedSpaced ==
    ASSUME NEW u \in Seq(Word \cup {SP}), NEW n \in Nat, n = Len(u),
           Parsed(u) # NoCommand, Spaced(u, n)
    PROVE  /\ Verbs[Parsed(u).commandCode] = Upper[u[1]]
           /\ IF n >= 3 THEN /\ Parsed(u).arguments # <<>>
                             /\ Parsed(u).arguments[1] = u[3]
              ELSE Parsed(u).arguments = <<>>
<1> DEFINE t == TrimRight(u)
           s == Split(t)
<1>1. PICK k \in 0 .. n : /\ t \in Seq(Word \cup {SP}) /\ Len(t) = k
                          /\ Kept(u, n, t, k)
  BY TrimRightIs DEF Kept
<1>2. Parsed(u) = parseCommand(t)
  BY DEF Parsed
<1> HIDE DEF t
<1>3. t \in Seq(Token)
  <2>1. Word \cup {SP} \subseteq Token
    BY DEF Token, White
  <2> QED BY <1>1, <2>1, SeqMonotonic
<1>4. /\ Spaced(t, k) /\ t[1] = u[1]
      /\ IF n >= 3 THEN k >= 3 /\ t[3] = u[3] ELSE k = 1
  BY <1>1, KeptSpaced
<1>5. k \in Nat /\ k = Len(t)
  BY <1>1
<1>6. /\ s[1] = t[1]
      /\ k >= 3 => Len(s) > 1 /\ s[2] = t[3]
      /\ k = 1 => Len(s) = 1
  BY <1>3, <1>4, <1>5, SpacedFields
<1>7. s \in Seq(Word) /\ s # <<>>
  BY <1>1, SplitType
<1>8. /\ Commands(t, u[1]) # {}
      /\ parseCommand(t).commandCode \in Commands(t, u[1])
      /\ parseCommand(t).arguments = Tail(s)
  BY <1>2, <1>4, <1>6, ParseIs
<1> HIDE DEF s
<1>9. /\ Len(s) = 1 => Tail(s) = <<>>
      /\ Len(s) > 1 => Tail(s) # <<>> /\ Tail(s)[1] = s[2]
  BY <1>7, TailIs
<1>10. Verbs[Parsed(u).commandCode] = Upper[u[1]]
  BY <1>2, <1>8 DEF Commands
<1> QED BY <1>2, <1>4, <1>6, <1>8, <1>9, <1>10

\* A line with BDAT in front is a command, whatever follows.
LEMMA BdatParsed ==
    ASSUME NEW u \in Seq(Word \cup {SP}), NEW n \in Nat, n = Len(u), Spaced(u, n),
           u[1] \notin EightBit, Upper[u[1]] = "BDAT"
    PROVE  Parsed(u) # NoCommand
<1> DEFINE t == TrimRight(u)
<1>1. PICK k \in 0 .. n : /\ t \in Seq(Word \cup {SP}) /\ Len(t) = k
                          /\ Kept(u, n, t, k)
  BY TrimRightIs DEF Kept
<1>2. Parsed(u) = parseCommand(t)
  BY DEF Parsed
<1> HIDE DEF t
<1>3. t \in Seq(Token)
  <2>1. Word \cup {SP} \subseteq Token
    BY DEF Token, White
  <2> QED BY <1>1, <2>1, SeqMonotonic
<1>4. Spaced(t, k) /\ t[1] = u[1]
  BY <1>1, KeptSpaced
<1>5. k \in Nat /\ k = Len(t)
  BY <1>1
<1>6. Split(t)[1] = u[1]
  BY <1>3, <1>4, <1>5, SpacedFields
<1>7. 14 \in Commands(t, u[1])
  <2>1. Verbs[14] = "BDAT" /\ "BDAT" \notin Bare /\ 14 \in 1 .. 14
    BY DEF Verbs, Bare
  <2> QED BY <2>1 DEF Commands
<1> QED BY <1>2, <1>6, <1>7, ParseIs

=============================================================================
