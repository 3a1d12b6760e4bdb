----------------------------- MODULE LineProofs -----------------------------
(***************************************************************************)
(* From a line to its handler, for every alphabet of words and every set of *)
(* lines: ReadLine, the trimming, strings.Split, the codes of the verbs and *)
(* the table of handlers together find the handler of the verb in front,    *)
(* and what Split makes of a line, joined again, is the line.               *)
(***************************************************************************)
EXTENDS LineReader, CommandLineProofs

-----------------------------------------------------------------------------
\* What is left of a line

\* The tokens of a line
LEMMA LineTokens ==
    ASSUME NEW l \in Lines
    PROVE  /\ l \in Seq(Token) /\ Len(l) \in Nat
           /\ \A i \in 1 .. Len(l) : l[i] \in (Word \ {""}) \cup White
<1>1. l \in Seq((Word \ {""}) \cup White)
  BY LinesAssumption
<1>2. (Word \ {""}) \cup White \subseteq Token
  BY DEF Token
<1>3. l \in Seq(Token)
  BY <1>1, <1>2, SeqMonotonic
<1> QED BY <1>1, <1>3, ElementOfSeq, LenProperties

\* What may stand in front of a word, and next to one
LEMMA LineOrder ==
    ASSUME NEW l \in Lines, NEW n, n = Len(l), NEW i \in 1 .. n, NEW j \in 1 .. n
    PROVE  /\ i < j /\ l[j] \in Word => l[i] \notin {CR, LF, TAB}
           /\ i < j /\ l[i] \in {CR, LF, TAB} => l[j] \in White
           /\ j = i + 1 /\ l[i] \in Word => l[j] \in White
<1>1. /\ i < j /\ l[j] \notin White => l[i] \notin {CR, LF, TAB}
      /\ j = i + 1 => l[i] \in White \/ l[j] \in White
  BY LinesAssumption
<1>2. \A w \in Word : w \notin White
  BY WordAssumption
<1> QED BY <1>1, <1>2

\* t, of k tokens, is the line l without its end and the blanks in front of it:
\* its tokens up to the last word.
Trimmed(l, n, t, k) ==
    /\ t \in Seq(Token) /\ k = Len(t)
    /\ TrimRight(ReadLine(l)) = t
    /\ \A i \in 1 .. k : t[i] = l[i]
    /\ k > 0 => l[k] \in Word
    /\ \A i \in 1 .. n : i > k => l[i] \notin Word

\* That is what is left of a line that ends in CR LF (ReadLine,
\* strings.TrimRightFunc).
LEMMA TrimmedLine ==
    ASSUME NEW l \in Lines, NEW m \in Nat, m + 2 = Len(l), l[m + 1] = CR
    PROVE  \E k \in 0 .. m : \E t : Trimmed(l, m + 2, t, k)
<1> DEFINE n == m + 2
           b == SubSeq(l, 1, m)
<1>1. /\ l \in Seq(Token) /\ m <= Len(l)
      /\ \A i \in 1 .. n : l[i] \in (Word \ {""}) \cup White
  <2>1. m <= m + 2
    OBVIOUS
  <2>2. m <= Len(l)
    BY <2>1
  <2> QED BY <2>2, LineTokens
<1>2. ReadLine(l) = b
  <2>1. Len(l) - 1 = m + 1 /\ (m + 1) - 1 = m
    OBVIOUS
  <2>2. l[m + 1] \in White
    BY DEF White
  <2> QED BY <2>1, <2>2 DEF ReadLine
<1>3. /\ b \in Seq(Token) /\ Len(b) = m
      /\ \A i \in 1 .. m : b[i] = l[i]
  BY <1>1, Prefix
<1> HIDE DEF b
<1>4. PICK k \in 0 .. m : /\ TrimRight(b) = SubSeq(b, 1, k)
                          /\ k > 0 => b[k] \notin Blank
                          /\ \A i \in k + 1 .. m : b[i] \in Blank
  BY <1>3, TrimRightKeeps
<1> DEFINE t == SubSeq(b, 1, k)
<1>5. /\ t \in Seq(Token) /\ Len(t) = k
      /\ \A i \in 1 .. k : t[i] = b[i]
  BY <1>3, <1>4, Prefix
<1>6. TrimRight(ReadLine(l)) = t
  BY <1>2, <1>4
<1> HIDE DEF t
<1>7. k > 0 => l[k] \in Word
  <2> SUFFICES ASSUME k > 0 PROVE l[k] \in Word
    OBVIOUS
  <2>1. k \in 1 .. m /\ k \in 1 .. n
    OBVIOUS
  <2> QED BY <1>1, <1>3, <1>4, <2>1 DEF Blank
<1>8. \A i \in 1 .. n : i > k => l[i] \notin Word
  <2> SUFFICES ASSUME NEW i \in 1 .. n, i > k
               PROVE  l[i] \in White
    BY WordAssumption
  <2>1. CASE i \in 1 .. m
    <3>1. l[i] \in Blank
      BY <1>3, <1>4, <2>1
    <3> QED BY <1>1, <3>1 DEF Blank
  <2>2. CASE i = m + 1
    BY <2>2 DEF White
  <2>3. CASE i = m + 2
    <3>1. m + 1 \in 1 .. n /\ i \in 1 .. n /\ m + 1 < i
      BY <2>3
    <3> HIDE DEF n
    <3>2. n = Len(l)
      BY DEF n
    <3> QED BY <3>1, <3>2, LineOrder
  <2> QED BY <2>1, <2>2, <2>3
<1>9. \A i \in 1 .. k : t[i] = l[i]
  BY <1>3, <1>5
<1>10. Trimmed(l, n, t, k)
  BY <1>5, <1>6, <1>7, <1>8, <1>9 DEF Trimmed
<1> QED BY <1>10

\* A line that begins with a word has this word as its first field, and more
\* fields exactly if it has more words.
LEMMA FirstWord ==
    ASSUME NEW l \in Lines, NEW n \in Nat, n = Len(l), n > 0, l[1] \in Word,
           NEW t, NEW k \in 0 .. n, Trimmed(l, n, t, k)
    PROVE  /\ Split(t)[1] = l[1]
           /\ Len(Split(t)) = 1 <=> ~\E i \in 2 .. n : l[i] \in Word
<1>1. k > 0
  BY DEF Trimmed
<1>2. t[1] = l[1] /\ t[1] # SP
  <2>1. t[1] = l[1]
    BY <1>1 DEF Trimmed
  <2>2. SP \notin Word
    BY WordAssumption DEF White
  <2> QED BY <2>1, <2>2
<1>3. k > 1 => t[2] = SP
  <2> SUFFICES ASSUME k > 1 PROVE t[2] = SP
    OBVIOUS
  <2>1. l[k] \in Word /\ k \in 1 .. n /\ 2 \in 1 .. n /\ 1 \in 1 .. n
    BY DEF Trimmed
  <2>2. l[k] \notin White
    BY <2>1, WordAssumption
  <2>3. l[2] \in White
    BY <2>1, LineOrder
  <2>4. k # 2
    BY <2>2, <2>3
  <2>5. l[2] \notin {CR, LF, TAB}
    BY <2>1, <2>4, LineOrder
  <2>6. t[2] = l[2]
    BY <2>1 DEF Trimmed
  <2> QED BY <2>3, <2>5, <2>6 DEF White
<1>4. t \in Seq(Token) /\ k = Len(t)
  BY DEF Trimmed
<1>5. Split(t)[1] = l[1]
  BY <1>1, <1>2, <1>3, <1>4, FirstFieldIs
<1>6. (\A i \in 1 .. k : t[i] # SP) <=> k = 1
  <2>1. CASE k = 1
    BY <1>2, <2>1
  <2>2. CASE k > 1
    BY <1>3, <2>2
  <2> QED BY <1>1, <2>1, <2>2
<1>7. Len(Split(t)) = 1 <=> k = 1
  BY <1>4, <1>6, OneField
<1>8. k = 1 <=> ~\E i \in 2 .. n : l[i] \in Word
  <2>1. CASE k = 1
    BY <2>1 DEF Trimmed
  <2>2. CASE k > 1
    BY <2>2 DEF Trimmed
  <2> QED BY <1>1, <2>1, <2>2
<1> QED BY <1>5, <1>7, <1>8

\* A line that begins with a blank has no first word.
LEMMA NoFirstWord ==
    ASSUME NEW l \in Lines, NEW n \in Nat, n = Len(l), n > 0, l[1] \notin Word,
           NEW t, NEW k \in 0 .. n, Trimmed(l, n, t, k)
    PROVE  Split(t)[1] = ""
<1>1. k > 0 => t[1] = SP
  <2> SUFFICES ASSUME k > 0 PROVE t[1] = SP
    OBVIOUS
  <2>1. k \in 1 .. n /\ l[k] \in Word /\ 1 \in 1 .. n /\ t[1] = l[1]
    BY DEF Trimmed
  <2>2. l[1] \in White
    BY <2>1, LineTokens
  <2>3. k # 1
    BY <2>1
  <2>4. l[1] \notin {CR, LF, TAB}
    BY <2>1, <2>3, LineOrder
  <2> QED BY <2>1, <2>2, <2>4 DEF White
<1>2. t \in Seq(Token) /\ DOMAIN t = 1 .. k
  BY DEF Trimmed
<1>3. FieldTokens(t, 1) = {}
  <2>1. ASSUME NEW j \in 1 .. k
        PROVE  Cardinality(SpacesIn(t, j)) # 1 - 1
    <3>1. j \in Nat /\ 1 \in 1 .. j /\ k > 0
      OBVIOUS
    <3> QED BY <1>1, <3>1, SpacesCount
  <2> QED BY <1>2, <2>1 DEF FieldTokens
<1>4. 1 \in 1 .. Cardinality(SpacesIn(t, Len(t))) + 1
  BY SpacesCount, <1>2
<1> QED BY <1>2, <1>3, <1>4, SplitIs

-----------------------------------------------------------------------------
\* Codes and handlers

\* The table of handlers is in the order of the codes, for each of the verbs.
LEMMA TableInOrder ==
    /\ DOMAIN Verbs = 1 .. 14
    /\ \A c \in 1 .. 14 : /\ Verbs[c] \in DOMAIN HandlerFor
                          /\ HandlerFor[Verbs[c]] = handlers[c]
    /\ \A v \in DOMAIN HandlerFor : \E c \in 1 .. 14 : Verbs[c] = v
<1>1. DOMAIN Verbs = 1 .. 14
  BY DEF Verbs
<1>2. DOMAIN HandlerFor =
         {"HELO", "EHLO", "QUIT", "RSET", "NOOP", "MAIL", "RCPT", "DATA", "VRFY",
          "STARTTLS", "EXPN", "HELP", "AUTH", "BDAT"}
  BY DEF HandlerFor
<1>3. ASSUME NEW c \in 1 .. 14
      PROVE  /\ Verbs[c] \in DOMAIN HandlerFor
             /\ HandlerFor[Verbs[c]] = handlers[c]
  <2>1. \/ c = 1 \/ c = 2 \/ c = 3 \/ c = 4 \/ c = 5 \/ c = 6 \/ c = 7 \/ c = 8
        \/ c = 9 \/ c = 10 \/ c = 11 \/ c = 12 \/ c = 13 \/ c = 14
    OBVIOUS
  <2> QED BY <2>1 DEF Verbs, handlers, HandlerFor
<1>4. ASSUME NEW v \in DOMAIN HandlerFor
      PROVE  \E c \in 1 .. 14 : Verbs[c] = v
  <2>1. /\ Verbs[1] = "HELO" /\ Verbs[2] = "EHLO" /\ Verbs[3] = "QUIT"
        /\ Verbs[4] = "RSET" /\ Verbs[5] = "NOOP" /\ Verbs[6] = "MAIL"
        /\ Verbs[7] = "RCPT" /\ Verbs[8] = "DATA" /\ Verbs[9] = "STARTTLS"
        /\ Verbs[10] = "VRFY" /\ Verbs[11] = "EXPN" /\ Verbs[12] = "HELP"
        /\ Verbs[13] = "AUTH" /\ Verbs[14] = "BDAT"
    BY DEF Verbs
  <2> HIDE DEF Verbs
  <2> QED BY <1>2, <2>1
<1> QED BY <1>1, <1>3, <1>4

\* parseCommand finds the handler of the verb in front.
LEMMA ParseFirst ==
    ASSUME NEW t, NEW w \in Word, Split(t)[1] = w
    PROVE  IF /\ w \notin EightBit /\ Upper[w] \in DOMAIN HandlerFor
              /\ Upper[w] \in Bare => Len(Split(t)) = 1
           THEN /\ parseCommand(t) # NoCommand
                /\ Handler(parseCommand(t)) = HandlerFor[Upper[w]]
           ELSE parseCommand(t) = NoCommand
<1> DEFINE found == /\ w \notin EightBit /\ Upper[w] \in DOMAIN HandlerFor
                    /\ Upper[w] \in Bare => Len(Split(t)) = 1
           code == parseCommand(t).commandCode
<1>1. Commands(t, w) # {} <=> found
  BY TableInOrder DEF Commands
<1>2. IF Commands(t, w) = {} THEN parseCommand(t) = NoCommand
      ELSE parseCommand(t) # NoCommand /\ code \in Commands(t, w)
  BY ParseIs
<1>3. CASE found
  <2>1. code \in 1 .. 14 /\ Verbs[code] = Upper[w] /\ parseCommand(t) # NoCommand
    BY <1>1, <1>2, <1>3 DEF Commands
  <2>2. handlers[code] = HandlerFor[Upper[w]]
    BY <2>1, TableInOrder
  <2> QED BY <1>3, <2>1, <2>2 DEF Handler
<1> QED BY <1>1, <1>2, <1>3

-----------------------------------------------------------------------------
\* Fields put together again

\* The text s, a space and one more field
More(s, field) == s \o <<SP>> \o Text(field)

\* g says what the first fields give, for each number of them up to m.
Joins(g, f, m) ==
    g = [n \in 1 .. m |-> IF n = 1 THEN Text(f[1]) ELSE More(g[n - 1], f[n])]

\* There is such a function for any number of fields.
LEMMA JoinsExists ==
    ASSUME NEW f, NEW N \in Nat
    PROVE  \E g : Joins(g, f, N)
<1> DEFINE S == {m \in Nat : \E g : Joins(g, f, m)}
<1>1. 0 \in S
  <2> DEFINE g == [n \in 1 .. 0 |-> <<>>]
  <2>1. Joins(g, f, 0)
    BY DEF Joins
  <2> QED BY <2>1
<1>2. ASSUME NEW m \in Nat, m \in S
      PROVE  m + 1 \in S
  <2>1. PICK g : Joins(g, f, m)
    BY <1>2
  <2> DEFINE new == IF m = 0 THEN Text(f[1]) ELSE More(g[m], f[m + 1])
             h == [n \in 1 .. m + 1 |-> IF n = m + 1 THEN new ELSE g[n]]
  <2>2. \A n \in 1 .. m : g[n] = IF n = 1 THEN Text(f[1]) ELSE More(g[n - 1], f[n])
    BY <2>1 DEF Joins
  <2>3. \A n \in 1 .. m + 1 :
           h[n] = IF n = 1 THEN Text(f[1]) ELSE More(h[n - 1], f[n])
    <3> TAKE n \in 1 .. m + 1
    <3>1. CASE n = m + 1
      <4>1. h[n] = new /\ n - 1 = m /\ (n = 1 <=> m = 0)
        BY <3>1
      <4>2. m # 0 => h[m] = g[m]
        OBVIOUS
      <4> QED BY <3>1, <4>1, <4>2
    <3>2. CASE n # m + 1
      <4>1. n \in 1 .. m /\ h[n] = g[n]
        BY <3>2
      <4>2. n # 1 => h[n - 1] = g[n - 1]
        BY <3>2
      <4> QED BY <2>2, <4>1, <4>2
    <3> QED BY <3>1, <3>2
  <2>4. h = [n \in 1 .. m + 1 |-> h[n]]
    OBVIOUS
  <2> HIDE DEF h
  <2>5. h = [n \in 1 .. m + 1 |-> IF n = 1 THEN Text(f[1]) ELSE More(h[n - 1], f[n])]
    BY <2>3, <2>4
  <2> QED BY <2>5 DEF Joins
<1> HIDE DEF S
<1>3. N \in S
  BY <1>1, <1>2, Induction
<1> QED BY <1>3 DEF S

\* Join goes through such a function.
LEMMA JoinIs ==
    ASSUME NEW f, NEW N \in Nat, N = Len(f)
    PROVE  \E g : Joins(g, f, N) /\ Join(f) = g[N]
<1> DEFINE g == CHOOSE h : h = [n \in 1 .. N |->
                                  IF n = 1 THEN Text(f[1])
                                  ELSE h[n - 1] \o <<SP>> \o Text(f[n])]
<1>1. \E h : h = [n \in 1 .. N |-> IF n = 1 THEN Text(f[1])
                                   ELSE h[n - 1] \o <<SP>> \o Text(f[n])]
  <2>1. PICK h : Joins(h, f, N)
    BY JoinsExists
  <2>2. h = [n \in 1 .. N |-> IF n = 1 THEN Text(f[1])
                              ELSE h[n - 1] \o <<SP>> \o Text(f[n])]
    BY <2>1, Zenon DEF Joins, More
  <2> QED BY <2>2, Zenon
<1>2. g = [n \in 1 .. N |-> IF n = 1 THEN Text(f[1])
                            ELSE g[n - 1] \o <<SP>> \o Text(f[n])]
  BY <1>1, Zenon
<1>3. Join(f) = g[N]
  BY Zenon DEF Join
<1> HIDE DEF g
<1>4. Joins(g, f, N)
  BY <1>2, Zenon DEF Joins, More
<1> QED BY <1>3, <1>4

\* t, of k tokens, is words and spaces, and no two words are side by side.
Apart(t, k) ==
    /\ t \in Seq(Word \cup {SP}) /\ k = Len(t)
    /\ \A i \in 1 .. k : t[i] = SP \/ t[i] \in Word \ {""}
    /\ \A i, j \in 1 .. k : j = i + 1 => t[i] = SP \/ t[j] = SP

\* The first i tokens
First(t, i) == SubSeq(t, 1, i)

\* One more token
LEMMA FrontStep ==
    ASSUME NEW t \in Seq(Token), NEW k \in Nat, k = Len(t),
           NEW i \in Nat, i + 1 <= k
    PROVE  First(t, i + 1) = First(t, i) \o <<t[i + 1]>>
<1> DEFINE n == i + 1
<1>1. 1 \in 1 .. Len(t) /\ n \in 1 .. Len(t) /\ n - 1 = i
  OBVIOUS
<1> HIDE DEF n
<1>2. SubSeq(t, 1, n) = SubSeq(t, 1, n - 1) \o <<t[n]>>
  BY <1>1, SubSeqRecursiveSecond
<1> QED BY <1>1, <1>2 DEF First, n

\* A space, and an empty field behind it
LEMMA MoreEmpty ==
    ASSUME NEW t \in Seq(Token), NEW k \in Nat, k = Len(t),
           NEW i \in Nat, i + 1 <= k, t[i + 1] = SP
    PROVE  More(First(t, i), "") = First(t, i + 1)
<1> DEFINE s == First(t, i + 1)
<1>1. i + 1 \in Nat
  OBVIOUS
<1>2. s \in Seq(Token)
  BY <1>1, Prefix DEF First
<1>3. s = First(t, i) \o <<SP>>
  BY FrontStep
<1> HIDE DEF s
<1>4. s \o <<>> = s
  BY <1>2, ConcatEmptySeq
<1>5. More(First(t, i), "") = s \o <<>>
  BY <1>3, Zenon DEF More, Text
<1> QED BY <1>4, <1>5 DEF s

\* Two tokens further
LEMMA TwoMore ==
    \A i, k \in Nat : i + 2 <= k => /\ i + 1 \in Nat /\ (i + 1) + 1 = i + 2
                                    /\ i + 1 <= k /\ (i + 1) + 1 <= k
OBVIOUS

\* A space, and a word behind it
LEMMA MoreWord ==
    ASSUME NEW t \in Seq(Token), NEW k \in Nat, k = Len(t),
           NEW i \in Nat, i + 2 <= k, t[i + 1] = SP,
           NEW w, w = t[i + 2], w # ""
    PROVE  More(First(t, i), w) = First(t, i + 2)
<1>1. i + 1 \in Nat /\ (i + 1) + 1 = i + 2 /\ i + 1 <= k /\ (i + 1) + 1 <= k
  BY TwoMore, Zenon
<1>2. First(t, i + 1) = First(t, i) \o <<SP>>
  BY <1>1, FrontStep
<1>3. First(t, (i + 1) + 1) = First(t, i + 1) \o <<t[(i + 1) + 1]>>
  BY <1>1, FrontStep
<1>4. Text(w) = <<w>>
  BY DEF Text
<1> QED BY <1>1, <1>2, <1>3, <1>4, Zenon DEF More

\* What a function as in Joins gives for a number of fields, where a field ends
\* behind the i-th token: the first i tokens
JoinedTo(g, t, k, i) == EndsField(t, k, i) => g[SpacesTo(t, i) + 1] = First(t, i)

\* One field, and one more
LEMMA JoinsStep ==
    ASSUME NEW g, NEW f, NEW N \in Nat, Joins(g, f, N)
    PROVE  /\ N >= 1 => g[1] = Text(f[1])
           /\ \A n \in Nat : n >= 1 /\ n + 1 <= N => g[n + 1] = More(g[n], f[n + 1])
<1>1. \A n \in 1 .. N : g[n] = IF n = 1 THEN Text(f[1]) ELSE More(g[n - 1], f[n])
  BY DEF Joins
<1>2. ASSUME NEW n \in Nat, n >= 1, n + 1 <= N
      PROVE  g[n + 1] = More(g[n], f[n + 1])
  <2>1. n + 1 \in 1 .. N /\ n + 1 # 1 /\ (n + 1) - 1 = n
    BY <1>2
  <2> QED BY <1>1, <2>1
<1> QED BY <1>1, <1>2

\* Nothing is in front of the first token.
LEMMA JoinedNone ==
    ASSUME NEW t \in Seq(Token), NEW k \in Nat, k = Len(t),
           NEW g, Joins(g, Split(t), SpacesTo(t, k) + 1)
    PROVE  JoinedTo(g, t, k, 0)
<1> SUFFICES ASSUME EndsField(t, k, 0)
             PROVE  g[SpacesTo(t, 0) + 1] = First(t, 0)
  BY DEF JoinedTo
<1>1. 0 \in 0 .. k /\ 0 \in Nat /\ 0 <= Len(t)
  OBVIOUS
<1>2. SpacesTo(t, 0) = 0 /\ SpacesTo(t, k) \in Nat
  BY SpacesStep
<1>3. Split(t)[0 + 1] = ""
  BY <1>1, <1>2, EmptyField
<1>4. g[1] = Text(Split(t)[1])
  <2>1. SpacesTo(t, k) + 1 \in Nat /\ SpacesTo(t, k) + 1 >= 1
    BY <1>2
  <2> QED BY <2>1, JoinsStep
<1>5. First(t, 0) = <<>>
  <2> DEFINE s == SubSeq(t, 1, 0)
  <2>1. s \in Seq(Token) /\ Len(s) = 0
    BY <1>1, Prefix
  <2> HIDE DEF s
  <2>2. s = <<>>
    BY <2>1
  <2> QED BY <2>2 DEF First, s
<1>6. 0 + 1 = 1
  OBVIOUS
<1>7. Text("") = <<>>
  BY DEF Text
<1> QED BY <1>2, <1>3, <1>4, <1>5, <1>6, <1>7, Zenon

\* Behind a space comes an empty field, if the next token is a space too.
LEMMA JoinedSpace ==
    ASSUME NEW t \in Seq(Token), NEW k \in Nat, k = Len(t),
           NEW g, Joins(g, Split(t), SpacesTo(t, k) + 1),
           NEW i \in Nat, i + 1 <= k, t[i + 1] = SP, JoinedTo(g, t, k, i)
    PROVE  JoinedTo(g, t, k, i + 1)
<1> DEFINE c == SpacesTo(t, i)
           N == SpacesTo(t, k) + 1
           f == Split(t)
<1> SUFFICES ASSUME EndsField(t, k, i + 1)
             PROVE  g[SpacesTo(t, i + 1) + 1] = First(t, i + 1)
  BY DEF JoinedTo
<1>1. i + 1 \in Nat /\ i + 1 \in 0 .. k
  OBVIOUS
<1>2. c \in Nat /\ SpacesTo(t, i + 1) = c + 1
  BY SpacesStep
<1>3. N \in Nat /\ (c + 1) + 1 <= N
  <2>1. SpacesTo(t, k) \in Nat /\ SpacesTo(t, i + 1) <= SpacesTo(t, k)
    BY <1>1, SpacesGrow, SpacesStep
  <2> HIDE DEF c
  <2> QED BY <1>2, <2>1
<1>4. f[(c + 1) + 1] = ""
  <2>1. i + 1 = 0 \/ t[i + 1] = SP
    OBVIOUS
  <2>2. Split(t)[SpacesTo(t, i + 1) + 1] = ""
    BY <1>1, <2>1, EmptyField
  <2> HIDE DEF c
  <2> QED BY <1>2, <2>2
<1>5. g[c + 1] = First(t, i)
  BY DEF JoinedTo, EndsField
<1> HIDE DEF c, N, f
<1>6. Joins(g, f, N)
  BY DEF N, f
<1>7. g[(c + 1) + 1] = More(g[c + 1], f[(c + 1) + 1])
  <2>1. c + 1 \in Nat /\ c + 1 >= 1
    BY <1>2
  <2> QED BY <1>3, <1>6, <2>1, JoinsStep
<1>8. More(First(t, i), "") = First(t, i + 1)
  BY MoreEmpty
<1> QED BY <1>2, <1>4, <1>5, <1>7, <1>8

\* The first token, if it is a word
LEMMA JoinedFirst ==
    ASSUME NEW t, NEW k \in Nat, Apart(t, k), t \in Seq(Token),
           NEW g, Joins(g, Split(t), SpacesTo(t, k) + 1),
           1 <= k, t[1] # SP
    PROVE  JoinedTo(g, t, k, 1)
<1> SUFFICES ASSUME EndsField(t, k, 1)
             PROVE  g[SpacesTo(t, 1) + 1] = First(t, 1)
  BY DEF JoinedTo
<1>1. 1 \in 1 .. k /\ 0 \in Nat /\ 0 + 1 = 1 /\ 0 + 1 <= k /\ k = Len(t)
  <2>1. k = Len(t)
    BY DEF Apart
  <2> QED BY <2>1
<1>2. SpacesTo(t, 1) = 0 /\ SpacesTo(t, k) \in Nat
  <2>1. SpacesTo(t, 0 + 1) = IF t[0 + 1] = SP THEN SpacesTo(t, 0) + 1
                             ELSE SpacesTo(t, 0)
    BY <1>1, SpacesStep
  <2> QED BY <1>1, <2>1, SpacesStep
<1>3. Split(t)[0 + 1] = t[1]
  BY <1>1, <1>2, WordField
<1>4. g[1] = Text(Split(t)[1])
  <2>1. SpacesTo(t, k) + 1 \in Nat /\ SpacesTo(t, k) + 1 >= 1
    BY <1>2
  <2> QED BY <2>1, JoinsStep
<1>5. t[1] # ""
  BY <1>1 DEF Apart
<1>6. First(t, 1) = <<t[1]>>
  <2> DEFINE s == SubSeq(t, 1, 1)
  <2>1. s \in Seq(Token) /\ Len(s) = 1 /\ \A i \in 1 .. 1 : s[i] = t[i]
    BY <1>1, Prefix
  <2> HIDE DEF s
  <2>2. s[1] = t[1]
    BY <2>1
  <2>3. s = <<s[1]>>
    BY <2>1
  <2> QED BY <2>2, <2>3 DEF First, s
<1> QED BY <1>1, <1>2, <1>3, <1>4, <1>5, <1>6 DEF Text

\* A word behind a space
LEMMA JoinedWord ==
    ASSUME NEW t, NEW k \in Nat, Apart(t, k), t \in Seq(Token),
           NEW g, Joins(g, Split(t), SpacesTo(t, k) + 1),
           NEW i \in Nat, i + 2 <= k, t[i + 1] = SP, t[i + 2] # SP,
           JoinedTo(g, t, k, i)
    PROVE  JoinedTo(g, t, k, i + 2)
<1> DEFINE c == SpacesTo(t, i)
           N == SpacesTo(t, k) + 1
           f == Split(t)
           j == i + 2
<1> SUFFICES ASSUME EndsField(t, k, j)
             PROVE  g[SpacesTo(t, j) + 1] = First(t, j)
  BY DEF JoinedTo
<1>1. /\ i + 1 \in Nat /\ (i + 1) + 1 = j /\ j \in Nat /\ j \in 1 .. k
      /\ j - 1 = i + 1
  OBVIOUS
<1>2. k = Len(t) /\ t[j] # ""
  BY <1>1 DEF Apart
<1>3. c \in Nat /\ SpacesTo(t, j) = c + 1
  <2>1. c \in Nat /\ SpacesTo(t, i + 1) = c + 1
    BY SpacesStep
  <2>2. SpacesTo(t, (i + 1) + 1) = SpacesTo(t, i + 1)
    BY <1>1, SpacesStep
  <2> QED BY <1>1, <2>1, <2>2
<1>4. N \in Nat /\ (c + 1) + 1 <= N
  <2>1. j <= k
    OBVIOUS
  <2>2. SpacesTo(t, k) \in Nat /\ SpacesTo(t, j) <= SpacesTo(t, k)
    BY <1>1, <2>1, SpacesGrow, SpacesStep
  <2> HIDE DEF c, j
  <2> QED BY <1>3, <2>2
<1>5. g[c + 1] = First(t, i)
  BY DEF JoinedTo, EndsField
<1>6. More(First(t, i), t[j]) = First(t, j)
  <2> DEFINE w == t[j]
  <2>1. w = t[i + 2] /\ w # ""
    BY <1>2
  <2> HIDE DEF w
  <2>2. More(First(t, i), w) = First(t, i + 2)
    BY <1>2, <2>1, MoreWord
  <2> QED BY <2>2 DEF w
<1> HIDE DEF j
<1>7. f[(c + 1) + 1] = t[j]
  <2>1. t[j] # SP /\ t[j - 1] = SP
    BY <1>1 DEF j
  <2> QED BY <1>1, <1>2, <1>3, <2>1, WordField
<1> HIDE DEF c, N, f
<1>8. Joins(g, f, N)
  BY DEF N, f
<1>9. g[(c + 1) + 1] = More(g[c + 1], f[(c + 1) + 1])
  <2>1. c + 1 \in Nat /\ c + 1 >= 1
    BY <1>3
  <2> QED BY <1>4, <1>8, <2>1, JoinsStep
<1> QED BY <1>3, <1>5, <1>6, <1>7, <1>9

\* Splitting a line and joining its fields gives the line.
LEMMA JoinSplit ==
    ASSUME NEW t, NEW k \in Nat, Apart(t, k), t \in Seq(Token)
    PROVE  Join(Split(t)) = t
<1>1. k = Len(t)
  BY DEF Apart
<1> DEFINE N == SpacesTo(t, k) + 1
<1>2. N \in Nat /\ N = Len(Split(t))
  BY <1>1, SplitIs DEF SpacesTo
<1>3. PICK g : Joins(g, Split(t), N) /\ Join(Split(t)) = g[N]
  <2> HIDE DEF N
  <2> QED BY <1>2, JoinIs
<1> DEFINE S == {i \in Nat : i <= k => /\ JoinedTo(g, t, k, i)
                                       /\ i > 0 => JoinedTo(g, t, k, i - 1)}
<1>4. 0 \in S
  BY <1>1, <1>3, JoinedNone
<1>5. ASSUME NEW i \in Nat, i \in S
      PROVE  i + 1 \in S
  <2> SUFFICES ASSUME i + 1 <= k PROVE JoinedTo(g, t, k, i + 1)
    <3>1. i + 1 \in Nat /\ (i + 1) - 1 = i
      OBVIOUS
    <3>2. i + 1 <= k => JoinedTo(g, t, k, i)
      BY <1>5
    <3> QED BY <3>1, <3>2
  <2>1. JoinedTo(g, t, k, i) /\ (i > 0 => JoinedTo(g, t, k, i - 1))
    BY <1>5
  <2>2. CASE t[i + 1] = SP
    BY <1>1, <1>3, <2>1, <2>2, JoinedSpace
  <2>3. CASE t[i + 1] # SP /\ i = 0
    BY <1>3, <2>3, JoinedFirst
  <2>4. CASE t[i + 1] # SP /\ i > 0
    <3> DEFINE h == i - 1
    <3>1. h \in Nat /\ h + 1 = i /\ h + 2 = i + 1 /\ i \in 1 .. k /\ i + 1 \in 1 .. k
      BY <2>4
    <3>2. t[i] = SP
      BY <2>4, <3>1 DEF Apart
    <3>3. JoinedTo(g, t, k, h)
      BY <2>1, <2>4
    <3> HIDE DEF h
    <3>4. JoinedTo(g, t, k, h + 2)
      BY <1>3, <2>4, <3>1, <3>2, <3>3, JoinedWord
    <3> QED BY <3>1, <3>4
  <2> QED BY <2>2, <2>3, <2>4
<1>6. k \in S
  <2> HIDE DEF S
  <2> QED BY <1>4, <1>5, Induction
<1>7. JoinedTo(g, t, k, k)
  BY <1>6
<1>8. g[N] = First(t, k)
  BY <1>7 DEF JoinedTo, EndsField
<1>9. First(t, k) = t
  BY <1>1, SubSeqFull DEF First
<1> QED BY <1>3, <1>8, <1>9

\* What is left of a line is words, with spaces between them.
LEMMA TrimmedApart ==
    ASSUME NEW l \in Lines, NEW n \in Nat, n = Len(l), NEW t, NEW k \in 0 .. n,
           Trimmed(l, n, t, k)
    PROVE  Apart(t, k)
<1>1. /\ t \in Seq(Token) /\ k = Len(t) /\ \A i \in 1 .. k : t[i] = l[i]
      /\ k > 0 => l[k] \in Word
  BY DEF Trimmed
<1>2. \A i \in 1 .. n : l[i] \in (Word \ {""}) \cup White
  BY LineTokens
<1>3. ASSUME NEW i \in 1 .. k
      PROVE  t[i] = SP \/ t[i] \in Word \ {""}
  <2>1. i \in 1 .. n /\ k \in 1 .. n /\ k > 0 /\ t[i] = l[i]
    BY <1>1
  <2>2. l[k] \in Word /\ l[k] \notin White
    BY <1>1, <2>1, WordAssumption
  <2>3. CASE i = k
    BY <1>2, <2>1, <2>2, <2>3
  <2>4. CASE i < k
    <3>1. l[i] \notin {CR, LF, TAB}
      BY <2>1, <2>2, <2>4, LineOrder
    <3> QED BY <1>2, <2>1, <3>1 DEF White
  <2>5. i = k \/ i < k
    OBVIOUS
  <2> QED BY <2>3, <2>4, <2>5
<1>4. ASSUME NEW i \in 1 .. k, NEW j \in 1 .. k, j = i + 1
      PROVE  t[i] = SP \/ t[j] = SP
  <2>1. i \in 1 .. n /\ j \in 1 .. n /\ t[i] = l[i] /\ t[j] = l[j]
    BY <1>1
  <2>2. l[i] \in White \/ l[j] \in White
    BY <1>4, <2>1, LinesAssumption
  <2>3. \A w \in Word : w \notin White
    BY WordAssumption
  <2>4. (t[i] \in White => t[i] = SP) /\ (t[j] \in White => t[j] = SP)
    BY <1>3, <2>3
  <2> QED BY <2>1, <2>2, <2>4
<1>5. t \in Seq(Word \cup {SP})
  <2>1. \A i \in 1 .. k : t[i] \in Word \cup {SP}
    BY <1>3
  <2>2. t = [i \in 1 .. k |-> t[i]]
    BY <1>1
  <2>3. k \in Nat
    OBVIOUS
  <2>4. t \in [1 .. k -> Word \cup {SP}]
    BY <2>1, <2>2
  <2> QED BY <2>3, <2>4
<1> QED BY <1>1, <1>3, <1>4, <1>5 DEF Apart

\* The first of some words and the others
LEMMA FirstAndRest ==
    ASSUME NEW S, NEW f \in Seq(S), f # <<>>
    PROVE  /\ <<f[1]>> \o Tail(f) = f
           /\ Tail(f) # <<>> => Len(f) > 1 /\ Tail(f)[Len(Tail(f))] = f[Len(f)]
<1> DEFINE r == Tail(f)
           n == Len(f)
           h == <<f[1]>>
           u == h \o r
<1>1. /\ r \in Seq(S) /\ Len(r) = n - 1 /\ n \in Nat /\ n >= 1
      /\ \A i \in 1 .. Len(r) : r[i] = f[i + 1]
      /\ r # <<>> => Len(r) # 0
  <2>1. /\ r \in Seq(S) /\ Len(r) = n - 1
        /\ \A i \in 1 .. Len(r) : r[i] = f[i + 1]
    BY HeadTailProperties
  <2>2. n \in Nat /\ n >= 1
    OBVIOUS
  <2> HIDE DEF r, n
  <2>3. r # <<>> => Len(r) # 0
    BY <2>1
  <2> QED BY <2>1, <2>2, <2>3
<1>2. h \in Seq(S) /\ Len(h) = 1 /\ h[1] = f[1]
  <2>1. 1 \in 1 .. Len(f)
    BY <1>1
  <2>2. f[1] \in S
    BY <2>1, ElementOfSeq
  <2> QED BY <2>2
<1>3. n = Len(f)
  OBVIOUS
<1>4. /\ u \in Seq(S) /\ Len(u) = Len(h) + Len(r)
      /\ \A i \in 1 .. Len(h) + Len(r) : u[i] = IF i <= Len(h) THEN h[i]
                                                 ELSE r[i - Len(h)]
  <2> HIDE DEF h, r
  <2> QED BY <1>1, <1>2, ConcatProperties
<1> HIDE DEF r, n, h, u
<1>5. Len(u) = n
  BY <1>1, <1>2, <1>4
<1>6. ASSUME NEW i \in 1 .. n
      PROVE  u[i] = f[i]
  <2>1. CASE i = 1
    BY <1>1, <1>2, <1>4, <2>1
  <2>2. CASE i > 1
    <3>1. i - 1 \in 1 .. Len(r) /\ (i - 1) + 1 = i /\ ~(i <= 1)
      BY <1>1, <2>2
    <3>2. u[i] = r[i - 1]
      BY <1>1, <1>2, <1>4, <3>1
    <3> QED BY <1>1, <3>1, <3>2
  <2> QED BY <2>1, <2>2
<1>7. u = f
  BY <1>3, <1>4, <1>5, <1>6, SeqEqual
<1>8. r # <<>> => n > 1 /\ r[Len(r)] = f[n]
  BY <1>1
<1> QED BY <1>7, <1>8 DEF r, n, h, u

\* The last field is not empty, if there are more than one.
LEMMA LastField ==
    ASSUME NEW t, NEW k \in Nat, Apart(t, k), t \in Seq(Token),
           k > 0 => t[k] # SP, Len(Split(t)) > 1
    PROVE  Split(t)[Len(Split(t))] # ""
<1>1. k = Len(t)
  BY DEF Apart
<1>2. Len(Split(t)) = SpacesTo(t, k) + 1
  BY <1>1, SplitIs DEF SpacesTo
<1>3. k # 0
  BY <1>2, SpacesStep
<1>4. k \in 1 .. k /\ t[k] # SP
  BY <1>3
<1>5. k = 1 \/ t[k - 1] = SP
  <2> SUFFICES ASSUME k # 1 PROVE t[k - 1] = SP
    OBVIOUS
  <2>1. k - 1 \in 1 .. k /\ k = (k - 1) + 1
    BY <1>3
  <2> QED BY <1>4, <2>1 DEF Apart
<1>6. Split(t)[SpacesTo(t, k) + 1] = t[k]
  BY <1>1, <1>4, <1>5, WordField DEF EndsField
<1>7. t[k] \in Word \ {""}
  BY <1>4 DEF Apart
<1> QED BY <1>2, <1>6, <1>7

-----------------------------------------------------------------------------
\* The theorem

\* The inductive invariant: the command is what parseCommand made of the line.
LineInv == /\ line \in Lines
           /\ pc = "parsed" => cmd = Parsed(ReadLine(line))

\* LineInv holds throughout.
LEMMA LineInvariant == Spec => []LineInv
<1>1. Init => LineInv
  BY DEF Init, LineInv
<1>2. LineInv /\ [Next]_vars => LineInv'
  BY DEF LineInv, Next, Read, Done, vars
<1> QED BY <1>1, <1>2, PTL DEF Spec

\* What LineInv says of a line that ends in CR LF
LEMMA LineInvDispatches == LineInv => Dispatched
<1> SUFFICES ASSUME LineInv, pc = "parsed", Proper
             PROVE  LET verb == IF line[1] \in Word \ EightBit
                                THEN Upper[line[1]] ELSE ""
                        arguments == \E i \in 2 .. Len(line) : line[i] \in Word
                    IN IF verb \in DOMAIN HandlerFor
                          /\ ~(verb \in Bare /\ arguments)
                       THEN cmd # NoCommand /\ Handler(cmd) = HandlerFor[verb]
                       ELSE cmd = NoCommand
  BY DEF Dispatched
<1> DEFINE n == Len(line)
           m == n - 2
           arguments == \E i \in 2 .. n : line[i] \in Word
<1>1. line \in Lines /\ n \in Nat /\ n > 1 /\ line[n - 1] = CR
  BY LineTokens DEF LineInv, Proper
<1>2. n = Len(line)
  OBVIOUS
<1> HIDE DEF n
<1>3. m \in Nat /\ m + 2 = n /\ m + 1 = n - 1
  BY <1>1
<1>4. PICK k \in 0 .. m : \E t : Trimmed(line, n, t, k)
  <2> HIDE DEF m
  <2> QED BY <1>1, <1>2, <1>3, TrimmedLine
<1>5. PICK t : Trimmed(line, n, t, k)
  BY <1>4
<1>6. k \in 0 .. n /\ n > 0
  BY <1>1, <1>3
<1>7. cmd = parseCommand(t)
  BY <1>5 DEF LineInv, Parsed, Trimmed
<1>8. "" \notin DOMAIN HandlerFor /\ "" \in Word /\ Upper[""] = ""
  BY WordAssumption DEF HandlerFor
<1>9. CASE line[1] \in Word
  <2>1. /\ Split(t)[1] = line[1]
        /\ Len(Split(t)) = 1 <=> ~arguments
    BY <1>1, <1>2, <1>5, <1>6, <1>9, FirstWord
  <2> HIDE DEF arguments
  <2>2. IF /\ line[1] \notin EightBit /\ Upper[line[1]] \in DOMAIN HandlerFor
           /\ Upper[line[1]] \in Bare => ~arguments
        THEN /\ cmd # NoCommand
             /\ Handler(cmd) = HandlerFor[Upper[line[1]]]
        ELSE cmd = NoCommand
    BY <1>7, <1>9, <2>1, ParseFirst
  <2> QED BY <1>2, <1>8, <1>9, <2>2 DEF arguments
<1>10. CASE line[1] \notin Word
  <2>1. Split(t)[1] = ""
    BY <1>1, <1>2, <1>5, <1>6, <1>10, NoFirstWord
  <2>2. cmd = NoCommand
    BY <1>7, <1>8, <2>1, ParseFirst
  <2> QED BY <1>8, <1>10, <2>2
<1> QED BY <1>9, <1>10

\* What LineInv says of the command in such a line
LEMMA LineInvKeeps == LineInv => NothingLost
<1> SUFFICES ASSUME LineInv, pc = "parsed", cmd # NoCommand, Proper
             PROVE  /\ Spells(Join(<<cmd.verb>> \o cmd.arguments))
                    /\ cmd.arguments # <<>> =>
                          cmd.arguments[Len(cmd.arguments)] # ""
  BY DEF NothingLost, Recognized
<1> DEFINE n == Len(line)
           m == n - 2
<1>1. /\ line \in Lines /\ n \in Nat /\ n > 1 /\ line[n - 1] = CR
      /\ line \in Seq(Token)
  BY LineTokens DEF LineInv, Proper
<1>2. n = Len(line)
  OBVIOUS
<1> HIDE DEF n
<1>3. m \in Nat /\ m + 2 = n /\ m + 1 = n - 1
  BY <1>1
<1>4. PICK k \in 0 .. m : \E t : Trimmed(line, n, t, k)
  <2> HIDE DEF m
  <2> QED BY <1>1, <1>2, <1>3, TrimmedLine
<1>5. PICK t : Trimmed(line, n, t, k)
  BY <1>4
<1>6. k \in 0 .. n /\ k \in Nat /\ k <= n - 2
  BY <1>1, <1>3
<1>7. /\ t \in Seq(Token) /\ k = Len(t)
      /\ \A i \in 1 .. k : t[i] = line[i]
      /\ k > 0 => line[k] \in Word
      /\ \A i \in 1 .. n : i > k => line[i] \notin Word
  BY <1>5 DEF Trimmed
<1>8. Apart(t, k)
  BY <1>1, <1>2, <1>5, <1>6, TrimmedApart
<1> DEFINE f == Split(t)
<1>9. f \in Seq(Word) /\ f # <<>>
  BY <1>8, SplitType DEF Apart
<1>10. cmd = parseCommand(t)
  BY <1>5 DEF LineInv, Parsed, Trimmed
<1>11. cmd.verb = f[1] /\ cmd.arguments = Tail(f)
  BY <1>10, ParseIs
<1>12. Join(f) = t
  BY <1>6, <1>7, <1>8, JoinSplit
<1>13. f[Len(f)] # "" \/ ~(Len(f) > 1)
  <2>1. k > 0 => t[k] # SP
    <3>1. SP \notin Word
      BY WordAssumption DEF White
    <3>2. k > 0 => k \in 1 .. k
      BY <1>6
    <3> QED BY <1>7, <3>1, <3>2
  <2> QED BY <1>6, <1>7, <1>8, <2>1, LastField
<1> HIDE DEF f
<1>14. /\ <<f[1]>> \o Tail(f) = f
       /\ Tail(f) # <<>> => Len(f) > 1 /\ Tail(f)[Len(Tail(f))] = f[Len(f)]
  BY <1>9, FirstAndRest
<1>15. Join(<<cmd.verb>> \o cmd.arguments) = t
  BY <1>11, <1>12, <1>14, Zenon
<1>16. t = SubSeq(line, 1, k)
  <2> DEFINE s == SubSeq(line, 1, k)
  <2>1. k <= Len(line)
    BY <1>2, <1>6
  <2>2. s \in Seq(Token) /\ Len(s) = k /\ \A i \in 1 .. k : s[i] = line[i]
    BY <1>1, <1>6, <2>1, Prefix
  <2> HIDE DEF s
  <2>3. t = s
    BY <1>7, <2>2, SeqEqual
  <2> QED BY <2>3 DEF s
<1>17. \A i \in k + 1 .. n : line[i] \in White
  <2>1. \A i \in 1 .. n : line[i] \in (Word \ {""}) \cup White
    BY <1>1, <1>2, LineTokens
  <2>2. \A i \in k + 1 .. n : i \in 1 .. n /\ i > k
    BY <1>1, <1>6
  <2> QED BY <1>7, <2>1, <2>2
<1>18. cmd.arguments # <<>> => cmd.arguments[Len(cmd.arguments)] # ""
  BY <1>11, <1>13, <1>14, Zenon
<1>19. k <= n
  BY <1>1, <1>6
<1>20. Spells(t)
  BY <1>2, <1>7, <1>16, <1>17, <1>19, Zenon DEF Spells
<1> QED BY <1>15, <1>18, <1>20, Zenon

\* The words and spaces of a line that is taken for a command all reach its
\* handler, as verb and arguments, whatever the words and the lines; a run of
\* spaces makes empty arguments (ReadLine, strings.TrimRightFunc and strings.Split in
\* parseCommand).
THEOREM NothingIsLost == Spec => []NothingLost
BY LineInvariant, LineInvKeeps, PTL

\* Every line with a verb in front reaches the handler of that verb, and no
\* other line reaches any, whatever the words and the lines (parseCommand in
\* command.go, the table handlers in session.go).
THEOREM CommandsAreDispatched == Spec => []Dispatched
BY LineInvariant, LineInvDispatches, PTL

=============================================================================
