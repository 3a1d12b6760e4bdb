--------------------------- MODULE DialogueProofs ---------------------------
(***************************************************************************)
(* Proofs about Dialogue, for all commands, messages, limits and groups.    *)
(***************************************************************************)
EXTENDS Dialogue, RefinementProofs, CommandLineProofs

-----------------------------------------------------------------------------
\* What the client hears

\* g says what the client has become after each of the first m replies.
Tracks(g, c, heard, m) ==
    g = [n \in 0 .. m |-> IF n = 0 THEN c ELSE Hears(g[n - 1], heard[n])]

\* There is such a function for every number of replies.
LEMMA TracksExists ==
    ASSUME NEW c, NEW heard, NEW N \in Nat
    PROVE  \E g : Tracks(g, c, heard, N)
<1> DEFINE S == {m \in Nat : \E g : Tracks(g, c, heard, m)}
<1>1. 0 \in S
  <2> DEFINE g == [n \in 0 .. 0 |-> c]
  <2>1. Tracks(g, c, heard, 0)
    BY DEF Tracks
  <2> QED BY <2>1
<1>2. ASSUME NEW m \in Nat, m \in S
      PROVE  m + 1 \in S
  <2>1. PICK g : Tracks(g, c, heard, m)
    BY <1>2
  <2> DEFINE h == [n \in 0 .. m + 1 |->
                      IF n = m + 1 THEN Hears(g[m], heard[m + 1]) ELSE g[n]]
  <2>2. \A n \in 0 .. m : g[n] = IF n = 0 THEN c ELSE Hears(g[n - 1], heard[n])
    BY <2>1 DEF Tracks
  <2>3. \A n \in 0 .. m + 1 :
           h[n] = IF n = 0 THEN c ELSE Hears(h[n - 1], heard[n])
    <3> TAKE n \in 0 .. m + 1
    <3>1. CASE n = m + 1
      <4>1. h[n] = Hears(g[m], heard[m + 1]) /\ h[m] = g[m] /\ n - 1 = m /\ n # 0
        BY <3>1
      <4> QED BY <3>1, <4>1
    <3>2. CASE n # m + 1
      <4>1. n \in 0 .. m /\ h[n] = g[n]
        BY <3>2
      <4>2. n # 0 => h[n - 1] = g[n - 1]
        BY <3>2
      <4> QED BY <2>2, <4>1, <4>2
    <3> QED BY <3>1, <3>2
  <2>4. h = [n \in 0 .. m + 1 |-> h[n]]
    OBVIOUS
  <2> HIDE DEF h
  <2>5. h = [n \in 0 .. m + 1 |-> IF n = 0 THEN c ELSE Hears(h[n - 1], heard[n])]
    BY <2>3, <2>4
  <2> QED BY <2>5 DEF Tracks
<1> HIDE DEF S
<1>3. N \in S
  BY <1>1, <1>2, Induction
<1> QED BY <1>3 DEF S

\* The same, step by step, with the client that is left in the end
Ends(g, c, heard, N) == /\ g[0] = c
                        /\ \A n \in 1 .. N : g[n] = Hears(g[n - 1], heard[n])
                        /\ Hearing(c, heard) = g[N]

\* Hearing goes through such a function.
LEMMA HearingIs ==
    ASSUME NEW c, NEW heard \in Seq(Reply), NEW N \in Nat, N = Len(heard)
    PROVE  \E g : Ends(g, c, heard, N)
<1> DEFINE g == CHOOSE h : h = [n \in 0 .. N |-> IF n = 0 THEN c
                                               ELSE Hears(h[n - 1], heard[n])]
<1>1. \E h : h = [n \in 0 .. N |-> IF n = 0 THEN c ELSE Hears(h[n - 1], heard[n])]
  <2>1. PICK h : Tracks(h, c, heard, N)
    BY TracksExists
  <2>2. h = [n \in 0 .. N |-> IF n = 0 THEN c ELSE Hears(h[n - 1], heard[n])]
    BY <2>1 DEF Tracks
  <2> QED BY <2>2, Zenon
<1>2. g = [n \in 0 .. N |-> IF n = 0 THEN c ELSE Hears(g[n - 1], heard[n])]
  BY <1>1, Zenon
<1>3. Hearing(c, heard) = g[N]
  BY DEF Hearing
<1> HIDE DEF g
<1> QED BY <1>2, <1>3 DEF Ends

\* The client, between two steps
Clients == [due : Seq(Word \cup {"welcome"}),
            heard : {"answer", "notice", "surplus"},
            mode : Mode, lines : Nat, greeted : BOOLEAN, tls : BOOLEAN]

\* A reply leaves a client, who encrypts or not as before.
LEMMA HearsType ==
    ASSUME NEW c \in Clients, NEW reply
    PROVE  Hears(c, reply) \in Clients /\ Hears(c, reply).tls = c.tls
<1>1. c.due # <<>> => Tail(c.due) \in Seq(Word \cup {"welcome"})
  BY DEF Clients
<1>2. {"commands", "text", "response", "hello"} \subseteq Mode
  BY DEF Mode
<1>3. Meaning(c, reply) \in {"answer", "notice", "surplus"}
  BY DEF Meaning
<1> HIDE DEF Meaning
<1> QED BY <1>1, <1>2, <1>3 DEF Hears, Clients

\* So do any number of replies.
LEMMA HearingType ==
    ASSUME NEW c \in Clients, NEW heard \in Seq(Reply)
    PROVE  Hearing(c, heard) \in Clients /\ Hearing(c, heard).tls = c.tls
<1> DEFINE N == Len(heard)
<1>1. N \in Nat /\ N = Len(heard)
  OBVIOUS
<1> HIDE DEF N
<1>2. PICK g : Ends(g, c, heard, N)
  BY <1>1, HearingIs
<1> DEFINE S == {n \in Nat : n <= N => g[n] \in Clients /\ g[n].tls = c.tls}
<1>3. 0 \in S
  BY <1>2 DEF Ends
<1>4. ASSUME NEW n \in Nat, n \in S
      PROVE  n + 1 \in S
  <2> SUFFICES ASSUME n + 1 <= N
               PROVE  g[n + 1] \in Clients /\ g[n + 1].tls = c.tls
    OBVIOUS
  <2>1. g[n] \in Clients /\ g[n].tls = c.tls
    BY <1>1, <1>4
  <2>2. n + 1 \in 1 .. N /\ (n + 1) - 1 = n
    BY <1>1
  <2>3. g[n + 1] = Hears(g[n], heard[n + 1])
    BY <1>2, <2>2 DEF Ends
  <2> QED BY <2>1, <2>3, HearsType
<1> HIDE DEF S
<1>5. N \in S
  BY <1>1, <1>3, <1>4, Induction
<1> QED BY <1>1, <1>2, <1>5 DEF S, Ends

\* No reply, and one
LEMMA HearingOne ==
    ASSUME NEW c
    PROVE  /\ Hearing(c, <<>>) = c
           /\ \A r \in Reply : Hearing(c, <<r>>) = Hears(c, r)
<1>1. Hearing(c, <<>>) = c
  <2>1. <<>> \in Seq(Reply) /\ 0 = Len(<<>>) /\ 0 \in Nat
    OBVIOUS
  <2>2. PICK g : Ends(g, c, <<>>, 0)
    BY <2>1, HearingIs
  <2> QED BY <2>2 DEF Ends
<1>2. ASSUME NEW r \in Reply
      PROVE  Hearing(c, <<r>>) = Hears(c, r)
  <2>1. /\ <<r>> \in Seq(Reply) /\ 1 = Len(<<r>>) /\ 1 \in Nat /\ 1 \in 1 .. 1
        /\ 1 - 1 = 0 /\ <<r>>[1] = r
    OBVIOUS
  <2>2. PICK g : Ends(g, c, <<r>>, 1)
    BY <2>1, HearingIs
  <2> QED BY <2>1, <2>2 DEF Ends
<1> QED BY <1>1, <1>2

\* The reply ends the command.
Final(reply, verb) == /\ ~(Prompting(reply) /\ verb \in {"DATA", "AUTH"})
                      /\ ~(Positive(reply) /\ verb = "STARTTLS")

\* A final reply to the first of the commands
LEMMA HearsFinal ==
    ASSUME NEW c \in Clients, c.mode \notin {"handshake"}, c.due # <<>>, NEW reply,
           Final(reply, Head(c.due))
    PROVE  LET d == Hears(c, reply)
           IN /\ d.due = Tail(c.due) /\ d.mode = c.mode
              /\ d.heard = IF reply \in Notices THEN "notice" ELSE "answer"
<1>1. Meaning(c, reply) = IF reply \in Notices THEN "notice" ELSE "answer"
  BY DEF Meaning
<1>2. Hears(c, reply) = [c EXCEPT !.due = Tail(@), !.heard = Meaning(c, reply)]
  BY DEF Hears, Final
<1> HIDE DEF Hears, Meaning
<1> QED BY <1>1, <1>2 DEF Clients

\* One answer, and only notices in front of it
Answering(heard) == /\ heard # <<>>
                    /\ heard[Len(heard)] \notin Notices
                    /\ \A i \in 1 .. Len(heard) - 1 : heard[i] \in Notices

\* One reply that is no notice is an answer.
LEMMA OneAnswer == ASSUME NEW r, r \notin Notices PROVE Answering(<<r>>)
<1>1. <<r>> # <<>> /\ Len(<<r>>) = 1 /\ <<r>>[1] = r
  OBVIOUS
<1>2. 1 .. 1 - 1 = {}
  OBVIOUS
<1> QED BY <1>1, <1>2 DEF Answering

\* An answer to the first of the commands, behind notices only if no other
\* answer is due
LEMMA HearingFinal ==
    ASSUME NEW c \in Clients, c.mode = "commands", c.due # <<>>,
           NEW heard \in Seq(Reply), Answering(heard),
           Final(heard[1], Head(c.due)), heard[1] \in Notices => Len(c.due) = 1
    PROVE  LET d == Hearing(c, heard)
           IN d.due = Tail(c.due) /\ d.mode = "commands" /\ d.heard = "answer"
<1> DEFINE N == Len(heard)
           Informed(d) == d.due = <<>> /\ d.mode = "commands" /\ d.heard = "notice"
<1>1. N \in Nat /\ N >= 1 /\ N = Len(heard)
  BY DEF Answering
<1>2. PICK g : Ends(g, c, heard, N)
  BY <1>1, HearingIs
<1>3. heard[N] \notin Notices /\ \A i \in 1 .. N - 1 : heard[i] \in Notices
  BY DEF Answering
<1> HIDE DEF N
<1>4. g[1] = Hears(c, heard[1])
  <2>1. 1 \in 1 .. N /\ 1 - 1 = 0
    BY <1>1
  <2> QED BY <1>2, <2>1 DEF Ends
<1>5. /\ g[1].due = Tail(c.due) /\ g[1].mode = "commands"
      /\ g[1].heard = IF heard[1] \in Notices THEN "notice" ELSE "answer"
  BY <1>4, HearsFinal
<1>6. CASE N = 1
  BY <1>2, <1>3, <1>5, <1>6 DEF Ends
<1>7. CASE N > 1
  <2>1. heard[1] \in Notices
    <3>1. 1 \in 1 .. N - 1
      BY <1>1, <1>7
    <3> QED BY <1>3, <3>1
  <2>2. Tail(c.due) = <<>>
    <3>1. c.due \in Seq(Word \cup {"welcome"}) /\ Len(c.due) = 1
      BY <2>1 DEF Clients
    <3> DEFINE u == Tail(c.due)
    <3>2. u \in Seq(Word \cup {"welcome"}) /\ Len(u) = 0
      BY <3>1, HeadTailProperties
    <3> HIDE DEF u
    <3>3. u = <<>>
      BY <3>2
    <3> QED BY <3>3 DEF u
  <2>3. \A n \in 1 .. N : g[n] \in Clients
    <3> DEFINE T == {n \in Nat : n <= N => g[n] \in Clients}
    <3>1. 0 \in T
      BY <1>2 DEF Ends
    <3>2. ASSUME NEW n \in Nat, n \in T
          PROVE  n + 1 \in T
      <4> SUFFICES ASSUME n + 1 <= N PROVE g[n + 1] \in Clients
        OBVIOUS
      <4>1. n <= N /\ n + 1 \in 1 .. N /\ (n + 1) - 1 = n
        BY <1>1
      <4>2. g[n + 1] = Hears(g[n], heard[n + 1])
        BY <1>2, <4>1 DEF Ends
      <4> QED BY <3>2, <4>1, <4>2, HearsType
    <3> HIDE DEF T
    <3>3. \A n \in Nat : n \in T
      BY <3>1, <3>2, Induction
    <3> QED BY <1>1, <3>3 DEF T
  <2>4. ASSUME NEW d \in Clients, Informed(d), NEW r
        PROVE  LET e == Hears(d, r)
               IN /\ e.due = <<>> /\ e.mode = "commands"
                  /\ e.heard = IF r \in Notices THEN "notice" ELSE "answer"
    <3>1. Meaning(d, r) = IF r \in Notices THEN "notice" ELSE "answer"
      BY <2>4 DEF Meaning
    <3>2. Hears(d, r) = [d EXCEPT !.heard = Meaning(d, r)]
      BY <2>4 DEF Hears
    <3> HIDE DEF Hears, Meaning
    <3> QED BY <2>4, <3>1, <3>2 DEF Clients
  <2> DEFINE S == {n \in Nat : n + 1 <= N - 1 => Informed(g[n + 1])}
  <2>5. 0 \in S
    <3>1. Informed(g[1]) /\ 0 + 1 = 1
      BY <1>5, <2>1, <2>2
    <3> HIDE DEF Informed
    <3> QED BY <3>1
  <2> HIDE DEF Informed
  <2>6. ASSUME NEW n \in Nat, n \in S
        PROVE  n + 1 \in S
    <3> SUFFICES ASSUME (n + 1) + 1 <= N - 1 PROVE Informed(g[(n + 1) + 1])
      OBVIOUS
    <3>1. /\ n + 1 <= N - 1 /\ n + 1 \in 1 .. N /\ (n + 1) + 1 \in 1 .. N - 1
          /\ (n + 1) + 1 \in 1 .. N /\ ((n + 1) + 1) - 1 = n + 1
      BY <1>1
    <3>2. Informed(g[n + 1]) /\ g[n + 1] \in Clients
      BY <2>3, <2>6, <3>1
    <3>3. g[(n + 1) + 1] = Hears(g[n + 1], heard[(n + 1) + 1])
      BY <1>2, <3>1 DEF Ends
    <3>4. heard[(n + 1) + 1] \in Notices
      BY <1>3, <3>1
    <3> QED BY <2>4, <3>2, <3>3, <3>4 DEF Informed
  <2> HIDE DEF S
  <2>7. \A n \in Nat : n \in S
    BY <2>5, <2>6, Induction
  <2>8. /\ N - 2 \in Nat /\ (N - 2) + 1 = N - 1 /\ N - 1 <= N - 1
        /\ N \in 1 .. N /\ N - 1 \in 1 .. N
    BY <1>1, <1>7
  <2>9. Informed(g[N - 1]) /\ g[N - 1] \in Clients
    BY <2>3, <2>7, <2>8 DEF S
  <2>10. g[N] = Hears(g[N - 1], heard[N])
    BY <1>2, <2>8 DEF Ends
  <2>11. g[N].due = <<>> /\ g[N].mode = "commands" /\ g[N].heard = "answer"
    BY <1>3, <2>4, <2>9, <2>10 DEF Informed
  <2> QED BY <1>2, <2>2, <2>11 DEF Ends
<1> QED BY <1>1, <1>6, <1>7

-----------------------------------------------------------------------------
\* What is on its way

\* A line and its end
WithEnd(t) == t \o <<CR, LF>>

\* x has a line of words and spaces, words with single spaces between them if
\* it is a command.
IsLine(x) ==
    \E t \in Seq(Word \cup {SP}) :
       /\ x.line = WithEnd(t)
       /\ x.as = "command" => WellSpaced(t)

\* A command, a line of text or of AUTH, an octet of a chunk or a TLS hello
Sendable ==
    {x \in [as   : {"command", "octet", "text", "dot", "response", "hello"},
            line : Seq(Token),
            enc  : BOOLEAN] :
       IF x.as \in {"octet", "hello"} THEN x.line = <<>> ELSE IsLine(x)}

WireType == /\ buf \in Seq(Sendable)
            /\ wire \in Seq(Sendable)
            /\ cl \in Clients

\* What has a line has text in it.
LEMMA LineOf == \A x \in Sendable : x.line # <<>> => IsLine(x)
BY DEF Sendable

\* A line and its end are a line that ReadLine gives back.
LEMMA ReadLineIs ==
    ASSUME NEW t \in Seq(Word \cup {SP}), NEW l, l = WithEnd(t)
    PROVE  /\ l \in Seq(Token) /\ l # <<>>
           /\ ReadLine(l) = t
<1> DEFINE n == Len(t)
           e == <<CR, LF>>
<1>1. t \in Seq(Token) /\ e \in Seq(Token)
  <2>1. Word \cup {SP} \subseteq Token /\ CR \in Token /\ LF \in Token
    BY DEF Token, White
  <2> QED BY <2>1, SeqMonotonic
<1>2. n \in Nat /\ n = Len(t) /\ Len(e) = 2 /\ e[1] = CR
  OBVIOUS
<1> HIDE DEF n, e
<1>3. /\ l \in Seq(Token) /\ Len(l) = n + 2
      /\ \A i \in 1 .. n + 2 : l[i] = IF i <= n THEN t[i] ELSE e[i - n]
  BY <1>1, <1>2, ConcatProperties DEF e, WithEnd
<1>4. Len(l) - 1 = n + 1 /\ (n + 1) - 1 = n /\ n + 1 \in 1 .. n + 2
      /\ ~(n + 1 <= n) /\ (n + 1) - n = 1
  BY <1>2, <1>3
<1>5. l[n + 1] = CR
  BY <1>2, <1>3, <1>4
<1>6. ReadLine(l) = SubSeq(l, 1, n)
  BY <1>4, <1>5 DEF ReadLine, White
<1> DEFINE p == SubSeq(l, 1, n)
<1>7. p \in Seq(Token) /\ Len(p) = n /\ \A i \in 1 .. n : p[i] = l[i]
  <2>1. n <= Len(l)
    BY <1>2, <1>3
  <2> QED BY <1>2, <1>3, <2>1, Prefix
<1> HIDE DEF p
<1>8. \A i \in 1 .. n : p[i] = t[i]
  BY <1>2, <1>3, <1>7
<1>9. p = t
  BY <1>1, <1>2, <1>7, <1>8, SeqEqual
<1>10. l # <<>>
  BY <1>2, <1>3
<1> QED BY <1>3, <1>6, <1>9, <1>10 DEF p

-----------------------------------------------------------------------------
\* Pieces of sequences

\* g is what is left of f without its first p elements.
Cut(g, f, p) == /\ Len(f) = Len(g) + p
                /\ \A i \in 1 .. Len(g) : g[i] = f[i + p]

\* The end of a sequence
LEMMA Suffix ==
    ASSUME NEW S, NEW f \in Seq(S), NEW p \in Nat, p <= Len(f)
    PROVE  /\ SubSeq(f, p + 1, Len(f)) \in Seq(S)
           /\ Cut(SubSeq(f, p + 1, Len(f)), f, p)
<1> DEFINE n == Len(f)
           g == SubSeq(f, p + 1, n)
<1>1. n \in Nat /\ p <= n
  OBVIOUS
<1>2. \A i \in p + 1 .. n : f[i] \in S
  BY ElementOfSeq
<1> HIDE DEF n
<1>3. p + 1 \in Int /\ n \in Int
  BY <1>1
<1>4. /\ g \in Seq(S) /\ Len(g) = IF p + 1 <= n THEN n - (p + 1) + 1 ELSE 0
      /\ \A i \in 1 .. n - (p + 1) + 1 : g[i] = f[p + 1 + i - 1]
  BY <1>2, <1>3, SubSeqProperties
<1> HIDE DEF g
<1>5. n - (p + 1) + 1 = n - p /\ \A i \in 1 .. n - p : p + 1 + i - 1 = i + p
  BY <1>1
<1>6. Len(g) = n - p /\ n = Len(g) + p
  BY <1>1, <1>4
<1>7. \A i \in 1 .. Len(g) : g[i] = f[i + p]
  BY <1>4, <1>5, <1>6
<1> QED BY <1>4, <1>6, <1>7 DEF g, n, Cut

\* What is cut from the front of a sequence is cut from what it begins.
LEMMA CutConcat ==
    ASSUME NEW S, NEW f \in Seq(S), NEW g \in Seq(S), NEW t \in Seq(S),
           NEW p \in Nat, Cut(g, f, p)
    PROVE  Cut(g \o t, f \o t, p)
<1> DEFINE n == Len(f)
           m == Len(g)
           k == Len(t)
           u == f \o t
           v == g \o t
<1>1. n \in Nat /\ m \in Nat /\ k \in Nat /\ n = m + p
      /\ \A i \in 1 .. m : g[i] = f[i + p]
  BY DEF Cut
<1>2. /\ Len(u) = n + k
      /\ \A i \in 1 .. n + k : u[i] = IF i <= n THEN f[i] ELSE t[i - n]
  BY ConcatProperties
<1>3. /\ Len(v) = m + k
      /\ \A i \in 1 .. m + k : v[i] = IF i <= m THEN g[i] ELSE t[i - m]
  BY ConcatProperties
<1> HIDE DEF n, m, k, u, v
<1>4. Len(u) = Len(v) + p
  BY <1>1, <1>2, <1>3
<1>5. ASSUME NEW i \in 1 .. Len(v)
      PROVE  v[i] = u[i + p]
  <2>1. i \in 1 .. m + k /\ i + p \in 1 .. n + k /\ (i <= m <=> i + p <= n)
        /\ (i + p) - n = i - m
    BY <1>1, <1>3, SMTT(30)
  <2>2. i <= m => i \in 1 .. m
    BY <1>1
  <2> QED BY <1>1, <1>2, <1>3, <2>1, <2>2
<1> QED BY <1>4, <1>5 DEF Cut, u, v

\* A sequence of which everything is cut
LEMMA CutAll ==
    ASSUME NEW S, NEW f \in Seq(S), NEW g \in Seq(S), Cut(g, f, Len(f))
    PROVE  g = <<>>
<1> DEFINE n == Len(f)
           m == Len(g)
<1>1. n \in Nat /\ m \in Nat /\ n = m + n
  BY DEF Cut
<1>2. m = 0
  <2> HIDE DEF n, m
  <2> QED BY <1>1
<1> QED BY <1>2

\* Concatenation, with a name under which it need not be expanded
Cat(x, y) == x \o y

\* Three sequences behind each other
LEMMA Joined ==
    ASSUME NEW S, NEW b \in Seq(S), NEW p \in Seq(S), NEW q \in Seq(S), NEW w,
           Cat(p, q) = w
    PROVE  Cat(Cat(b, p), q) = Cat(b, w)
<1>1. \A x, y, z \in Seq(S) : Cat(Cat(x, y), z) = Cat(x, Cat(y, z))
  BY ConcatAssociative, SMTT(60) DEF Cat
<1> QED BY <1>1

\* What one read takes off the connection, and what it leaves there
Arrived(w, k) == SubSeq(w, 1, k)
Outstanding(w, k) == SubSeq(w, k + 1, Len(w))

\* Reading moves what is on its way, and changes nothing about it.
LEMMA Moved ==
    ASSUME NEW S, NEW b \in Seq(S), NEW w \in Seq(S), NEW k \in 1 .. Len(w)
    PROVE  /\ Cat(b, Arrived(w, k)) \in Seq(S)
           /\ Outstanding(w, k) \in Seq(S)
           /\ Cat(Cat(b, Arrived(w, k)), Outstanding(w, k)) = Cat(b, w)
<1> DEFINE n == Len(w)
           p == SubSeq(w, 1, k)
           q == SubSeq(w, k + 1, n)
<1>1. n \in Nat /\ k \in Nat /\ k <= n /\ 1 \in 1 .. n + 1 /\ k \in 1 - 1 .. n
      /\ n \in k .. n /\ 1 \in Int /\ k \in Int
  OBVIOUS
<1>2. p \in Seq(S)
  <2>1. \A i \in 1 .. k : w[i] \in S
    BY ElementOfSeq
  <2> QED BY <1>1, <2>1, SubSeqProperties
<1>3. q \in Seq(S)
  BY <1>1, Suffix
<1>4. p \o q = SubSeq(w, 1, n)
  BY <1>1, ConcatAdjacentSubSeq
<1>5. SubSeq(w, 1, n) = w
  BY SubSeqFull
<1>6. b \o p \in Seq(S)
  BY <1>2, ConcatProperties
<1>7. Cat(p, q) = w
  BY <1>4, <1>5, Zenon DEF Cat
<1>8. Cat(Cat(b, p), q) = Cat(b, w)
  <2> HIDE DEF n, p, q
  <2> QED BY <1>2, <1>3, <1>7, Joined
<1>9. Arrived(w, k) = p /\ Outstanding(w, k) = q /\ Cat(b, p) = b \o p
  BY Zenon DEF Arrived, Outstanding, Cat
<1> HIDE DEF n, p, q
<1> QED BY <1>3, <1>6, <1>8, <1>9, Zenon

-----------------------------------------------------------------------------
\* How the steps change what is on its way

\* What is on its way are things that are sent.
LEMMA InFlightType ==
    ASSUME buf \in Seq(Sendable), wire \in Seq(Sendable)
    PROVE  InFlight \in Seq(Sendable)
BY ConcatProperties DEF InFlight

\* The session takes the first p of what it has read.
LEMMA TakenFlight ==
    ASSUME buf \in Seq(Sendable), wire \in Seq(Sendable),
           NEW p \in Nat, p <= Len(buf),
           buf' = SubSeq(buf, p + 1, Len(buf)), UNCHANGED wire
    PROVE  buf' \in Seq(Sendable) /\ Cut(InFlight', InFlight, p)
<1>1. buf' \in Seq(Sendable) /\ Cut(buf', buf, p)
  BY Suffix
<1>2. Cut(buf' \o wire, buf \o wire, p)
  BY <1>1, CutConcat
<1>3. InFlight' = buf' \o wire
  BY DEF InFlight
<1> QED BY <1>1, <1>2, <1>3 DEF InFlight

\* The client sends t.
LEMMA SentFlight ==
    ASSUME buf \in Seq(Sendable), wire \in Seq(Sendable),
           NEW t \in Seq(Sendable), wire' = Cat(wire, t), UNCHANGED buf
    PROVE  wire' \in Seq(Sendable) /\ InFlight' = Cat(InFlight, t)
<1>1. wire' \in Seq(Sendable)
  BY ConcatProperties DEF Cat
<1>2. InFlight' = Cat(buf, wire') /\ InFlight = Cat(buf, wire)
  BY DEF InFlight, Cat
<1>3. Cat(Cat(buf, wire), t) = Cat(buf, wire')
  BY Joined
<1> QED BY <1>1, <1>2, <1>3

\* The bufio.Reader reads.
LEMMA FillFlight ==
    ASSUME buf \in Seq(Sendable), wire \in Seq(Sendable), Fill
    PROVE  buf' \in Seq(Sendable) /\ wire' \in Seq(Sendable) /\ InFlight' = InFlight
<1>1. PICK k \in 1 .. Len(wire) : /\ buf' = Cat(buf, Arrived(wire, k))
                                  /\ wire' = Outstanding(wire, k)
  BY DEF Fill, Cat, Arrived, Outstanding
<1>2. /\ Cat(buf, Arrived(wire, k)) \in Seq(Sendable)
      /\ Outstanding(wire, k) \in Seq(Sendable)
      /\ Cat(Cat(buf, Arrived(wire, k)), Outstanding(wire, k)) = Cat(buf, wire)
  BY Moved, ZenonT(30)
<1>3. InFlight = Cat(buf, wire) /\ InFlight' = Cat(buf', wire')
  BY Zenon DEF InFlight, Cat
<1> QED BY <1>1, <1>2, <1>3, Zenon

-----------------------------------------------------------------------------
\* The next line

\* Min, of a set of numbers
LEMMA MinOf ==
    ASSUME NEW S, S \subseteq Nat, S # {}
    PROVE  Min(S) \in S /\ \A y \in S : Min(S) <= y
<1>1. PICK x \in S : \A y \in S : ~(<<y, x>> \in Less)
  BY SmallestExists
<1>2. \A i, j \in Nat : <<i, j>> \in Less <=> i < j
  BY DEF Less
<1>3. \A y \in S : x <= y
  <2> TAKE y \in S
  <2>1. x \in Nat /\ y \in Nat /\ ~(y < x)
    BY <1>1, <1>2
  <2> QED BY <2>1
<1> QED BY <1>3 DEF Min

\* The first line ends within the buffer, and ReadLine finds words and spaces
\* in it.
LEMMA FirstLineType ==
    ASSUME buf \in Seq(Sendable), LineEnds(buf) # {}
    PROVE  /\ Min(LineEnds(buf)) \in 1 .. Len(buf)
           /\ FirstLine \in Seq(Token)
           /\ ReadLine(FirstLine) \in Seq(Word \cup {SP})
<1> DEFINE n == Min(LineEnds(buf))
<1>1. LineEnds(buf) \subseteq 1 .. Len(buf) /\ 1 .. Len(buf) \subseteq Nat
  BY DEF LineEnds
<1>2. n \in LineEnds(buf)
  BY <1>1, MinOf
<1> HIDE DEF n
<1>3. n \in 1 .. Len(buf) /\ buf[n].line # <<>> /\ buf[n] \in Sendable
  BY <1>1, <1>2, ElementOfSeq DEF LineEnds
<1>4. CASE n = 1
  <2>0. buf[1] \in Sendable /\ buf[1].line # <<>>
    BY <1>3, <1>4
  <2>1. PICK t \in Seq(Word \cup {SP}) : buf[1].line = WithEnd(t)
    BY <2>0, LineOf DEF IsLine
  <2>2. buf[1].line \in Seq(Token) /\ ReadLine(buf[1].line) = t
    BY <2>1, ReadLineIs
  <2>3. FirstLine = buf[1].line
    BY <1>4 DEF FirstLine, n
  <2> QED BY <1>3, <2>2, <2>3 DEF n
<1>5. CASE n # 1
  <2>1. FirstLine = <<"junk", CR, LF>>
    BY <1>5 DEF FirstLine, n
  <2>2. <<"junk">> \in Seq(Word \cup {SP}) /\ <<"junk", CR, LF>> = WithEnd(<<"junk">>)
    BY DialogueAssumption DEF WithEnd
  <2>3. <<"junk", CR, LF>> \in Seq(Token) /\ ReadLine(<<"junk", CR, LF>>) = <<"junk">>
    BY <2>2, ReadLineIs
  <2> QED BY <1>3, <2>1, <2>2, <2>3 DEF n
<1> QED BY <1>4, <1>5

\* A trimmed line has a length.
LEMMA TrimSpaceType ==
    ASSUME NEW l \in Seq(Token)
    PROVE  Len(TrimSpace(l)) \in Nat
<1>1. ASSUME NEW u \in Seq(Token)
      PROVE  TrimRight(u) \in Seq(Token) /\ Reverse(u) \in Seq(Token)
  <2>1. PICK k \in 0 .. Len(u) : TrimRight(u) = SubSeq(u, 1, k)
    BY TrimRightKeeps
  <2>2. k \in Nat /\ k <= Len(u)
    OBVIOUS
  <2>3. TrimRight(u) \in Seq(Token)
    BY <2>1, <2>2, Prefix
  <2> DEFINE n == Len(u)
             r == [i \in 1 .. n |-> u[(n - i) + 1]]
  <2>4. n \in Nat /\ \A i \in 1 .. n : u[(n - i) + 1] \in Token
    <3>1. \A i \in 1 .. n : (n - i) + 1 \in 1 .. n
      OBVIOUS
    <3> QED BY <3>1, ElementOfSeq
  <2>5. Reverse(u) = r
    BY DEF Reverse
  <2> HIDE DEF n
  <2>6. r \in [1 .. n -> Token]
    BY <2>4
  <2> HIDE DEF r
  <2>7. r \in Seq(Token)
    BY <2>4, <2>6
  <2> QED BY <2>3, <2>5, <2>7
<1>2. TrimSpace(l) \in Seq(Token)
  BY <1>1 DEF TrimSpace
<1> QED BY <1>2

-----------------------------------------------------------------------------
\* Every step of a dialogue is one of the session, on some input, or leaves the
\* session alone.

\* The arguments of a command, as the handlers take them
LEMMA ArgumentTypes ==
    ASSUME NEW args \in Seq(Word), NEW n, n = Len(args)
    PROVE  /\ (IF n = 0 THEN NoAddress ELSE PathOf[args[1]])
                 \in Address \cup {NoAddress}
           /\ [i \in DOMAIN args |-> ExtensionOf[args[i]]] \in Seq(Extension)
           /\ (IF n = 0 THEN [i \in DOMAIN args |-> ExtensionOf[args[i]]]
               ELSE Tail([i \in DOMAIN args |-> ExtensionOf[args[i]]]))
                 \in Seq(Extension)
           /\ n # 0 => NumberOf[args[1]] \in Int
<1> DEFINE exts == [i \in DOMAIN args |-> ExtensionOf[args[i]]]
<1>1. /\ PathOf \in [Word -> Address \cup {NoAddress}]
      /\ ExtensionOf \in [Word -> Extension]
      /\ NumberOf \in [Word -> Nat \cup {-1}]
  BY DialogueAssumption
<1>2. n \in Nat /\ \A i \in 1 .. n : args[i] \in Word
  BY ElementOfSeq
<1>3. n # 0 => args[1] \in Word
  BY <1>2
<1>4. exts = [i \in 1 .. n |-> ExtensionOf[args[i]]]
  BY LenProperties
<1> HIDE DEF exts
<1>5. exts \in [1 .. n -> Extension]
  BY <1>1, <1>2, <1>4
<1>6. exts \in Seq(Extension)
  BY <1>2, <1>5
<1>7. n # 0 => Tail(exts) \in Seq(Extension)
  <2>1. n # 0 => exts # <<>>
    BY <1>2, <1>5
  <2> QED BY <1>6, <2>1, HeadTailProperties
<1>8. n # 0 => NumberOf[args[1]] \in Int
  BY <1>1, <1>3
<1>9. (IF n = 0 THEN NoAddress ELSE PathOf[args[1]]) \in Address \cup {NoAddress}
  BY <1>1, <1>3
<1> QED BY <1>6, <1>7, <1>8, <1>9 DEF exts

\* The table of handlers
LEMMA HandlerIs ==
    ASSUME NEW cmd, cmd.commandCode \in 1 .. 14
    PROVE  Handler(cmd) \in
             {"handleHelo", "handleEhlo", "handleQuit", "handleRset", "handleNoop",
              "handleMail", "handleRcpt", "handleData", "handleStartTLS",
              "handleVrfy", "handleExpn", "handleHelp", "handleAuth", "handleBdat"}
<1>1. cmd.commandCode \in {1, 2, 3, 4, 5, 6, 7, 8, 9, 10, 11, 12, 13, 14}
  OBVIOUS
<1> QED BY <1>1 DEF Handler, handlers

\* What runs for a command with handler h: n is the number of its arguments, the
\* others are what the handlers make of these.
Runs(h, n, path, exts, rest, mech, size, last) ==
    /\ h = "handleHelo" => \E refused \in BOOLEAN : handleHelo(n, refused)
    /\ h = "handleEhlo" => \E refused \in BOOLEAN : handleEhlo(n, refused)
    /\ h = "handleMail" =>
          \E senderOk \in BOOLEAN, resolves \in Resolutions :
             handleMail(path, senderOk, rest, resolves)
    /\ h = "handleRcpt" =>
          \E verdict \in {"", "FailMailboxDoesntExist", "FailMailboxFull",
                          "FailAccessDenied"} : handleRcpt(path, exts, verdict)
    /\ h = "handleAuth" => handleAuth(mech, n)
    /\ h = "handleBdat" => IF n = 0 THEN handleBdatNoArgs
                           ELSE handleBdat(size, size # -1, last)
    /\ h = "handleData" => handleData
    /\ h = "handleRset" => handleRset
    /\ h = "handleNoop" => handleNoop
    /\ h = "handleQuit" => handleQuit
    /\ h = "handleHelp" => handleHelp
    /\ h = "handleVrfy" => handleVrfy
    /\ h = "handleExpn" => handleExpn
    /\ h = "handleStartTLS" => handleStartTLS

\* The types of these
Runnable(n, path, exts, rest, size, last) ==
    /\ path \in Address \cup {NoAddress}
    /\ exts \in Seq(Extension) /\ rest \in Seq(Extension)
    /\ n # 0 => size \in Int
    /\ last \in BOOLEAN

\* A command is handled with arguments of the right types; the size of a chunk
\* is in the first of them.
LEMMA HandleRuns ==
    ASSUME NEW u \in Seq(Word \cup {SP}), Parsed(u) # NoCommand, Handle(Parsed(u)),
           NEW n, n = Len(Parsed(u).arguments)
    PROVE  \E path, exts, rest, mech, last :
              LET size == NumberOf[Parsed(u).arguments[1]]
              IN /\ Runnable(n, path, exts, rest, size, last)
                 /\ Runs(Handler(Parsed(u)), n, path, exts, rest, mech, size, last)
<1> DEFINE cmd == Parsed(u)
           args == cmd.arguments
           path == IF n = 0 THEN NoAddress ELSE PathOf[args[1]]
           exts == [i \in DOMAIN args |-> ExtensionOf[args[i]]]
           rest == IF n = 0 THEN exts ELSE Tail(exts)
           mech == IF n = 0 THEN "OTHER" ELSE Upper[args[1]]
           size == NumberOf[args[1]]
           last == n > 1 /\ Upper[args[2]] = "LAST"
           h == Handler(cmd)
<1>1. args \in Seq(Word)
  BY ParsedType
<1>2. Runnable(n, path, exts, rest, size, last)
  BY <1>1, ArgumentTypes DEF Runnable
<1>3. Runs(h, n, path, exts, rest, mech, size, last)
  BY Zenon DEF Handle, Runs
<1> HIDE DEF path, exts, rest, mech, last
<1> QED BY <1>2, <1>3, Zenon

\* So it is a step of the session.
LEMMA HandleIsServe ==
    ASSUME NEW u \in Seq(Word \cup {SP}), Parsed(u) # NoCommand, Handle(Parsed(u))
    PROVE  AnyServe
<1> DEFINE n == Len(Parsed(u).arguments)
           h == Handler(Parsed(u))
           size == NumberOf[Parsed(u).arguments[1]]
<1>1. n = Len(Parsed(u).arguments)
  OBVIOUS
<1>2. h \in {"handleHelo", "handleEhlo", "handleQuit", "handleRset", "handleNoop",
             "handleMail", "handleRcpt", "handleData", "handleStartTLS",
             "handleVrfy", "handleExpn", "handleHelp", "handleAuth", "handleBdat"}
  BY ParsedType, HandlerIs
<1> HIDE DEF n
<1>3. PICK path, exts, rest, mech, last :
             /\ Runnable(n, path, exts, rest, size, last)
             /\ Runs(h, n, path, exts, rest, mech, size, last)
  BY <1>1, HandleRuns, Zenon
<1> HIDE DEF h, size
<1>4. CASE h \in {"handleHelo", "handleEhlo"}
  <2>1. AnyGreeting
    BY <1>3, <1>4, Zenon DEF Runs, AnyGreeting
  <2> QED BY <2>1 DEF AnyServe
<1>5. CASE h = "handleMail"
  <2>1. AnyTransaction
    BY <1>3, <1>5, Zenon DEF Runs, Runnable, AnyTransaction
  <2> QED BY <2>1 DEF AnyServe
<1>6. CASE h = "handleRcpt"
  <2>1. AnyTransaction
    BY <1>3, <1>6, Zenon DEF Runs, Runnable, AnyTransaction
  <2> QED BY <2>1 DEF AnyServe
<1>7. CASE h = "handleAuth"
  <2>1. AnyAuthentication
    BY <1>3, <1>7, Zenon DEF Runs, AnyAuthentication
  <2> QED BY <2>1 DEF AnyServe
<1>8. CASE h = "handleBdat"
  <2>1. AnyTransaction
    <3>1. CASE n = 0
      BY <1>3, <1>8, <3>1, Zenon DEF Runs, AnyTransaction
    <3>2. CASE n # 0
      <4>1. size \in Int /\ last \in BOOLEAN /\ (size # -1) \in BOOLEAN
        BY <1>3, <3>2 DEF Runnable
      <4>2. handleBdat(size, size # -1, last)
        BY <1>3, <1>8, <3>2, Zenon DEF Runs
      <4> QED BY <4>1, <4>2, Zenon DEF AnyTransaction
    <3> QED BY <3>1, <3>2
  <2> QED BY <2>1 DEF AnyServe
<1>9. CASE h = "handleData"
  <2>1. AnyTransaction
    BY <1>3, <1>9, Zenon DEF Runs, AnyTransaction
  <2> QED BY <2>1 DEF AnyServe
<1>10. CASE h \in {"handleQuit", "handleRset", "handleNoop", "handleStartTLS",
                   "handleVrfy", "handleExpn", "handleHelp"}
  BY <1>3, <1>10, Zenon DEF Runs, AnyServe
<1> QED BY <1>2, <1>4, <1>5, <1>6, <1>7, <1>8, <1>9, <1>10

\* A line of AUTH is one the dialogue may get.
LEMMA CredentialsTaken ==
    ASSUME NEW u \in Seq(Word \cup {SP}), pc \in AuthPC, TakeCredentials(u)
    PROVE  AuthDialogue
<1> DEFINE b == Parsed(u) # NoCommand
           n == Len(Parsed(u).arguments)
<1>1. AuthStep /\ Receives
  BY DEF TakeCredentials
<1>2. pc \in {"loginUser", "loginPass1", "loginPass2", "plain"}
  BY DEF AuthPC
<1>3. CASE pc = "loginUser"
  <2>1. LoginUserLine
    BY <1>3, Zenon DEF TakeCredentials
  <2> QED BY <1>1, <1>3, <2>1, Zenon DEF LoginUser, AuthDialogue
<1>4. CASE pc = "loginPass1"
  <2>1. LoginPassword1Line
    BY <1>4, Zenon DEF TakeCredentials
  <2> QED BY <1>1, <1>4, <2>1, Zenon DEF LoginPassword1, AuthDialogue
<1>5. CASE pc = "loginPass2"
  <2>1. LoginPassword2Line
    BY <1>5, Zenon DEF TakeCredentials
  <2> QED BY <1>1, <1>5, <2>1, Zenon DEF LoginPassword2, AuthDialogue
<1>6. CASE pc = "plain"
  <2>1. PlainLine(b, n)
    BY <1>6, Zenon DEF TakeCredentials
  <2>2. n \in Nat
    <3>1. CASE b
      <4>1. Parsed(u).arguments \in Seq(Word)
        BY <3>1, ParsedType
      <4> QED BY <4>1
    <3>2. CASE ~b
      <4>1. NoCommand.arguments = <<>>
        BY DEF NoCommand
      <4>2. Parsed(u) = NoCommand
        BY <3>2
      <4>3. Parsed(u).arguments = <<>>
        BY <4>1, <4>2
      <4> QED BY <4>3
    <3> QED BY <3>1, <3>2
  <2>3. b \in BOOLEAN
    OBVIOUS
  <2> HIDE DEF b, n
  <2>4. PICK k \in {0, 1} : n > 0 => k > 0
    OBVIOUS
  <2>5. PlainLine(b, k)
    BY <2>1, <2>4 DEF PlainLine
  <2>6. \E isCommand \in BOOLEAN, m \in {0, 1} : PlainLine(isCommand, m)
    BY <2>3, <2>5
  <2> QED BY <1>1, <1>6, <2>6, Zenon DEF PlainResponse, AuthDialogue
<1> QED BY <1>2, <1>3, <1>4, <1>5, <1>6

\* Whatever line the session takes, it takes it as one of its steps does.
LEMMA TakeLineIsServe ==
    ASSUME WireType, TakeLine
    PROVE  AnyServe
<1> DEFINE u == ReadLine(FirstLine)
<1>1. /\ LineEnds(buf) # {}
      /\ pc = "read" => Obey(u)
      /\ pc \in AuthPC => TakeCredentials(u)
      /\ pc = "data" => TakeText(TrimSpace(FirstLine))
  <2>1. "read" \notin AuthPC /\ "data" \notin AuthPC
    BY DEF AuthPC
  <2> QED BY <2>1, Zenon DEF TakeLine
<1>2. pc \in {"read", "data"} \cup AuthPC
  BY DEF TakeLine, AwaitsLine
<1>3. u \in Seq(Word \cup {SP}) /\ FirstLine \in Seq(Token)
  BY <1>1, FirstLineType DEF WireType
<1>4. CASE pc = "read"
  <2>1. CASE Parsed(u) = NoCommand
    <3>1. Unrecognized
      BY <1>1, <1>4, <2>1 DEF Obey
    <3> QED BY <3>1 DEF AnyServe
  <2>2. CASE Parsed(u) # NoCommand
    <3>1. Handle(Parsed(u))
      BY <1>1, <1>4, <2>2 DEF Obey
    <3> QED BY <1>3, <2>2, <3>1, HandleIsServe
  <2> QED BY <2>1, <2>2
<1>5. CASE pc \in AuthPC
  <2>1. AuthDialogue
    BY <1>1, <1>3, <1>5, CredentialsTaken
  <2> QED BY <2>1, Zenon DEF AnyAuthentication, AnyServe
<1>6. CASE pc = "data"
  <2> DEFINE t == TrimSpace(FirstLine)
  <2>1. Len(t) \in Nat
    BY <1>3, TrimSpaceType
  <2>2. (\E queued \in BOOLEAN : DataDone(TRUE, queued)) \/ DataLine(Len(t))
    BY <1>1, <1>6, Zenon DEF TakeText
  <2>3. AnyTransaction
    BY <2>1, <2>2, Zenon DEF AnyTransaction
  <2> QED BY <2>3 DEF AnyServe
<1> QED BY <1>2, <1>4, <1>5, <1>6

\* A read that fails in the middle of AUTH
LEMMA AuthReadFails ==
    ASSUME pc \in AuthPC, AuthStep, ReadError,
           IF pc = "loginPass2" THEN LoginPassword2Fails ELSE DialogueAborts
    PROVE  AuthDialogue
<1>1. pc \in {"loginUser", "loginPass1", "loginPass2", "plain"}
  BY DEF AuthPC
<1> QED BY <1>1, Zenon DEF AuthDialogue, LoginUser, LoginPassword1, LoginPassword2,
                           PlainResponse

\* Each step of a dialogue
LEMMA DialogueIsAnyNext ==
    ASSUME WireType, [DialogueNext]_dialogueVars
    PROVE  [AnyNext]_vars
<1>1. CASE ClientStep
  BY <1>1, Zenon DEF ClientStep, SendCommand, SendText, SendDot, SendResponse,
                     SendHello, Sends
<1>2. CASE Fill
  BY <1>2, Zenon DEF Fill
<1>3. CASE TakeLine
  BY <1>3, TakeLineIsServe DEF AnyNext
<1>4. CASE TakeChunk
  BY <1>4, Zenon DEF TakeChunk, AnyTransaction, AnyServe, AnyNext
<1>5. CASE ShakeHands
  BY <1>5, Zenon DEF ShakeHands, AnyServe, AnyNext
<1>6. CASE GoOn
  BY <1>6, Zenon DEF GoOn, AnyTransaction, AnyServe, AnyNext
<1>7. CASE ReadFails
  <2>1. CASE /\ pc \in AuthPC /\ AuthStep
             /\ IF pc = "loginPass2" THEN LoginPassword2Fails ELSE DialogueAborts
    <3>1. ReadError
      BY <1>7 DEF ReadFails, Fails
    <3>2. AuthDialogue
      BY <2>1, <3>1, AuthReadFails
    <3> QED BY <3>2, Zenon DEF AnyAuthentication, AnyServe, AnyNext
  <2>2. CASE ReadLineFails \/ DataReadFails \/ BdatReadFails \/ Handshake
    BY <2>2, Zenon DEF AnyTransaction, AnyServe, AnyNext
  <2> QED BY <1>7, <2>1, <2>2, Zenon DEF ReadFails
<1>8. CASE Leave \/ Ended
  BY <1>8 DEF Leave, AnyNext
<1>9. CASE UNCHANGED dialogueVars
  BY <1>9 DEF dialogueVars
<1> QED BY <1>1, <1>2, <1>3, <1>4, <1>5, <1>6, <1>7, <1>8, <1>9, Zenon
        DEF DialogueNext, SessionStep

-----------------------------------------------------------------------------
\* What the client sends

\* The octets that belong to a command, by its line
Chunk(l) == ChunkOf(ReadLine(l))

\* Line and verb of a command
LEMMA CommandIs ==
    ASSUME NEW t \in Seq(Word \cup {SP}), WellSpaced(t), NEW l, l = WithEnd(t)
    PROVE  /\ l[1] = t[1] /\ t[1] \in Word \ {""}
           /\ VerbOf(l) = VerbOf(t) /\ VerbOf(t) \in Word
           /\ Chunk(l) = ChunkOf(t)
<1> DEFINE n == Len(t)
           e == <<CR, LF>>
<1>1. t # <<>> /\ \A i \in DOMAIN t :
                     IF i % 2 = 1 THEN t[i] \in Word \ {""} ELSE t[i] = SP
  BY Zenon DEF WellSpaced
<1>2. n \in Nat /\ n >= 1 /\ 1 \in DOMAIN t
  <2>1. t # <<>>
    BY <1>1
  <2> QED BY <2>1
<1>3. t[1] \in Word \ {""}
  <2>1. 1 % 2 = 1
    OBVIOUS
  <2> QED BY <1>1, <1>2, <2>1
<1>4. t \in Seq(Token) /\ e \in Seq(Token) /\ Len(e) = 2
  <2>1. Word \cup {SP} \subseteq Token /\ CR \in Token /\ LF \in Token
    BY DEF Token, White
  <2> QED BY <2>1, SeqMonotonic
<1> HIDE DEF e
<1>5. \A i \in 1 .. n + 2 : l[i] = IF i <= n THEN t[i] ELSE e[i - n]
  BY <1>4, ConcatProperties DEF WithEnd, e
<1> HIDE DEF n
<1>6. 1 \in 1 .. n + 2 /\ 1 <= n
  BY <1>2
<1>7. l[1] = t[1]
  BY <1>5, <1>6
<1>8. Upper[t[1]] \in Word
  BY <1>3, WordAssumption
<1>9. ReadLine(l) = t
  BY ReadLineIs
<1> QED BY <1>3, <1>7, <1>8, <1>9 DEF VerbOf, Chunk

\* The lines that are sent
LEMMA LineItemType ==
    ASSUME cl \in Clients, NEW as \in {"command", "text", "dot", "response"},
           NEW t \in Seq(Word \cup {SP}), as = "command" => WellSpaced(t)
    PROVE  LineItem(as, t) \in Sendable
<1> DEFINE x == [as |-> as, line |-> WithEnd(t), enc |-> cl.tls]
<1>1. LineItem(as, t) = x
  BY DEF LineItem, Item, WithEnd
<1>2. WithEnd(t) \in Seq(Token)
  BY ReadLineIs
<1>3. cl.tls \in BOOLEAN
  BY DEF Clients
<1>4. IsLine(x)
  BY DEF IsLine
<1>5. x \in Sendable
  BY <1>2, <1>3, <1>4 DEF Sendable
<1> QED BY <1>1, <1>5

\* An octet, and the hello
LEMMA BareItemType ==
    ASSUME cl \in Clients, NEW as \in {"octet", "hello"}
    PROVE  Item(as, <<>>) \in Sendable
<1>1. cl.tls \in BOOLEAN
  BY DEF Clients
<1>2. <<>> \in Seq(Token)
  OBVIOUS
<1> QED BY <1>1, <1>2 DEF Item, Sendable

\* t is a command with its octets.
CommandSent(t, line, c) ==
    /\ t \in Seq(Sendable)
    /\ Len(t) = 1 + c
    /\ t[1].as = "command" /\ t[1].line = WithEnd(line)
    /\ \A i \in 2 .. 1 + c : t[i].as = "octet"
    /\ \A i \in 1 .. 1 + c : t[i].enc = cl.tls

\* The length of a chunk: numbers that are none announce no octet.
Octets(line) == IF ChunkOf(line) > 0 THEN ChunkOf(line) ELSE 0

\* The number of octets behind a command
LEMMA ChunkOfType ==
    ASSUME NEW line \in Seq(Word \cup {SP}), WellSpaced(line)
    PROVE  ChunkOf(line) \in Nat \cup {-1} /\ Octets(line) \in Nat
<1>1. NumberOf \in [Word -> Nat \cup {-1}]
  BY DialogueAssumption
<1>2. \A i \in DOMAIN line : i % 2 = 1 => line[i] \in Word
  BY DEF WellSpaced
<1>3. Len(line) > 2 => 3 \in DOMAIN line /\ 3 % 2 = 1
  OBVIOUS
<1>4. Len(line) > 2 => line[3] \in Word
  BY <1>2, <1>3
<1>5. ChunkOf(line) \in Nat \cup {-1}
  BY <1>1, <1>4 DEF ChunkOf
<1> QED BY <1>5 DEF Octets

\* SendCommand sends just that.
LEMMA CommandIsSent ==
    ASSUME cl \in Clients, wire \in Seq(Sendable),
           NEW line \in Seq(Word \cup {SP}), WellSpaced(line), SendCommand(line)
    PROVE  \E t : CommandSent(t, line, Octets(line)) /\ wire' = Cat(wire, t)
<1> DEFINE c == Octets(line)
           x == LineItem("command", line)
           o == Item("octet", <<>>)
           q == [i \in 1 .. ChunkOf(line) |-> o]
           t == Cat(<<x>>, q)
<1>1. ChunkOf(line) \in Nat \cup {-1} /\ c \in Nat /\ 1 .. ChunkOf(line) = 1 .. c
  <2>1. ChunkOf(line) \in Nat \cup {-1} /\ c \in Nat
    BY ChunkOfType
  <2>2. ChunkOf(line) > 0 => c = ChunkOf(line)
    BY DEF Octets
  <2>3. ~(ChunkOf(line) > 0) => c = 0
    BY DEF Octets
  <2> HIDE DEF c
  <2> QED BY <2>1, <2>2, <2>3
<1>2. x \in Sendable /\ o \in Sendable
  BY LineItemType, BareItemType
<1>3. x.as = "command" /\ x.line = WithEnd(line) /\ x.enc = cl.tls
  BY DEF LineItem, Item, WithEnd
<1>4. o.as = "octet" /\ o.enc = cl.tls
  BY DEF Item
<1>5. wire' = Cat(Cat(wire, <<x>>), q)
  BY DEF SendCommand, Cat
<1>6. q = [i \in 1 .. c |-> o]
  BY <1>1
<1> HIDE DEF c, x, o, q
<1>7. q \in [1 .. c -> Sendable]
  BY <1>2, <1>6
<1>8. q \in Seq(Sendable) /\ Len(q) = c /\ \A i \in 1 .. c : q[i] = o
  BY <1>1, <1>6, <1>7
<1>9. <<x>> \in Seq(Sendable) /\ Len(<<x>>) = 1 /\ <<x>>[1] = x
  BY <1>2
<1>10. wire' = Cat(wire, t)
  <2> DEFINE r == <<x>>
  <2>1. r \in Seq(Sendable) /\ Cat(r, q) = t /\ wire' = Cat(Cat(wire, r), q)
    BY <1>5, <1>9
  <2> HIDE DEF r, t
  <2> QED BY <1>8, <2>1, Joined
<1>11. /\ t \in Seq(Sendable) /\ Len(t) = 1 + c
       /\ \A i \in 1 .. 1 + c : t[i] = IF i <= 1 THEN <<x>>[i] ELSE q[i - 1]
  BY <1>8, <1>9, ConcatProperties DEF Cat
<1> HIDE DEF t
<1>12. t[1] = x
  <2>1. 1 \in 1 .. 1 + c
    BY <1>1
  <2> QED BY <1>9, <1>11, <2>1
<1>13. \A i \in 2 .. 1 + c : t[i] = o
  <2> TAKE i \in 2 .. 1 + c
  <2>1. i \in 1 .. 1 + c /\ ~(i <= 1) /\ i - 1 \in 1 .. c
    BY <1>1
  <2> QED BY <1>8, <1>11, <2>1
<1>14. \A i \in 1 .. 1 + c : i = 1 \/ i \in 2 .. 1 + c
  BY <1>1
<1>15. \A i \in 1 .. 1 + c : t[i].enc = cl.tls
  BY <1>3, <1>4, <1>12, <1>13, <1>14
<1>16. \A i \in 2 .. 1 + c : t[i].as = "octet"
  BY <1>4, <1>13
<1>17. t[1].as = "command" /\ t[1].line = WithEnd(line)
  BY <1>3, <1>12
<1>18. CommandSent(t, line, c)
  BY <1>11, <1>15, <1>16, <1>17 DEF CommandSent
<1> QED BY <1>10, <1>18 DEF c

\* One item is sent.
LEMMA OneSent ==
    ASSUME wire \in Seq(Sendable), NEW x \in Sendable, wire' = Append(wire, x)
    PROVE  <<x>> \in Seq(Sendable) /\ wire' = Cat(wire, <<x>>)
<1>1. Append(wire, x) = wire \o <<x>>
  BY AppendIsConcat
<1> QED BY <1>1 DEF Cat

\* The commands the client has are lines of words with single spaces.
LEMMA CommandLineType ==
    ASSUME TypeOK, NEW line \in CommandLines(srv)
    PROVE  line \in Seq(Word \cup {SP}) /\ WellSpaced(line)
<1>1. srv \in Configs
  BY DEF TypeOK
<1> QED BY <1>1, DialogueAssumption, Zenon

\* What the client sends is sendable, and it stays a client.
LEMMA ClientStepType ==
    ASSUME TypeOK, WireType, ClientStep
    PROVE  WireType' /\ UNCHANGED vars
<1>1. buf \in Seq(Sendable) /\ wire \in Seq(Sendable) /\ cl \in Clients
  BY DEF WireType
<1>2. UNCHANGED <<vars, buf>>
  BY Zenon DEF ClientStep, SendCommand, SendText, SendDot, SendResponse, SendHello,
               Sends
<1>3. buf' \in Seq(Sendable)
  BY <1>1, <1>2
<1>4. wire' \in Seq(Sendable) /\ cl' \in Clients
  <2>1. ASSUME NEW line \in CommandLines(srv), SendCommand(line)
        PROVE  wire' \in Seq(Sendable) /\ cl' \in Clients
    <3>1. line \in Seq(Word \cup {SP}) /\ WellSpaced(line)
      BY CommandLineType
    <3>2. PICK t : CommandSent(t, line, Octets(line)) /\ wire' = Cat(wire, t)
      BY <1>1, <2>1, <3>1, CommandIsSent
    <3>3. t \in Seq(Sendable)
      BY <3>2 DEF CommandSent
    <3>4. wire' \in Seq(Sendable)
      BY <1>1, <1>2, <3>2, <3>3, SentFlight
    <3>5. VerbOf(line) \in Word
      BY <3>1, CommandIs
    <3> DEFINE d == Append(cl.due, VerbOf(line))
    <3>6. d \in Seq(Word \cup {"welcome"})
      BY <1>1, <3>5 DEF Clients
    <3>7. cl' = [cl EXCEPT !.due = d, !.greeted = TRUE]
      BY <2>1, Zenon DEF SendCommand
    <3> HIDE DEF d
    <3> QED BY <1>1, <3>4, <3>6, <3>7 DEF Clients
  <2>2. ASSUME NEW text \in TextLines, SendText(text)
        PROVE  wire' \in Seq(Sendable) /\ cl' \in Clients
    <3>1. text \in Seq(Word \cup {SP})
      BY DialogueAssumption
    <3>2. LineItem("text", text) \in Sendable
      BY <1>1, <3>1, LineItemType
    <3>3. wire' \in Seq(Sendable)
      BY <1>1, <2>2, <3>2, AppendProperties DEF SendText
    <3>4. cl' = [cl EXCEPT !.lines = @ + 1]
      BY <2>2 DEF SendText
    <3>5. cl.lines + 1 \in Nat
      BY <1>1 DEF Clients
    <3>6. cl' \in Clients
      BY <1>1, <3>4, <3>5 DEF Clients
    <3> QED BY <3>3, <3>6
  <2>3. CASE SendDot
    <3>1. <<".">> \in Seq(Word \cup {SP})
      BY DialogueAssumption
    <3>2. LineItem("dot", <<".">>) \in Sendable
      BY <1>1, <3>1, LineItemType
    <3>3. wire' \in Seq(Sendable)
      BY <1>1, <2>3, <3>2, AppendProperties DEF SendDot
    <3> QED BY <1>1, <2>3, <3>3 DEF SendDot, Clients, Mode
  <2>4. CASE SendResponse
    <3>1. <<"credentials">> \in Seq(Word \cup {SP})
      BY DialogueAssumption
    <3>2. LineItem("response", <<"credentials">>) \in Sendable
      BY <1>1, <3>1, LineItemType
    <3>3. wire' \in Seq(Sendable)
      BY <1>1, <2>4, <3>2, AppendProperties DEF SendResponse
    <3> QED BY <1>1, <2>4, <3>3 DEF SendResponse, Clients, Mode
  <2>5. CASE SendHello
    <3>1. Item("hello", <<>>) \in Sendable
      BY <1>1, BareItemType
    <3>2. wire' \in Seq(Sendable)
      BY <1>1, <2>5, <3>1, AppendProperties DEF SendHello
    <3> QED BY <1>1, <2>5, <3>2 DEF SendHello, Clients, Mode
  <2> QED BY <2>1, <2>2, <2>3, <2>4, <2>5, Zenon DEF ClientStep
<1> QED BY <1>2, <1>3, <1>4 DEF WireType

\* The types of what is on its way, of client and buffer, are kept.
LEMMA WireStep ==
    ASSUME TypeOK, TypeOK', WireType, [DialogueNext]_dialogueVars
    PROVE  WireType'
<1>1. buf \in Seq(Sendable) /\ wire \in Seq(Sendable) /\ cl \in Clients
  BY DEF WireType
<1>2. Heard => cl' \in Clients
  <2>1. replies' \in Seq(Reply)
    BY DEF TypeOK
  <2> QED BY <1>1, <2>1, HearingType DEF Heard
<1>3. <<>> \in Seq(Sendable)
  OBVIOUS
<1>4. CASE ClientStep
  BY <1>4, ClientStepType
<1>5. CASE Fill
  <2>1. buf' \in Seq(Sendable) /\ wire' \in Seq(Sendable)
    BY <1>1, <1>5, FillFlight
  <2>2. UNCHANGED cl
    BY <1>5, Zenon DEF Fill
  <2> QED BY <1>1, <2>1, <2>2 DEF WireType
<1>6. CASE TakeLine
  <2> DEFINE n == Min(LineEnds(buf))
  <2>1. LineEnds(buf) # {} /\ buf' = SubSeq(buf, n + 1, Len(buf)) /\ Heard
        /\ UNCHANGED wire
    BY <1>6, Zenon DEF TakeLine
  <2>2. n \in 1 .. Len(buf)
    BY <1>1, <2>1, FirstLineType
  <2> HIDE DEF n
  <2>3. n \in Nat /\ n <= Len(buf)
    BY <1>1, <2>2
  <2>4. buf' \in Seq(Sendable)
    BY <1>1, <2>1, <2>3, Suffix
  <2> QED BY <1>1, <1>2, <2>1, <2>4 DEF WireType
<1>7. CASE TakeChunk
  <2>1. Heard /\ UNCHANGED wire
    BY <1>7, Zenon DEF TakeChunk
  <2>2. \/ Len(buf) >= local.chunk /\ buf' = SubSeq(buf, local.chunk + 1, Len(buf))
        \/ buf' = <<>>
    BY <1>7, Zenon DEF TakeChunk
  <2>3. local.chunk \in Nat
    BY DEF TypeOK, Local
  <2>4. Len(buf) >= local.chunk => local.chunk <= Len(buf)
    BY <1>1, <2>3
  <2>5. buf' \in Seq(Sendable)
    BY <1>1, <1>3, <2>2, <2>3, <2>4, Suffix
  <2> QED BY <1>1, <1>2, <2>1, <2>5 DEF WireType
<1>8. CASE ShakeHands
  <2>1. CASE /\ wire # <<>> /\ wire' = Tail(wire) /\ FreshReader
             /\ cl' = [cl EXCEPT !.mode = "commands", !.tls = TRUE]
    <3>1. wire' \in Seq(Sendable)
      BY <1>1, <2>1, HeadTailProperties
    <3> QED BY <1>1, <1>3, <2>1, <3>1 DEF WireType, FreshReader, Clients, Mode
  <2>2. CASE /\ \E k \in 1 .. Len(wire) : wire' = SubSeq(wire, k + 1, Len(wire))
             /\ UNCHANGED buf /\ Heard
    <3>1. PICK k \in 1 .. Len(wire) : wire' = SubSeq(wire, k + 1, Len(wire))
      BY <2>2
    <3>2. k \in Nat /\ k <= Len(wire)
      BY <1>1
    <3>3. wire' \in Seq(Sendable)
      BY <1>1, <3>1, <3>2, Suffix
    <3> QED BY <1>1, <1>2, <2>2, <3>3 DEF WireType
  <2> QED BY <1>8, <2>1, <2>2, Zenon DEF ShakeHands
<1>9. CASE GoOn
  <2>1. Heard /\ UNCHANGED <<wire, buf>>
    BY <1>9, Zenon DEF GoOn
  <2> QED BY <1>1, <1>2, <2>1 DEF WireType
<1>10. CASE ReadFails
  <2>1. Heard /\ UNCHANGED wire /\ buf' = IF pc = "handshake" THEN buf ELSE <<>>
    BY <1>10, Zenon DEF ReadFails
  <2> QED BY <1>1, <1>2, <1>3, <2>1 DEF WireType
<1>11. CASE UNCHANGED <<wire, buf, cl>>
  BY <1>1, <1>11 DEF WireType
<1> QED BY <1>4, <1>5, <1>6, <1>7, <1>8, <1>9, <1>10, <1>11, Zenon
        DEF DialogueNext, SessionStep, Leave, dialogueVars

-----------------------------------------------------------------------------
\* What is proved of a session holds in a dialogue

\* A new dialogue is a new session with nothing on its way.
LEMMA DialogueInitSafe == DialogueInit => IInv /\ WireType /\ RecipientsBounded
<1> SUFFICES ASSUME DialogueInit PROVE IInv /\ WireType /\ RecipientsBounded
  OBVIOUS
<1>1. Init
  BY DEF DialogueInit
<1>2. IInv /\ RecipientsBounded
  BY <1>1, InitSafe, InitRecipients
<1>3. srv.implicitTLS \in BOOLEAN
  BY <1>2, ConfigsAssumption DEF IInv, TypeOK, ServerConfig
<1>4. <<"welcome">> \in Seq(Word \cup {"welcome"}) /\ <<>> \in Seq(Sendable)
  OBVIOUS
<1>5. cl \in Clients
  BY <1>3, <1>4 DEF DialogueInit, Clients, Mode
<1> QED BY <1>2, <1>4, <1>5 DEF DialogueInit, WireType

\* The inductive invariant of the session, with the types of the connection
LEMMA DialogueStepSafe ==
    ASSUME IInv, WireType, [DialogueNext]_dialogueVars
    PROVE  IInv' /\ WireType' /\ [AnyNext]_vars
<1>1. [AnyNext]_vars
  BY DialogueIsAnyNext
<1>2. IInv'
  BY <1>1, NextSafe
<1>3. TypeOK /\ TypeOK'
  BY <1>2 DEF IInv
<1>4. WireType'
  BY <1>3, WireStep
<1> QED BY <1>1, <1>2, <1>4

\* Through the whole of a dialogue, with any commands, messages and limits, the
\* session keeps its inductive invariant: what comes in is what Session takes.
THEOREM DialogueInductive == DialogueSpec => [](IInv /\ WireType)
<1>1. DialogueInit => IInv /\ WireType
  BY DialogueInitSafe
<1>2. IInv /\ WireType /\ [DialogueNext]_dialogueVars => (IInv /\ WireType)'
  BY DialogueStepSafe
<1> QED BY <1>1, <1>2, PTL DEF DialogueSpec

\* With the client and the connection around it, a session implements the
\* abstract service: however lines, text, chunks and TLS records follow each
\* other in the stream, Handler gets a message at most once, from a trusted
\* client, for the recipients the replies named.
THEOREM DialogueImplementsService == DialogueSpec => ServiceSpec
<1>1. DialogueInit => Service!Init
  BY InitRefines DEF DialogueInit
<1>2. IInv /\ WireType /\ [DialogueNext]_dialogueVars =>
         [Service!Next]_Service!vars
  BY DialogueStepSafe, NextRefines
<1> QED BY <1>1, <1>2, DialogueInductive, PTL
        DEF DialogueSpec, ServiceSpec, Service!Spec

-----------------------------------------------------------------------------
\* What the replies mean

\* The names among the codes
LEMMA CodeNames ==
    DOMAIN Codes =
      {"FailLineTooLong", "FailMailboxDoesntExist", "FailNestedMailCmd",
       "FailBadSequence", "FailUnrecognizedCmd", "FailMaxUnrecognizedCmd",
       "FailInvalidAddress", "FailInvalidRecipient", "FailInvalidExtension",
       "FailMissingArgument", "ErrorCmdParamNotImplemented", "FailTooBig",
       "FailMailboxFull", "FailAccessDenied", "FailCmdNotSupported",
       "FailReadErrorDataCmd", "FailAuthentication", "FailEncryptionNeeded",
       "FailUndefinedSecurityStatus", "ErrorUnableToResolveHost",
       "ErrorTooManyRecipients", "ErrorAuth", "SuccessMailCmd",
       "SuccessResetCmd", "SuccessRcptCmd", "SuccessNoopCmd", "SuccessQuitCmd",
       "SuccessAuthentication", "SuccessStartTLSCmd", "SuccessMessageQueued"}
BY DEF Codes

\* The prompts of DATA and AUTH, and the reply to STARTTLS
LEMMA Prompts ==
    /\ Prompting("SuccessDataCmd") /\ Prompting("334")
    /\ Positive("SuccessStartTLSCmd")
<1>1. CodeOf("SuccessDataCmd") = 354 /\ CodeOf("334") = 334
  BY CodeNames DEF CodeOf, Written
<1>2. CodeOf("SuccessStartTLSCmd") = 220
  <2>1. Codes["SuccessStartTLSCmd"].BasicCode = 220
    BY DEF Codes, Resp
  <2> QED BY <2>1, CodeNames DEF CodeOf
<1> QED BY <1>1, <1>2 DEF Prompting, Positive

\* The replies that are written out, and do not prompt
LEMMA WrittenCodes ==
    CodeOf("451") = 451 /\ CodeOf("501") = 501 /\ CodeOf("554") = 554
BY CodeNames DEF CodeOf, Written

\* The refusals of AUTH, DATA and STARTTLS
LEMMA RefusalCodes ==
    /\ CodeOf("FailBadSequence") = 503
    /\ CodeOf("FailUnrecognizedCmd") = 554
    /\ CodeOf("FailCmdNotSupported") = 502
    /\ CodeOf("FailEncryptionNeeded") = 523
    /\ CodeOf("FailMissingArgument") = 550
    /\ CodeOf("ErrorCmdParamNotImplemented") = 504
    /\ CodeOf("SuccessAuthentication") = 235
    /\ CodeOf("FailAuthentication") = 535
    /\ CodeOf("SuccessMessageQueued") = 250
<1>1. /\ Codes["FailBadSequence"].BasicCode = 503
      /\ Codes["FailUnrecognizedCmd"].BasicCode = 554
      /\ Codes["FailCmdNotSupported"].BasicCode = 502
      /\ Codes["FailEncryptionNeeded"].BasicCode = 523
      /\ Codes["FailMissingArgument"].BasicCode = 550
      /\ Codes["ErrorCmdParamNotImplemented"].BasicCode = 504
      /\ Codes["SuccessAuthentication"].BasicCode = 235
      /\ Codes["FailAuthentication"].BasicCode = 535
      /\ Codes["SuccessMessageQueued"].BasicCode = 250
  BY DEF Codes, Resp, Invalid, InvalidArguments
<1> QED BY <1>1, CodeNames DEF CodeOf

\* The replies with which AUTH, DATA and STARTTLS may end
Closing == {"451", "501", "554", "FailBadSequence", "FailUnrecognizedCmd",
            "FailCmdNotSupported", "FailEncryptionNeeded", "FailMissingArgument",
            "ErrorCmdParamNotImplemented", "SuccessAuthentication",
            "FailAuthentication", "SuccessMessageQueued"}

\* They do not prompt, the refusals among them are no completion, and none is a
\* notice.
LEMMA FinalReplies ==
    /\ \A r \in Closing : \A verb : verb # "STARTTLS" => Final(r, verb)
    /\ \A verb : /\ Final("FailBadSequence", verb)
                 /\ Final("FailUnrecognizedCmd", verb)
                 /\ Final("FailCmdNotSupported", verb)
    /\ \A r, verb : verb \notin {"DATA", "AUTH", "STARTTLS"} => Final(r, verb)
    /\ Closing \cap Notices = {}
<1>1. \A r \in Closing : ~Prompting(r)
  BY WrittenCodes, RefusalCodes DEF Closing, Prompting
<1>2. /\ ~Positive("FailBadSequence") /\ ~Positive("FailUnrecognizedCmd")
      /\ ~Positive("FailCmdNotSupported")
  BY RefusalCodes DEF Positive
<1>3. {"FailBadSequence", "FailUnrecognizedCmd", "FailCmdNotSupported"}
         \subseteq Closing
  BY DEF Closing
<1>4. Closing \cap Notices = {}
  BY DEF Closing, Notices
<1> QED BY <1>1, <1>2, <1>3, <1>4 DEF Final

-----------------------------------------------------------------------------
\* Encryption

\* A step that leaves encryption alone, and goes to the handshake only without it
TLSKept == UNCHANGED tls /\ (pc' = "handshake" => pc = "handshake" \/ ~tls)

\* Where the end of a handler leads
LEMMA HandledPC == Handled => pc' \in {"read", "closed"}
BY DEF Handled

\* Steps of AUTH
LEMMA AuthKeepsTLS ==
    ASSUME AnyAuthentication
    PROVE  TLSKept
<1>1. UNCHANGED tls
  BY DEF AnyAuthentication, handleAuth, AuthDialogue, LoginUser, LoginPassword1,
         LoginPassword2, PlainResponse, AuthStep, authFrame
<1>2. \A user, at : Prompt(user, at) => pc' = at
  BY DEF Prompt
<1>3. Panics => pc' = "panic"
  BY DEF Panics, PanicsAfter
<1>4. /\ \A r, st : Malformed(r, st) => Handled
      /\ \A user, v : checkLogin(user, v) => Handled \/ Panics
      /\ DialogueAborts => Handled
  BY Zenon DEF Malformed, checkLogin, DialogueAborts
<1>5. pc' # "handshake"
  <2>1. CASE \E mech, n : handleAuth(mech, n)
    <3>1. PICK mech, n : handleAuth(mech, n)
      BY <2>1
    <3>2. \/ \E r : Malformed(r, state)
          \/ handleLoginAuth(n) \/ handlePlainAuth(n)
      BY <3>1, Zenon DEF handleAuth
    <3>3. handleLoginAuth(n) => pc' # "handshake"
      BY <1>2, <1>3, <1>4, HandledPC DEF handleLoginAuth
    <3>4. handlePlainAuth(n) => pc' # "handshake"
      BY <1>2, <1>3, <1>4, HandledPC DEF handlePlainAuth
    <3> QED BY <1>4, <3>2, <3>3, <3>4, HandledPC
  <2>2. CASE AuthDialogue
    <3>1. LoginUser => pc' # "handshake"
      BY <1>2, <1>3, <1>4, HandledPC DEF LoginUser, LoginUserLine, DialoguePanics
    <3>2. LoginPassword1 => pc' # "handshake"
      BY <1>3, <1>4, HandledPC DEF LoginPassword1, LoginPassword1Line, DialoguePanics
    <3>3. LoginPassword2 => pc' # "handshake"
      BY <1>3, <1>4, HandledPC DEF LoginPassword2, LoginPassword2Line,
                                   LoginPassword2Fails, DialoguePanics
    <3>4. PlainResponse => pc' # "handshake"
      BY <1>3, <1>4, HandledPC DEF PlainResponse, PlainLine, DialoguePanics
    <3> QED BY <2>2, <3>1, <3>2, <3>3, <3>4 DEF AuthDialogue
  <2> QED BY <2>1, <2>2 DEF AnyAuthentication
<1> QED BY <1>1, <1>5 DEF TLSKept

\* Steps of a transaction
LEMMA TransactionKeepsTLS ==
    ASSUME AnyTransaction
    PROVE  TLSKept
<1>1. UNCHANGED tls
  BY DEF AnyTransaction, handleMail, handleRcpt, handleData, DataLine, DataReadFails,
         DataTooBig, DataDone, handleBdat, handleBdatNoArgs, BdatChunk, BdatReadFails,
         transactionFrame
<1>2. \A msgs, st : PanicsAfter(msgs, st) => pc' = "panic"
  BY DEF PanicsAfter
<1>3. Panics => pc' = "panic"
  BY <1>2 DEF Panics
<1>4. pc' # "handshake"
  <2>1. \A from, senderOk, exts, resolves :
           handleMail(from, senderOk, exts, resolves) => pc' # "handshake"
    BY <1>2, HandledPC, ZenonT(30) DEF handleMail, MailExtensions
  <2>2. \A rcpt, args, verdict :
           handleRcpt(rcpt, args, verdict) => pc' # "handshake"
    BY <1>2, <1>3, HandledPC DEF handleRcpt
  <2>3. handleData => pc' # "handshake"
    BY HandledPC DEF handleData
  <2>4. \A n : DataLine(n) => pc' # "handshake"
    BY DEF DataLine
  <2>5. DataReadFails \/ DataTooBig \/ handleBdatNoArgs \/ BdatChunk
        \/ BdatReadFails => pc' # "handshake"
    BY HandledPC DEF DataReadFails, DataTooBig, handleBdatNoArgs, BdatChunk,
                     BdatReadFails
  <2>6. \A dot, queued : DataDone(dot, queued) => pc' # "handshake"
    BY <1>3, HandledPC DEF DataDone
  <2>7. \A n, valid, last : handleBdat(n, valid, last) => pc' # "handshake"
    BY <1>3, HandledPC DEF handleBdat
  <2> QED BY <2>1, <2>2, <2>3, <2>4, <2>5, <2>6, <2>7, Zenon DEF AnyTransaction
<1> QED BY <1>1, <1>4 DEF TLSKept

\* Only the handshake changes encryption, and it is begun without.
LEMMA StepKeepsTLS ==
    ASSUME [AnyNext]_vars
    PROVE  TLSKept \/ Handshake
<1>1. CASE AnyGreeting
  <2>1. ASSUME NEW n, NEW refused, NEW reply, Hello(n, refused, reply)
        PROVE  TLSKept
    BY <2>1, HandledPC DEF Hello, PanicsAfter, TLSKept
  <2> QED BY <1>1, <2>1 DEF AnyGreeting, handleEhlo, handleHelo
<1>2. CASE handleStartTLS
  BY <1>2, HandledPC DEF handleStartTLS, TLSKept
<1>3. CASE AnyAuthentication \/ AnyTransaction
  BY <1>3, AuthKeepsTLS, TransactionKeepsTLS
<1>4. CASE \/ handleNoop \/ handleHelp \/ handleVrfy \/ handleExpn
           \/ handleRset \/ handleQuit
  BY <1>4, HandledPC DEF handleNoop, handleHelp, handleVrfy, handleExpn, Replies,
                         handleRset, handleQuit, TLSKept
<1>5. CASE \/ handleWelcome \/ TooManyBadCommands \/ ReadLineFails
           \/ BareNewline \/ Unrecognized \/ Client
  BY <1>5 DEF handleWelcome, TooManyBadCommands, ReadLineFails, BareNewline,
              Unrecognized, Client, loopFrame, Panics, PanicsAfter, TLSKept
<1>6. CASE UNCHANGED vars
  BY <1>6 DEF vars, TLSKept
<1> QED BY <1>1, <1>2, <1>3, <1>4, <1>5, <1>6 DEF AnyNext, AnyServe, Ended

-----------------------------------------------------------------------------
\* What a command leads to when no reply is lost: the end of the session, the
\* next command after an answer, or a wait for the rest of this one.  c is the
\* length of the chunk behind it, which only BDAT may have.
Outcome(verb, c) ==
    \/ pc' \in Terminal
    \/ pc' = "read" /\ Answering(replies') /\ Final(replies'[1], verb) /\ ~(c > 0)
    \/ pc' = "data" /\ verb = "DATA" /\ replies' = <<"SuccessDataCmd">>
    \/ pc' \in AuthPC /\ verb = "AUTH" /\ replies' \in {<<>>, <<"334">>}
    \/ pc' = "handshake" /\ verb = "STARTTLS" /\ replies' = <<"SuccessStartTLSCmd">>
    \/ pc' = "bdat" /\ verb = "BDAT" /\ replies' = <<>> /\ local'.chunk = c

\* All replies are sent.
LEMMA AllSent ==
    /\ \A msgs, st : Out(msgs, st) /\ ~broken' => replies' = msgs
    /\ \A msgs, st : OutThen(msgs, st) /\ ~broken' => replies' = msgs
BY DEF Out, OutThen, Flush

\* A handler that ends with a reply which is final
LEMMA EndsWith ==
    ASSUME NEW verb, NEW c, ~(c > 0), NEW r, replies' = <<r>>, Handled,
           Final(r, verb), r \notin Notices
    PROVE  Outcome(verb, c)
<1>1. Answering(replies') /\ replies'[1] = r
  BY OneAnswer
<1>2. pc' \in {"read", "closed"}
  BY HandledPC
<1> QED BY <1>1, <1>2 DEF Outcome, Terminal

\* The commands whose replies are all final
LEMMA EndsPlainly ==
    ASSUME NEW verb, verb \notin {"DATA", "AUTH", "STARTTLS"}, NEW c,
           \/ Answering(replies') /\ Handled /\ ~(c > 0)
           \/ pc' = "panic"
    PROVE  Outcome(verb, c)
<1>1. \A r : Final(r, verb)
  BY FinalReplies
<1> QED BY <1>1, HandledPC DEF Outcome, Terminal

\* The answer stands behind the 555s of an extension loop.
LEMMA NotesAppended ==
    ASSUME NEW exts \in Seq(Extension), NEW r, r \notin Notices
    PROVE  Answering(Append(Notes(exts), r))
<1> DEFINE s == Notes(exts)
           n == Len(s)
<1>1. s \in Seq(Reply) /\ n \in Nat
  BY NotesType
<1>2. \A i \in 1 .. n : s[i] \in Notices
  <2>1. \A i \in DOMAIN s : s[i] = "555"
    BY DEF Notes
  <2>2. DOMAIN s = 1 .. n
    BY <1>1
  <2> QED BY <2>1, <2>2 DEF Notices
<1> HIDE DEF s
<1>3. s \in Seq(Reply \cup {r}) /\ r \in Reply \cup {r}
  BY <1>1, SeqMonotonic
<1> DEFINE t == Append(s, r)
<1>4. /\ t # <<>> /\ Len(t) = n + 1 /\ t[n + 1] = r
      /\ \A i \in 1 .. n : t[i] = s[i]
  BY <1>3, AppendProperties
<1> HIDE DEF t, n
<1>5. (n + 1) - 1 = n
  BY <1>1
<1>6. Answering(t)
  BY <1>2, <1>4, <1>5 DEF Answering
<1> QED BY <1>6 DEF t, s

\* The replies of MAIL and RCPT behind the 555s are none of these.
LEMMA PlainAnswers ==
    /\ \A e, from, senderOk : MailRefusal(e, from, senderOk) \notin Notices
    /\ \A st : MailReply(st) \notin Notices
    /\ \A st : RcptReply(st) \notin Notices
    /\ \A x : ExtRefusal(x) \notin Notices
    /\ \A rcpt, args : \A verdict \in {"", "FailMailboxDoesntExist",
                                       "FailMailboxFull", "FailAccessDenied"} :
          RcptRefusal(rcpt, args, verdict) \notin Notices
BY DEF MailRefusal, MailReply, RcptReply, ExtRefusal, RcptRefusal, Notices

\* HELO and EHLO
LEMMA GreetingOutcome ==
    ASSUME ~broken', NEW verb, verb \notin {"DATA", "AUTH", "STARTTLS"}, NEW c,
           ~(c > 0), NEW n, NEW refused \in BOOLEAN, NEW reply, reply \notin Notices,
           Hello(n, refused, reply)
    PROVE  Outcome(verb, c)
<1>1. CASE PanicsAfter(<<>>, "Init")
  BY <1>1, EndsPlainly DEF PanicsAfter
<1>2. CASE /\ Out(IF refused THEN <<"550", reply>> ELSE <<reply>>, "Init")
           /\ Handled
  <2>1. replies' = IF refused THEN <<"550", reply>> ELSE <<reply>>
    BY <1>2, AllSent
  <2>2. Answering(<<"550", reply>>)
    <3> DEFINE t == <<"550", reply>>
    <3>1. t # <<>> /\ Len(t) = 2 /\ t[1] = "550" /\ t[2] = reply
      OBVIOUS
    <3> HIDE DEF t
    <3>2. \A i \in 1 .. 2 - 1 : i = 1
      OBVIOUS
    <3>3. "550" \in Notices
      BY DEF Notices
    <3>4. Answering(t)
      BY <3>1, <3>2, <3>3 DEF Answering
    <3> QED BY <3>4 DEF t
  <2>3. Answering(replies')
    BY <2>1, <2>2, OneAnswer
  <2> QED BY <1>2, <2>3, EndsPlainly
<1> QED BY <1>1, <1>2 DEF Hello

\* MAIL: one reply, or one behind the notes about extensions
LEMMA MailOutcome ==
    ASSUME ~broken', NEW verb, verb \notin {"DATA", "AUTH", "STARTTLS"}, NEW c,
           ~(c > 0), NEW from, NEW senderOk, NEW exts \in Seq(Extension), NEW resolves,
           handleMail(from, senderOk, exts, resolves)
    PROVE  Outcome(verb, c)
<1>1. ASSUME NEW r, NEW st, Out(<<r>>, st), Handled, r \notin Notices
      PROVE  Outcome(verb, c)
  <2>1. Answering(replies')
    BY <1>1, AllSent, OneAnswer
  <2> QED BY <1>1, <2>1, EndsPlainly
<1>2. ASSUME NEW r, Out(Append(Notes(exts), r), "Init"), Handled, r \notin Notices
      PROVE  Outcome(verb, c)
  <2>1. Answering(replies')
    BY <1>2, AllSent, NotesAppended
  <2> QED BY <1>2, <2>1, EndsPlainly
<1>3. CASE PanicsAfter(Notes(exts), "Init")
  BY <1>3, EndsPlainly DEF PanicsAfter
<1>4. "ErrorUnableToResolveHost" \notin Notices
  BY DEF Notices
<1>5. \/ \E r, st : Out(<<r>>, st) /\ Handled /\ r \notin Notices
      \/ \E r : Out(Append(Notes(exts), r), "Init") /\ Handled /\ r \notin Notices
      \/ PanicsAfter(Notes(exts), "Init")
  BY <1>4, PlainAnswers, Zenon DEF handleMail, MailExtensions
<1> QED BY <1>1, <1>2, <1>3, <1>5

\* RCPT likewise
LEMMA RcptOutcome ==
    ASSUME ~broken', NEW verb, verb \notin {"DATA", "AUTH", "STARTTLS"}, NEW c,
           ~(c > 0), NEW rcpt, NEW args \in Seq(Extension),
           NEW verdict \in {"", "FailMailboxDoesntExist", "FailMailboxFull",
                            "FailAccessDenied"},
           handleRcpt(rcpt, args, verdict)
    PROVE  Outcome(verb, c)
<1>1. ASSUME NEW r, NEW st, Out(<<r>>, st), Handled, r \notin Notices
      PROVE  Outcome(verb, c)
  <2>1. Answering(replies')
    BY <1>1, AllSent, OneAnswer
  <2> QED BY <1>1, <2>1, EndsPlainly
<1>2. ASSUME NEW r, NEW st, Out(Append(Notes(args), r), st), Handled, r \notin Notices
      PROVE  Outcome(verb, c)
  <2>1. Answering(replies')
    BY <1>2, AllSent, NotesAppended
  <2> QED BY <1>2, <2>1, EndsPlainly
<1>3. ASSUME NEW msgs, NEW st, PanicsAfter(msgs, st)
      PROVE  Outcome(verb, c)
  BY <1>3, EndsPlainly DEF PanicsAfter
<1>4. \/ \E r, st : Out(<<r>>, st) /\ Handled /\ r \notin Notices
      \/ \E r, st : Out(Append(Notes(args), r), st) /\ Handled /\ r \notin Notices
      \/ \E msgs, st : PanicsAfter(msgs, st)
  BY PlainAnswers, Zenon DEF handleRcpt, RcptAccepts, RcptExtensions, Panics
<1> QED BY <1>1, <1>2, <1>3, <1>4

\* BDAT is answered at once only if there is no chunk to take, but after LAST.
LEMMA BdatOutcome ==
    ASSUME ~broken', NEW c, NEW last, NEW size,
           \/ handleBdatNoArgs /\ ~(c > 0)
           \/ /\ size = c /\ handleBdat(size, size # -1, last)
              /\ ~(state = "DataDone" /\ c > 0)
    PROVE  Outcome("BDAT", c)
<1>1. ASSUME NEW r, NEW st, Out(<<r>>, st), Handled, r \notin Notices, ~(c > 0)
      PROVE  Outcome("BDAT", c)
  <2>1. Answering(replies')
    BY <1>1, AllSent, OneAnswer
  <2> QED BY <1>1, <2>1, EndsPlainly
<1>2. CASE Panics
  BY <1>2, EndsPlainly DEF Panics, PanicsAfter
<1>3. CASE /\ size = c /\ pc' = "bdat" /\ Silent
           /\ local' = [NoLocal EXCEPT !.chunk = size, !.last = last \/ size = 0]
  BY <1>3 DEF Silent, NoLocal, Outcome
<1>4. "503" \notin Notices /\ "FailUnrecognizedCmd" \notin Notices
  BY DEF Notices
<1>5. CASE handleBdatNoArgs /\ ~(c > 0)
  <2>1. \E r, st : Out(<<r>>, st) /\ Handled /\ r \notin Notices
    BY <1>4, <1>5 DEF handleBdatNoArgs
  <2> QED BY <1>1, <1>5, <2>1
<1>6. CASE /\ size = c /\ handleBdat(size, size # -1, last)
           /\ ~(state = "DataDone" /\ c > 0)
  <2>1. \/ /\ \E r, st : Out(<<r>>, st) /\ Handled /\ r \notin Notices
           /\ state = "DataDone" \/ size = -1
        \/ Panics
        \/ /\ pc' = "bdat" /\ Silent
           /\ local' = [NoLocal EXCEPT !.chunk = size, !.last = last \/ size = 0]
    BY <1>4, <1>6, Zenon DEF handleBdat
  <2>2. size = -1 => ~(c > 0)
    BY <1>6
  <2> QED BY <1>1, <1>2, <1>3, <1>6, <2>1, <2>2
<1> QED BY <1>5, <1>6

\* The commands that do little more than reply
LEMMA RepliesOutcome ==
    ASSUME ~broken', NEW verb, verb \notin {"DATA", "AUTH", "STARTTLS"}, NEW c,
           ~(c > 0),
           handleNoop \/ handleHelp \/ handleVrfy \/ handleExpn \/ handleRset
           \/ handleQuit
    PROVE  Outcome(verb, c)
<1>1. {"SuccessNoopCmd", "SuccessHelpCmd", "252 VRFY", "252", "SuccessResetCmd",
       "SuccessQuitCmd"} \cap Notices = {}
  BY DEF Notices
<1>2. \E r : replies' = <<r>> /\ Handled /\ r \notin Notices
  <2>1. \/ \E r, st : Out(<<r>>, st) /\ Handled /\ r \notin Notices
        \/ \E r, st : OutThen(<<r>>, st) /\ Handled /\ r \notin Notices
    BY <1>1, Zenon DEF handleNoop, handleHelp, handleVrfy, handleExpn, Replies,
                       handleRset, handleQuit
  <2> QED BY <2>1, AllSent
<1>3. Answering(replies') /\ Handled
  BY <1>2, OneAnswer
<1> QED BY <1>3, EndsPlainly

\* DATA
LEMMA DataOutcome ==
    ASSUME ~broken', NEW c, ~(c > 0), handleData
    PROVE  Outcome("DATA", c)
<1>1. {"FailBadSequence", "554"} \subseteq Closing
  BY DEF Closing
<1>2. \/ \E r \in Closing : replies' = <<r>> /\ Handled
      \/ replies' = <<"SuccessDataCmd">> /\ pc' = "data"
  BY <1>1, AllSent DEF handleData
<1>3. \A r \in Closing : Final(r, "DATA") /\ r \notin Notices
  BY FinalReplies
<1> QED BY <1>2, <1>3, EndsWith DEF Outcome

\* STARTTLS
LEMMA StartTLSOutcome ==
    ASSUME ~broken', NEW c, ~(c > 0), handleStartTLS
    PROVE  Outcome("STARTTLS", c)
<1>1. \/ \E r \in {"FailBadSequence", "FailCmdNotSupported"} :
            replies' = <<r>> /\ Handled
      \/ replies' = <<"SuccessStartTLSCmd">> /\ pc' = "handshake"
  BY AllSent DEF handleStartTLS
<1>2. \A r \in {"FailBadSequence", "FailCmdNotSupported"} :
         Final(r, "STARTTLS") /\ r \notin Notices
  BY FinalReplies DEF Notices
<1> QED BY <1>1, <1>2, EndsWith DEF Outcome

\* AUTH, at first and in the middle of its dialogues: the end of the session, a
\* final reply, or a wait for the next line
AuthOutcome ==
    \/ pc' \in Terminal
    \/ \E r \in Closing : replies' = <<r>> /\ Handled
    \/ pc' \in AuthPC /\ replies' \in {<<>>, <<"334">>}

\* How the steps of AUTH end
LEMMA AuthEnds ==
    ASSUME ~broken'
    PROVE  /\ \A r \in Closing : \A st : Malformed(r, st) => AuthOutcome
           /\ \A user : \A v \in {"ok", "no", "err"} : checkLogin(user, v) => AuthOutcome
           /\ \A user : \A at \in AuthPC : Prompt(user, at) => AuthOutcome
           /\ Panics => AuthOutcome
<1>1. \A r \in Closing : \A st : Malformed(r, st) => AuthOutcome
  BY AllSent DEF Malformed, AuthOutcome
<1>2. ASSUME NEW user, NEW v \in {"ok", "no", "err"}, checkLogin(user, v)
      PROVE  AuthOutcome
  <2>1. {"SuccessAuthentication", "FailAuthentication"} \subseteq Closing
    BY DEF Closing
  <2>0. CASE ~srv.Authenticator
    BY <1>2, <2>0 DEF checkLogin, Panics, PanicsAfter, AuthOutcome, Terminal
  <2> SUFFICES ASSUME srv.Authenticator PROVE AuthOutcome
    BY <2>0
  <2>2. Handled
    BY <1>2 DEF checkLogin
  <2>3. CASE v = "ok"
    <3>1. Out(<<"SuccessAuthentication">>, state)
      BY <1>2, <2>3 DEF checkLogin
    <3> QED BY <2>1, <2>2, <3>1, AllSent DEF AuthOutcome
  <2>4. CASE v = "no"
    <3>1. Out(<<"FailAuthentication">>, state)
      BY <1>2, <2>4 DEF checkLogin
    <3> QED BY <2>1, <2>2, <3>1, AllSent DEF AuthOutcome
  <2>5. CASE v = "err"
    <3>1. OutThen(<<"ErrorAuth">>, "Aborted")
      BY <1>2, <2>5 DEF checkLogin
    <3> QED BY <2>2, <3>1 DEF OutThen, Handled, AuthOutcome, Terminal
  <2> QED BY <2>3, <2>4, <2>5
<1>3. ASSUME NEW user, NEW at \in AuthPC, Prompt(user, at)
      PROVE  AuthOutcome
  <2>1. replies' = <<"334">> /\ pc' = at
    BY <1>3, AllSent DEF Prompt
  <2> QED BY <2>1 DEF AuthOutcome
<1>4. Panics => AuthOutcome
  BY DEF Panics, PanicsAfter, AuthOutcome, Terminal
<1> QED BY <1>1, <1>2, <1>3, <1>4

\* The AUTH command
LEMMA HandleAuthOutcome ==
    ASSUME ~broken', NEW mech, NEW n, handleAuth(mech, n)
    PROVE  AuthOutcome
<1> DEFINE refusal == AuthRefusal(mech, n)
<1>1. refusal \in Closing \cup {""}
  BY DEF AuthRefusal, Closing
<1>2. "501" \in Closing /\ "loginPass2" \in AuthPC /\ "plain" \in AuthPC
      /\ "loginUser" \in AuthPC
  BY DEF Closing, AuthPC
<1>3. \/ refusal # "" /\ Malformed(refusal, state)
      \/ handleLoginAuth(n)
      \/ handlePlainAuth(n)
  BY Zenon DEF handleAuth
<1> HIDE DEF refusal
<1>4. CASE refusal # "" /\ Malformed(refusal, state)
  BY <1>1, <1>4, AuthEnds
<1>5. CASE handleLoginAuth(n)
  <2>1. \/ pc' = "loginUser" /\ Silent
        \/ Malformed("501", state)
        \/ \E u : Prompt(u, "loginPass2")
        \/ \E v \in {"ok", "no", "err"} : checkLogin(NoUser, v)
    BY <1>5, Zenon DEF handleLoginAuth
  <2>2. CASE pc' = "loginUser" /\ Silent
    BY <1>2, <2>2 DEF Silent, AuthOutcome
  <2> QED BY <1>2, <2>1, <2>2, AuthEnds
<1>6. CASE handlePlainAuth(n)
  <2>1. \/ Prompt(NoUser, "plain")
        \/ Malformed("501", state)
        \/ \E u : \E v \in {"ok", "no", "err"} : checkLogin(u, v)
        \/ Panics
    BY <1>6, Zenon DEF handlePlainAuth
  <2> QED BY <1>2, <2>1, AuthEnds
<1> QED BY <1>3, <1>4, <1>5, <1>6

\* A line of its dialogues
LEMMA CredentialsOutcome ==
    ASSUME ~broken', pc \in AuthPC, NEW u, TakeCredentials(u)
    PROVE  AuthOutcome
<1>1. /\ "501" \in Closing /\ "FailUnrecognizedCmd" \in Closing
      /\ "loginPass1" \in AuthPC
  BY DEF Closing, AuthPC
<1>2. pc \in {"loginUser", "loginPass1", "loginPass2", "plain"}
  BY DEF AuthPC
<1>3. CASE pc = "loginUser"
  <2>1. LoginUserLine
    BY <1>3, Zenon DEF TakeCredentials
  <2>2. \/ Malformed("501", state)
        \/ \E v : Prompt(v, "loginPass1")
    BY <2>1, Zenon DEF LoginUserLine
  <2> QED BY <1>1, <2>2, AuthEnds
<1>4. CASE pc = "loginPass1"
  <2>1. LoginPassword1Line
    BY <1>4, Zenon DEF TakeCredentials
  <2>2. \/ Malformed("501", state)
        \/ \E v \in {"ok", "no", "err"} : checkLogin(local.login, v)
    BY <2>1, Zenon DEF LoginPassword1Line
  <2> QED BY <1>1, <2>2, AuthEnds
<1>5. CASE pc = "loginPass2"
  <2>1. LoginPassword2Line
    BY <1>5, Zenon DEF TakeCredentials
  <2>2. \/ Malformed("501", "Aborted")
        \/ \E v \in {"ok", "no", "err"} : checkLogin(local.login, v)
    BY <2>1, Zenon DEF LoginPassword2Line
  <2> QED BY <1>1, <2>2, AuthEnds
<1>6. CASE pc = "plain"
  <2>1. PlainLine(Parsed(u) # NoCommand, Len(Parsed(u).arguments))
    BY <1>6, Zenon DEF TakeCredentials
  <2>2. \/ Malformed("FailUnrecognizedCmd", state)
        \/ Malformed("501", state)
        \/ \E w : \E v \in {"ok", "no", "err"} : checkLogin(w, v)
        \/ Panics
    BY <2>1, Zenon DEF PlainLine, DialoguePanics
  <2> QED BY <1>1, <2>2, AuthEnds
<1> QED BY <1>2, <1>3, <1>4, <1>5, <1>6

\* The verb of a command and its handler
LEMMA HandlerOfVerb ==
    ASSUME NEW cmd, cmd.commandCode \in 1 .. 14
    PROVE  LET verb == Verbs[cmd.commandCode]
               h == Handler(cmd)
           IN \/ /\ h \in {"handleHelo", "handleEhlo", "handleMail", "handleRcpt",
                           "handleQuit", "handleRset", "handleNoop", "handleVrfy",
                           "handleExpn", "handleHelp"}
                 /\ verb \notin {"DATA", "AUTH", "STARTTLS", "BDAT"}
              \/ h = "handleData" /\ verb = "DATA"
              \/ h = "handleAuth" /\ verb = "AUTH"
              \/ h = "handleStartTLS" /\ verb = "STARTTLS"
              \/ h = "handleBdat" /\ verb = "BDAT"
<1>1. cmd.commandCode \in {1, 2, 3, 4, 5, 6, 7, 8, 9, 10, 11, 12, 13, 14}
  OBVIOUS
<1> QED BY <1>1 DEF Handler, handlers, Verbs

\* Whatever command the session obeys, it ends as its verb lets it, and a BDAT
\* waits for the octets that the client sends behind it unless it comes after
\* BDAT LAST.
LEMMA ObeyOutcome ==
    ASSUME ~broken', pc = "read", NEW u \in Seq(Word \cup {SP}), WellSpaced(u), Obey(u),
           ~ChunkUnread(u)
    PROVE  Outcome(VerbOf(u), ChunkOf(u))
<1> DEFINE cmd == Parsed(u)
           n == Len(cmd.arguments)
           size == NumberOf[cmd.arguments[1]]
           h == Handler(cmd)
           verb == Verbs[cmd.commandCode]
           k == Len(u)
           c == ChunkOf(u)
<1>1. Spaced(u, k) /\ k \in Nat /\ k = Len(u)
  <2>1. k \in Nat /\ k = Len(u) /\ DOMAIN u = 1 .. k
    OBVIOUS
  <2>2. k # 0
    <3>1. u # <<>>
      BY Zenon DEF WellSpaced
    <3> QED BY <3>1
  <2>3. \A i \in DOMAIN u :
           IF i % 2 = 1 THEN u[i] \in Word \ {""} ELSE u[i] = SP
    BY Zenon DEF WellSpaced
  <2> HIDE DEF k
  <2>4. 1 % 2 = 1 /\ 2 % 2 # 1 /\ 3 % 2 = 1 /\ 4 % 2 # 1
    OBVIOUS
  <2>5. /\ k >= 1 /\ 1 \in 1 .. k
        /\ k >= 2 => 2 \in 1 .. k
        /\ k >= 3 => 3 \in 1 .. k
        /\ k >= 4 => 4 \in 1 .. k
    BY <2>1, <2>2
  <2>6. /\ 1 \in DOMAIN u => u[1] \in Word \ {""}
        /\ 2 \in DOMAIN u => u[2] = SP
        /\ 3 \in DOMAIN u => u[3] \in Word \ {""}
        /\ 4 \in DOMAIN u => u[4] = SP
    BY <2>3, <2>4, Zenon
  <2>7. /\ u[1] \in Word \ {""}
        /\ k >= 2 => u[2] = SP
        /\ k >= 3 => u[3] \in Word \ {""}
        /\ k >= 4 => u[4] = SP
    BY <2>1, <2>5, <2>6, Zenon
  <2> QED BY <2>1, <2>5, <2>7 DEF Spaced
<1>2. CASE cmd = NoCommand
  <2>1. Unrecognized
    BY <1>2 DEF Obey
  <2>2. replies' = <<"FailUnrecognizedCmd">> /\ pc' = "read"
    BY <2>1, AllSent DEF Unrecognized
  <2>3. "FailUnrecognizedCmd" \notin Notices
    BY DEF Notices
  <2>4. Answering(replies') /\ replies'[1] = "FailUnrecognizedCmd"
    BY <2>2, <2>3, OneAnswer
  <2>5. VerbOf(u) # "BDAT"
    <3>1. u[1] \notin EightBit
      BY Zenon DEF WellSpaced
    <3> HIDE DEF k
    <3> QED BY <1>1, <1>2, <3>1, BdatParsed DEF VerbOf
  <2>6. ~(ChunkOf(u) > 0)
    BY <2>5 DEF ChunkOf
  <2> QED BY <2>2, <2>4, <2>6, FinalReplies DEF Outcome
<1>3. CASE cmd # NoCommand
  <2>1. Handle(cmd)
    BY <1>3 DEF Obey
  <2>2. /\ verb = VerbOf(u)
        /\ IF k >= 3 THEN cmd.arguments # <<>> /\ cmd.arguments[1] = u[3]
           ELSE cmd.arguments = <<>>
    <3> HIDE DEF k
    <3> QED BY <1>1, <1>3, ParsedSpaced DEF VerbOf
  <2>3. cmd.commandCode \in 1 .. 14 /\ cmd.arguments \in Seq(Word)
    BY <1>3, ParsedType
  <2>4. verb = "BDAT" => n = 0 \/ size = c
    <3>1. n # 0 => k >= 3
      BY <2>2
    <3>2. k >= 3 => Len(u) > 2
      BY <1>1
    <3> HIDE DEF k, n
    <3> QED BY <2>2, <3>1, <3>2 DEF ChunkOf
  <2>5. n = Len(cmd.arguments)
    OBVIOUS
  <2>6. /\ verb # "BDAT" \/ n = 0 => ~(c > 0)
        /\ h = "handleBdat" /\ n # 0 => ~(state = "DataDone" /\ size > 0)
    <3>1. n = 0 => ~(k >= 3)
      BY <2>2
    <3>2. ~(k >= 3) => ~(Len(u) > 2)
      BY <1>1
    <3>3. verb # "BDAT" \/ n = 0 => c = 0
      <4> HIDE DEF k, n
      <4> QED BY <2>2, <3>1, <3>2 DEF ChunkOf
    <3>4. n # 0 => cmd.arguments # <<>>
      OBVIOUS
    <3>5. h = "handleBdat" /\ cmd.arguments # <<>> => ~(state = "DataDone" /\ size > 0)
      BY <1>3 DEF ChunkUnread
    <3> HIDE DEF k, n, c
    <3> QED BY <3>3, <3>4, <3>5
  <2> HIDE DEF n
  <2>7. PICK path, exts, rest, mech, last :
              /\ Runnable(n, path, exts, rest, size, last)
              /\ Runs(h, n, path, exts, rest, mech, size, last)
    BY <1>3, <2>1, <2>5, HandleRuns, Zenon
  <2>8. \/ /\ h \in {"handleHelo", "handleEhlo", "handleMail", "handleRcpt",
                     "handleQuit", "handleRset", "handleNoop", "handleVrfy",
                     "handleExpn", "handleHelp"}
           /\ verb \notin {"DATA", "AUTH", "STARTTLS", "BDAT"}
        \/ h = "handleData" /\ verb = "DATA"
        \/ h = "handleAuth" /\ verb = "AUTH"
        \/ h = "handleStartTLS" /\ verb = "STARTTLS"
        \/ h = "handleBdat" /\ verb = "BDAT"
    BY <2>3, HandlerOfVerb
  <2> HIDE DEF h, size, verb, c, cmd
  <2>9. exts \in Seq(Extension) /\ rest \in Seq(Extension)
    BY <2>7 DEF Runnable
  <2>10. Outcome(verb, c)
    <3>1. CASE /\ h \in {"handleHelo", "handleEhlo"}
               /\ verb \notin {"DATA", "AUTH", "STARTTLS", "BDAT"}
      <4>1. \E m : \E refused \in BOOLEAN : \E reply \in {"250-EHLO", "250 HELO"} :
               Hello(m, refused, reply)
        BY <2>7, <3>1, Zenon DEF Runs, handleHelo, handleEhlo
      <4>2. {"250-EHLO", "250 HELO"} \cap Notices = {}
        BY DEF Notices
      <4> QED BY <2>6, <3>1, <4>1, <4>2, GreetingOutcome
    <3>2. CASE h = "handleMail" /\ verb \notin {"DATA", "AUTH", "STARTTLS", "BDAT"}
      <4>1. \E senderOk, resolves : handleMail(path, senderOk, rest, resolves)
        BY <2>7, <3>2, Zenon DEF Runs
      <4> QED BY <2>6, <2>9, <3>2, <4>1, MailOutcome
    <3>3. CASE h = "handleRcpt" /\ verb \notin {"DATA", "AUTH", "STARTTLS", "BDAT"}
      <4>1. \E verdict \in {"", "FailMailboxDoesntExist", "FailMailboxFull",
                            "FailAccessDenied"} : handleRcpt(path, exts, verdict)
        BY <2>7, <3>3, Zenon DEF Runs
      <4> QED BY <2>6, <2>9, <3>3, <4>1, RcptOutcome
    <3>4. CASE /\ h \in {"handleQuit", "handleRset", "handleNoop", "handleVrfy",
                         "handleExpn", "handleHelp"}
               /\ verb \notin {"DATA", "AUTH", "STARTTLS", "BDAT"}
      <4>1. handleNoop \/ handleHelp \/ handleVrfy \/ handleExpn \/ handleRset
            \/ handleQuit
        BY <2>7, <3>4, Zenon DEF Runs
      <4> QED BY <2>6, <3>4, <4>1, RepliesOutcome
    <3>5. CASE h = "handleData" /\ verb = "DATA"
      <4>1. handleData
        BY <2>7, <3>5, Zenon DEF Runs
      <4> QED BY <2>6, <3>5, <4>1, DataOutcome
    <3>6. CASE h = "handleAuth" /\ verb = "AUTH"
      <4>1. handleAuth(mech, n)
        BY <2>7, <3>6, Zenon DEF Runs
      <4>2. AuthOutcome
        BY <4>1, HandleAuthOutcome
      <4>3. \A r \in Closing : Final(r, "AUTH") /\ r \notin Notices
        BY FinalReplies
      <4> QED BY <2>6, <3>6, <4>2, <4>3, EndsWith DEF AuthOutcome, Outcome
    <3>7. CASE h = "handleStartTLS" /\ verb = "STARTTLS"
      <4>1. handleStartTLS
        BY <2>7, <3>7, Zenon DEF Runs
      <4> QED BY <2>6, <3>7, <4>1, StartTLSOutcome
    <3>8. CASE h = "handleBdat" /\ verb = "BDAT"
      <4>1. \/ handleBdatNoArgs /\ ~(c > 0)
            \/ /\ size = c /\ handleBdat(size, size # -1, last)
               /\ ~(state = "DataDone" /\ c > 0)
        <5>1. CASE n = 0
          BY <2>6, <2>7, <3>8, <5>1, Zenon DEF Runs
        <5>2. CASE n # 0
          <6>1. size = c /\ ~(state = "DataDone" /\ size > 0)
            BY <2>4, <2>6, <3>8, <5>2, Zenon
          <6>2. handleBdat(size, size # -1, last)
            BY <2>7, <3>8, <5>2, Zenon DEF Runs
          <6> QED BY <6>1, <6>2
        <5> QED BY <5>1, <5>2
      <4> QED BY <3>8, <4>1, BdatOutcome
    <3> QED BY <2>8, <3>1, <3>2, <3>3, <3>4, <3>5, <3>6, <3>7, <3>8
  <2> QED BY <2>2, <2>10 DEF c
<1> QED BY <1>2, <1>3

-----------------------------------------------------------------------------
\* Commands and their chunks in the stream

\* s, of n items, begins with c octets, the rest of a chunk; behind them there
\* are commands, each with as many octets behind it as it announces.
Chunked(s, n, c) ==
    /\ \A i \in 1 .. n : s[i].as \in {"command", "octet"}
    /\ c <= n /\ \A i \in 1 .. c : s[i].as = "octet"
    /\ \A i \in 1 .. n : i > c /\ s[i].as = "octet" =>
          \E j \in 1 .. n : /\ j < i /\ s[j].as = "command"
                            /\ i - j <= Chunk(s[j].line)
    /\ \A j \in 1 .. n : s[j].as = "command" =>
          \A i \in 1 .. Chunk(s[j].line) : j + i <= n /\ s[j + i].as = "octet"

\* at[k] is the place of the k-th of the m commands in s, of n items, and due[k]
\* its verb.
Placed(at, due, m, s, n) ==
    /\ at \in [1 .. m -> 1 .. n]
    /\ \A k, l \in 1 .. m : k < l => at[k] < at[l]
    /\ \A k \in 1 .. m : /\ s[at[k]].as = "command"
                         /\ due[k] = VerbOf(s[at[k]].line)
    /\ \A i \in 1 .. n : s[i].as = "command" => \E k \in 1 .. m : at[k] = i

\* There are such places.
Matched(due, m, s, n) == \E at : Placed(at, due, m, s, n)

\* This is what Pairs says.
LEMMA PairsPlaced ==
    ASSUME NEW S, NEW T, NEW due \in Seq(S), NEW s \in Seq(T)
    PROVE  Pairs(due, s) <=> Matched(due, Len(due), s, Len(s))
<1>1. DOMAIN due = 1 .. Len(due) /\ DOMAIN s = 1 .. Len(s)
  OBVIOUS
<1> QED BY <1>1, Zenon DEF Pairs, Matched, Placed

\* The number of octets that a command announces
LEMMA ChunkType ==
    ASSUME NEW x \in Sendable, x.as = "command"
    PROVE  Chunk(x.line) \in Nat \cup {-1}
<1>1. PICK t \in Seq(Word \cup {SP}) : x.line = WithEnd(t) /\ WellSpaced(t)
  BY DEF Sendable, IsLine
<1>2. Chunk(x.line) = ChunkOf(t)
  BY <1>1, CommandIs
<1> QED BY <1>1, <1>2, ChunkOfType

\* A command and its octets come behind what is there.
LEMMA ChunkedAppend ==
    ASSUME NEW s, NEW n \in Nat, NEW c \in Nat, Chunked(s, n, c),
           NEW d \in Nat, NEW u,
           \A i \in 1 .. n : u[i] = s[i],
           \A i \in 1 .. n : s[i].as = "command" => Chunk(s[i].line) \in Int,
           u[n + 1].as = "command",
           Chunk(u[n + 1].line) \in Int,
           d = IF Chunk(u[n + 1].line) > 0 THEN Chunk(u[n + 1].line) ELSE 0,
           \A i \in (n + 2) .. (n + 1 + d) : u[i].as = "octet"
    PROVE  Chunked(u, n + 1 + d, c)
<1> DEFINE N == n + 1 + d
           h == Chunk(u[n + 1].line)
<1>1. N \in Nat /\ c <= n /\ h \in Int /\ d = IF h > 0 THEN h ELSE 0
  BY DEF Chunked
<1>2. \A i \in 1 .. N : i \in 1 .. n \/ i = n + 1 \/ i \in (n + 2) .. N
  BY <1>1
<1> HIDE DEF h
<1>3. \A i \in 1 .. N : u[i].as \in {"command", "octet"}
  BY <1>2 DEF Chunked
<1>4. c <= N /\ \A i \in 1 .. c : u[i].as = "octet"
  BY <1>1 DEF Chunked
<1>5. ASSUME NEW i \in 1 .. N, i > c, u[i].as = "octet"
      PROVE  \E j \in 1 .. N : /\ j < i /\ u[j].as = "command"
                               /\ i - j <= Chunk(u[j].line)
  <2>1. CASE i \in 1 .. n
    <3>1. PICK j \in 1 .. n : j < i /\ s[j].as = "command" /\ i - j <= Chunk(s[j].line)
      BY <1>5, <2>1 DEF Chunked
    <3>2. j \in 1 .. N /\ u[j] = s[j]
      OBVIOUS
    <3> QED BY <3>1, <3>2
  <2>2. CASE i \in (n + 2) .. N
    <3>1. n + 1 \in 1 .. N /\ n + 1 < i /\ i - (n + 1) <= h
      BY <1>1, <2>2
    <3> QED BY <3>1 DEF h
  <2>3. CASE i = n + 1
    BY <1>5, <2>3
  <2> QED BY <1>2, <2>1, <2>2, <2>3
<1>6. ASSUME NEW j \in 1 .. N, u[j].as = "command", NEW i \in 1 .. Chunk(u[j].line)
      PROVE  j + i <= N /\ u[j + i].as = "octet"
  <2>1. CASE j \in 1 .. n
    <3>1. u[j] = s[j]
      BY <2>1
    <3>2. j + i <= n /\ s[j + i].as = "octet"
      BY <1>6, <2>1, <3>1 DEF Chunked
    <3>3. j + i \in 1 .. n /\ n <= N
      BY <2>1, <3>1, <3>2
    <3> QED BY <3>2, <3>3
  <2>2. CASE j = n + 1
    <3>1. i \in 1 .. h
      BY <1>6, <2>2 DEF h
    <3>2. j + i \in (n + 2) .. N
      BY <1>1, <2>2, <3>1
    <3> QED BY <3>2
  <2>3. CASE j \in (n + 2) .. N
    BY <1>6, <2>3
  <2> QED BY <1>2, <2>1, <2>2, <2>3
<1> QED BY <1>3, <1>4, <1>5, <1>6 DEF Chunked

\* u, of m items, is s, of n items, with a command behind it and its octets.
Grown(u, m, s, n) ==
    /\ \A i \in 1 .. n : u[i] = s[i]
    /\ n < m /\ u[n + 1].as = "command"
    /\ \A i \in (n + 2) .. m : u[i].as = "octet"

\* Its reply is the last that is due.
LEMMA PlacedAppend ==
    ASSUME NEW at, NEW due, NEW m \in Nat, NEW s, NEW n \in Nat,
           Placed(at, due, m, s, n),
           NEW u, NEW N \in Nat, Grown(u, N, s, n),
           NEW more, \A k \in 1 .. m : more[k] = due[k],
           NEW M, M = m + 1, more[M] = VerbOf(u[n + 1].line)
    PROVE  Matched(more, M, u, N)
<1> DEFINE bt == [k \in 1 .. M |-> IF k = M THEN n + 1 ELSE at[k]]
<1>1. \A k \in 1 .. m : at[k] \in 1 .. n
  BY DEF Placed
<1> USE DEF Grown
<1>2. /\ \A k \in 1 .. M : k = M \/ k \in 1 .. m
      /\ \A k \in 1 .. m : k \in 1 .. M /\ k # M
      /\ M \in 1 .. M /\ N \in Nat
      /\ \A i \in 1 .. N : i \in 1 .. n \/ i = n + 1 \/ i \in (n + 2) .. N
  OBVIOUS
<1>3. bt[M] = n + 1 /\ \A k \in 1 .. m : bt[k] = at[k]
  BY <1>2
<1>4. bt \in [1 .. M -> 1 .. N]
  BY <1>1, <1>2
<1> HIDE DEF bt
<1>5. ASSUME NEW k \in 1 .. M, NEW l \in 1 .. M, k < l
      PROVE  bt[k] < bt[l]
  <2>1. k \in 1 .. m
    BY <1>5
  <2>2. CASE l = M
    BY <1>1, <1>3, <2>1, <2>2
  <2>3. CASE l \in 1 .. m
    BY <1>3, <1>5, <2>1, <2>3 DEF Placed
  <2> QED BY <1>2, <2>2, <2>3
<1>6. ASSUME NEW k \in 1 .. M
      PROVE  u[bt[k]].as = "command" /\ more[k] = VerbOf(u[bt[k]].line)
  <2>1. CASE k \in 1 .. m
    <3>1. u[at[k]] = s[at[k]] /\ more[k] = due[k] /\ bt[k] = at[k]
      BY <1>1, <1>3, <2>1
    <3>2. s[at[k]].as = "command" /\ due[k] = VerbOf(s[at[k]].line)
      BY <2>1 DEF Placed
    <3> QED BY <3>1, <3>2
  <2>2. CASE k = M
    BY <1>3, <2>2
  <2> QED BY <1>2, <2>1, <2>2
<1>7. ASSUME NEW i \in 1 .. N, u[i].as = "command"
      PROVE  \E k \in 1 .. M : bt[k] = i
  <2>1. CASE i \in 1 .. n
    <3>1. PICK k \in 1 .. m : at[k] = i
      BY <1>7, <2>1 DEF Placed
    <3> QED BY <1>2, <1>3, <3>1
  <2>2. CASE i = n + 1
    BY <1>2, <1>3, <2>2
  <2>3. CASE i \in (n + 2) .. N
    BY <1>7, <2>3
  <2> QED BY <1>2, <2>1, <2>2, <2>3
<1>8. Placed(bt, more, M, u, N)
  BY <1>4, <1>5, <1>6, <1>7 DEF Placed
<1> QED BY <1>8 DEF Matched

\* What comes first, when no chunk is under way, is a command.
LEMMA ChunkedFirst ==
    ASSUME NEW s, NEW n \in Nat, n # 0, Chunked(s, n, 0)
    PROVE  s[1].as = "command"
<1>1. 1 \in 1 .. n /\ 1 > 0 /\ \A j \in 1 .. n : ~(j < 1)
  OBVIOUS
<1> QED BY <1>1 DEF Chunked

\* The reply to it is the first that is due.
LEMMA PlacedFirst ==
    ASSUME NEW at, NEW due, NEW m \in Nat, NEW s, NEW n \in Nat,
           Placed(at, due, m, s, n), n # 0, s[1].as = "command"
    PROVE  m # 0 /\ at[1] = 1 /\ due[1] = VerbOf(s[1].line)
<1>1. 1 \in 1 .. n
  OBVIOUS
<1>2. PICK k \in 1 .. m : at[k] = 1
  BY <1>1 DEF Placed
<1>3. m # 0 /\ 1 \in 1 .. m
  OBVIOUS
<1>4. at[1] \in 1 .. n
  BY <1>3 DEF Placed
<1>5. 1 < k => at[1] < at[k]
  BY <1>3 DEF Placed
<1>6. at[1] = 1
  BY <1>2, <1>4, <1>5
<1> QED BY <1>3, <1>6 DEF Placed

\* Taking p items from the front: p is 1 for a command, which leaves the c octets
\* that it announces, and the rest of the chunk when this is taken.
LEMMA ChunkedCut ==
    ASSUME NEW s, NEW n \in Nat, NEW b \in Nat, Chunked(s, n, b),
           \A i \in 1 .. n : s[i].as = "command" => Chunk(s[i].line) \in Int,
           NEW p \in Nat, p <= n, NEW c \in Nat, NEW u,
           \A i \in 1 .. n - p : u[i] = s[i + p],
           \/ /\ p = 1 /\ b = 0
              /\ c = IF Chunk(s[1].line) > 0 THEN Chunk(s[1].line) ELSE 0
           \/ p = b /\ c = 0
    PROVE  Chunked(u, n - p, c)
<1> DEFINE N == n - p
<1>1. N \in Nat /\ \A i \in 1 .. N : i + p \in 1 .. n
  OBVIOUS
<1>2. \A i \in 1 .. N : u[i].as \in {"command", "octet"}
  BY <1>1 DEF Chunked
<1>3. CASE p = 1 /\ b = 0
  <2> DEFINE h == Chunk(s[1].line)
  <2>1. s[1].as = "command" /\ h \in Int /\ 1 \in 1 .. n
    BY <1>3, ChunkedFirst
  <2>2. c = IF h > 0 THEN h ELSE 0
    BY <1>3
  <2>3. \A i \in 1 .. h : 1 + i <= n /\ s[1 + i].as = "octet"
    BY <2>1 DEF Chunked
  <2> HIDE DEF h
  <2>4. c <= N /\ \A i \in 1 .. c : u[i].as = "octet"
    <3>1. c > 0 => c \in 1 .. h /\ 1 + c <= n
      BY <2>1, <2>2, <2>3
    <3>2. c <= N
      BY <1>1, <1>3, <3>1
    <3>3. ASSUME NEW i \in 1 .. c PROVE u[i].as = "octet"
      <4>1. i \in 1 .. h /\ i \in 1 .. N /\ i + p = 1 + i
        BY <1>3, <2>1, <2>2, <3>2
      <4> QED BY <2>3, <4>1
    <3> QED BY <3>2, <3>3
  <2>5. ASSUME NEW i \in 1 .. N, i > c, u[i].as = "octet"
        PROVE  \E j \in 1 .. N : /\ j < i /\ u[j].as = "command"
                                 /\ i - j <= Chunk(u[j].line)
    <3>1. i + 1 \in 1 .. n /\ i + 1 > 0 /\ s[i + 1].as = "octet"
      BY <1>1, <1>3, <2>5
    <3>2. PICK j \in 1 .. n : /\ j < i + 1 /\ s[j].as = "command"
                              /\ (i + 1) - j <= Chunk(s[j].line)
      BY <1>3, <3>1 DEF Chunked
    <3>3. j # 1
      <4> SUFFICES ASSUME j = 1 PROVE FALSE
        OBVIOUS
      <4>1. (i + 1) - 1 <= h
        BY <3>2 DEF h
      <4> QED BY <2>1, <2>2, <2>5, <4>1
    <3>4. j - 1 \in 1 .. N /\ j - 1 < i /\ (j - 1) + p = j
      BY <1>3, <3>2, <3>3
    <3>5. u[j - 1] = s[j] /\ i - (j - 1) = (i + 1) - j
      BY <3>4
    <3> QED BY <3>2, <3>4, <3>5
  <2>6. ASSUME NEW j \in 1 .. N, u[j].as = "command", NEW i \in 1 .. Chunk(u[j].line)
        PROVE  j + i <= N /\ u[j + i].as = "octet"
    <3>1. u[j] = s[j + 1] /\ j + 1 \in 1 .. n
      BY <1>1, <1>3
    <3>2. (j + 1) + i <= n /\ s[(j + 1) + i].as = "octet"
      BY <2>6, <3>1 DEF Chunked
    <3>3. j + i <= N /\ j + i \in 1 .. N /\ (j + i) + p = (j + 1) + i
      BY <1>3, <3>2
    <3> QED BY <3>2, <3>3
  <2> QED BY <1>2, <2>4, <2>5, <2>6 DEF Chunked
<1>4. CASE p = b /\ c = 0
  <2>1. \A i \in 1 .. b : s[i].as = "octet"
    BY DEF Chunked
  <2>2. c <= N /\ \A i \in 1 .. c : u[i].as = "octet"
    BY <1>4
  <2>3. ASSUME NEW i \in 1 .. N, i > c, u[i].as = "octet"
        PROVE  \E j \in 1 .. N : /\ j < i /\ u[j].as = "command"
                                 /\ i - j <= Chunk(u[j].line)
    <3>1. i + p \in 1 .. n /\ i + p > b /\ s[i + p].as = "octet"
      BY <1>1, <1>4, <2>3
    <3>2. PICK j \in 1 .. n : /\ j < i + p /\ s[j].as = "command"
                              /\ (i + p) - j <= Chunk(s[j].line)
      BY <3>1 DEF Chunked
    <3>3. ~(j \in 1 .. p)
      BY <1>4, <2>1, <3>2
    <3>4. j - p \in 1 .. N /\ j - p < i /\ (j - p) + p = j
      BY <3>2, <3>3
    <3>5. u[j - p] = s[j] /\ i - (j - p) = (i + p) - j
      BY <3>4
    <3> QED BY <3>2, <3>4, <3>5
  <2>4. ASSUME NEW j \in 1 .. N, u[j].as = "command", NEW i \in 1 .. Chunk(u[j].line)
        PROVE  j + i <= N /\ u[j + i].as = "octet"
    <3>1. u[j] = s[j + p] /\ j + p \in 1 .. n
      BY <1>1
    <3>2. (j + p) + i <= n /\ s[(j + p) + i].as = "octet"
      BY <2>4, <3>1 DEF Chunked
    <3>3. j + i <= N /\ j + i \in 1 .. N /\ (j + i) + p = (j + p) + i
      BY <3>2
    <3> QED BY <3>2, <3>3
  <2> QED BY <1>2, <2>2, <2>3, <2>4 DEF Chunked
<1> QED BY <1>3, <1>4

\* u, of n items, is s from the p-th item on.
Shifted(u, n, s, p) == \A i \in 1 .. n : u[i] = s[i + p]

\* Among the first p items of s there are only octets, if q is 0, or there is one
\* item, the command in at[1], if it is 1.
Foremost(s, at, p, q) == \/ q = 0 /\ \A i \in 1 .. p : s[i].as = "octet"
                         \/ q = 1 /\ p = 1 /\ at[1] = 1

\* The places move by as many as are taken.
LEMMA PlacedCut ==
    ASSUME NEW at, NEW due, NEW m \in Nat, NEW s, NEW n \in Nat,
           Placed(at, due, m, s, n),
           NEW p \in Nat, p <= n, NEW N, N = n - p,
           NEW u, Shifted(u, N, s, p),
           NEW q \in {0, 1}, q <= m, NEW M, M = m - q,
           NEW rest, Shifted(rest, M, due, q),
           Foremost(s, at, p, q)
    PROVE  Matched(rest, M, u, N)
<1> DEFINE bt == [k \in 1 .. M |-> at[k + q] - p]
<1>1. /\ \A k \in 1 .. M : k + q \in 1 .. m
      /\ \A k \in 1 .. m : at[k] \in 1 .. n
      /\ \A i \in 1 .. N : i + p \in 1 .. n
  BY DEF Placed
<1>2. \A k \in 1 .. M : at[k + q] > p
  <2> SUFFICES ASSUME NEW k \in 1 .. M PROVE at[k + q] > p
    OBVIOUS
  <2>1. k + q \in 1 .. m /\ at[k + q] \in 1 .. n
    BY <1>1
  <2>2. CASE q = 0 /\ \A i \in 1 .. p : s[i].as = "octet"
    <3>1. s[at[k + q]].as = "command"
      BY <2>1 DEF Placed
    <3> QED BY <2>1, <2>2, <3>1
  <2>3. CASE q = 1 /\ p = 1 /\ at[1] = 1
    <3>1. 1 \in 1 .. m /\ 1 < k + q
      BY <2>1, <2>3
    <3>2. at[1] < at[k + q]
      BY <2>1, <3>1 DEF Placed
    <3> QED BY <2>1, <2>3, <3>2
  <2> QED BY <2>2, <2>3 DEF Foremost
<1>3. /\ bt \in [1 .. M -> 1 .. N]
      /\ \A k \in 1 .. M : bt[k] + p = at[k + q] /\ bt[k] \in 1 .. N
  <2>1. M \in Nat /\ N \in Nat /\ n = N + p
    OBVIOUS
  <2>2. ASSUME NEW k \in 1 .. M
        PROVE  at[k + q] - p \in 1 .. N /\ (at[k + q] - p) + p = at[k + q]
    <3> DEFINE a == at[k + q]
    <3>1. a \in 1 .. n /\ a > p
      BY <1>1, <1>2
    <3> HIDE DEF a
    <3>2. a - p \in 1 .. N /\ (a - p) + p = a
      BY <2>1, <3>1
    <3> QED BY <3>2 DEF a
  <2> QED BY <2>2
<1> HIDE DEF bt
<1>4. ASSUME NEW k \in 1 .. M, NEW l \in 1 .. M, k < l
      PROVE  bt[k] < bt[l]
  <2>1. k + q \in 1 .. m /\ l + q \in 1 .. m /\ k + q < l + q
    BY <1>1, <1>4
  <2>2. at[k + q] < at[l + q]
    BY <2>1 DEF Placed
  <2>3. /\ bt[k] + p = at[k + q] /\ bt[k] \in 1 .. N
        /\ bt[l] + p = at[l + q] /\ bt[l] \in 1 .. N
    BY <1>3
  <2>4. N \in Nat
    OBVIOUS
  <2> QED BY <2>2, <2>3, <2>4
<1>5. ASSUME NEW k \in 1 .. M
      PROVE  u[bt[k]].as = "command" /\ rest[k] = VerbOf(u[bt[k]].line)
  <2>1. u[bt[k]] = s[at[k + q]] /\ rest[k] = due[k + q]
    BY <1>3 DEF Shifted
  <2>2. s[at[k + q]].as = "command" /\ due[k + q] = VerbOf(s[at[k + q]].line)
    BY <1>1 DEF Placed
  <2> QED BY <2>1, <2>2
<1>6. ASSUME NEW i \in 1 .. N, u[i].as = "command"
      PROVE  \E k \in 1 .. M : bt[k] = i
  <2>1. i + p \in 1 .. n /\ s[i + p].as = "command"
    BY <1>1, <1>6 DEF Shifted
  <2>2. PICK k \in 1 .. m : at[k] = i + p
    BY <2>1 DEF Placed
  <2>3. k - q \in 1 .. M /\ (k - q) + q = k
    <3>1. q = 1 => k # 1
      BY <2>2 DEF Foremost
    <3> QED BY <3>1
  <2>4. bt[k - q] + p = i + p /\ bt[k - q] \in 1 .. N
    BY <1>3, <2>2, <2>3
  <2>5. bt[k - q] = i
    BY <2>4
  <2> QED BY <2>3, <2>5
<1>7. Placed(bt, rest, M, u, N)
  BY <1>3, <1>4, <1>5, <1>6 DEF Placed
<1> QED BY <1>7 DEF Matched

\* A command without a chunk, when no reply to another is due, is all there is.
LEMMA ChunkedAlone ==
    ASSUME NEW s, NEW n \in Nat, n # 0, Chunked(s, n, 0),
           NEW at, NEW due, Placed(at, due, 1, s, n),
           Chunk(s[1].line) \in Int, Chunk(s[1].line) <= 0
    PROVE  n = 1
<1>1. s[1].as = "command"
  BY ChunkedFirst
<1>2. \A i \in 1 .. n : s[i].as = "command" => i = 1
  <2>1. at[1] = 1
    BY <1>1, PlacedFirst
  <2> QED BY <2>1 DEF Placed
<1> SUFFICES ASSUME n # 1 PROVE FALSE
  OBVIOUS
<1>3. 2 \in 1 .. n /\ 2 > 0
  OBVIOUS
<1>4. s[2].as = "octet"
  BY <1>2, <1>3 DEF Chunked
<1>5. PICK j \in 1 .. n : s[j].as = "command" /\ 2 - j <= Chunk(s[j].line)
  BY <1>3, <1>4 DEF Chunked
<1>6. j = 1
  BY <1>2, <1>5
<1>7. 2 - 1 <= Chunk(s[1].line)
  BY <1>5, <1>6
<1> QED BY <1>7

-----------------------------------------------------------------------------
\* The stream

\* The rest of a chunk, c octets, and behind it commands with their chunks, to
\* which the replies in due are due
Stream(s, due, c) == Chunked(s, Len(s), c) /\ Pairs(due, s)

\* The commands in a stream have chunks.
LEMMA StreamChunks ==
    ASSUME NEW s \in Seq(Sendable)
    PROVE  \A i \in 1 .. Len(s) : s[i].as = "command" => Chunk(s[i].line) \in Int
<1> SUFFICES ASSUME NEW i \in 1 .. Len(s), s[i].as = "command"
             PROVE  Chunk(s[i].line) \in Int
  OBVIOUS
<1>1. s[i] \in Sendable
  BY ElementOfSeq
<1>2. Chunk(s[i].line) \in Nat \cup {-1}
  BY <1>1, ChunkType
<1> QED BY <1>2

\* Nothing is on its way, and no reply is due.
LEMMA StreamEmpty == Stream(<<>>, <<>>, 0)
<1> DEFINE e == <<>>
<1>1. e \in Seq(Sendable) /\ Len(e) = 0 /\ 1 .. 0 = {}
  OBVIOUS
<1>2. Chunked(e, 0, 0)
  BY <1>1 DEF Chunked
<1>3. Placed(e, e, 0, e, 0)
  BY <1>1 DEF Placed
<1>4. Matched(e, 0, e, 0)
  BY <1>3, Zenon DEF Matched
<1>5. Pairs(e, e)
  BY <1>1, <1>4, PairsPlaced
<1> QED BY <1>1, <1>2, <1>5 DEF Stream

\* The client sends a command.
LEMMA StreamSend ==
    ASSUME NEW D, NEW due \in Seq(D), NEW s \in Seq(Sendable), NEW c \in Nat,
           Stream(s, due, c), NEW line \in Seq(Word \cup {SP}), WellSpaced(line),
           NEW t, CommandSent(t, line, Octets(line))
    PROVE  Stream(Cat(s, t), Append(due, VerbOf(line)), c)
<1> DEFINE n == Len(s)
           m == Len(due)
           d == Octets(line)
           u == Cat(s, t)
           v == VerbOf(line)
           more == Append(due, v)
           E == D \cup {v}
<1>1. n \in Nat /\ m \in Nat /\ n = Len(s) /\ m = Len(due)
  OBVIOUS
<1>2. d \in Nat /\ ChunkOf(line) \in Int /\ d = Octets(line)
  BY ChunkOfType
<1>3. /\ t \in Seq(Sendable) /\ Len(t) = 1 + d /\ t[1].as = "command"
      /\ t[1].line = WithEnd(line) /\ \A i \in 2 .. 1 + d : t[i].as = "octet"
  BY DEF CommandSent
<1>4. VerbOf(t[1].line) = v /\ Chunk(t[1].line) = ChunkOf(line)
  BY <1>3, CommandIs
<1>5. /\ due \in Seq(E) /\ v \in E
      /\ more \in Seq(E) /\ Len(more) = m + 1
      /\ (\A k \in 1 .. m : more[k] = due[k]) /\ more[m + 1] = v
  <2>1. due \in Seq(E) /\ v \in E
    BY SeqMonotonic
  <2> QED BY <2>1, AppendProperties
<1> HIDE DEF n, m, d, more, v, E
<1>6. /\ u \in Seq(Sendable) /\ Len(u) = n + Len(t)
      /\ \A i \in 1 .. n + Len(t) : u[i] = IF i <= n THEN s[i] ELSE t[i - n]
  BY <1>1, <1>3, ConcatProperties DEF Cat
<1> HIDE DEF u
<1>7. Len(u) = n + 1 + d /\ \A i \in 1 .. n : u[i] = s[i]
  <2>1. n + Len(t) = n + 1 + d
    <3>1. n \in Nat /\ d \in Nat /\ Len(t) = 1 + d
      BY <1>1, <1>2, <1>3, Zenon
    <3>2. \A a, b \in Nat : a + (1 + b) = a + 1 + b
      OBVIOUS
    <3> QED BY <3>1, <3>2, Zenon
  <2>2. \A i \in 1 .. n : i \in 1 .. n + 1 + d /\ i <= n
    BY <1>1, <1>2
  <2> QED BY <1>6, <2>1, <2>2
<1>8. u[n + 1] = t[1]
  <2>1. n + 1 \in 1 .. n + Len(t) /\ ~(n + 1 <= n) /\ (n + 1) - n = 1
    BY <1>1, <1>2, <1>3
  <2> QED BY <1>6, <2>1
<1>9. \A i \in (n + 2) .. (n + 1 + d) : u[i].as = "octet"
  <2> SUFFICES ASSUME NEW i \in (n + 2) .. (n + 1 + d) PROVE u[i].as = "octet"
    OBVIOUS
  <2>1. i \in 1 .. n + Len(t) /\ ~(i <= n) /\ i - n \in 2 .. 1 + d
    BY <1>1, <1>2, <1>3
  <2> QED BY <1>3, <1>6, <2>1
<1>10. Chunked(u, n + 1 + d, c)
  <2>1. Chunked(s, n, c)
    BY <1>1 DEF Stream
  <2>2. \A i \in 1 .. n : s[i].as = "command" => Chunk(s[i].line) \in Int
    BY <1>1, StreamChunks
  <2>3. d = IF Chunk(u[n + 1].line) > 0 THEN Chunk(u[n + 1].line) ELSE 0
    BY <1>2, <1>4, <1>8 DEF Octets
  <2>4. u[n + 1].as = "command" /\ Chunk(u[n + 1].line) \in Int
    BY <1>2, <1>3, <1>4, <1>8
  <2> QED BY <1>1, <1>2, <1>7, <1>9, <2>1, <2>2, <2>3, <2>4, ChunkedAppend
<1>11. Matched(more, m + 1, u, n + 1 + d)
  <2> DEFINE N == n + 1 + d
             M == m + 1
  <2>1. PICK at : Placed(at, due, m, s, n)
    BY <1>1, PairsPlaced DEF Stream, Matched
  <2>2. u[n + 1].as = "command" /\ more[M] = VerbOf(u[n + 1].line)
    BY <1>3, <1>4, <1>5, <1>8
  <2>3. N \in Nat /\ n < N /\ M = m + 1
    BY <1>1, <1>2
  <2>4. Grown(u, N, s, n)
    BY <1>7, <1>9, <2>2, <2>3 DEF Grown
  <2> HIDE DEF N, M
  <2>5. Matched(more, M, u, N)
    <3>1. n \in Nat /\ m \in Nat /\ \A k \in 1 .. m : more[k] = due[k]
      BY <1>1, <1>5, Zenon
    <3> QED BY <2>1, <2>2, <2>3, <2>4, <3>1, PlacedAppend, ZenonT(30)
  <2> QED BY <2>5 DEF N, M
<1>12. Pairs(more, u)
  BY <1>5, <1>6, <1>7, <1>11, PairsPlaced
<1> QED BY <1>7, <1>10, <1>12 DEF Stream, u, more, v

\* The first command of a stream, and its reply
LEMMA StreamFirst ==
    ASSUME NEW D, NEW due \in Seq(D), NEW s \in Seq(Sendable), s # <<>>,
           Stream(s, due, 0)
    PROVE  /\ s[1] \in Sendable /\ s[1].as = "command"
           /\ due # <<>> /\ Head(due) = VerbOf(s[1].line)
           /\ (Len(due) = 1 /\ Chunk(s[1].line) <= 0) => Len(s) = 1
<1> DEFINE n == Len(s)
           m == Len(due)
<1>1. n \in Nat /\ m \in Nat /\ n = Len(s) /\ m = Len(due) /\ n # 0
  OBVIOUS
<1>2. PICK at : Placed(at, due, m, s, n)
  BY PairsPlaced DEF Stream, Matched
<1>3. Chunked(s, n, 0)
  BY DEF Stream
<1>4. s[1] \in Sendable
  BY ElementOfSeq
<1>5. m # 0 => due # <<>> /\ Head(due) = due[1]
  BY HeadTailProperties
<1> HIDE DEF n, m
<1>6. s[1].as = "command"
  BY <1>1, <1>3, ChunkedFirst
<1>7. m # 0 /\ due[1] = VerbOf(s[1].line)
  <2>1. n \in Nat /\ m \in Nat /\ n # 0
    BY <1>1, Zenon
  <2> QED BY <1>2, <1>6, <2>1, PlacedFirst, ZenonT(30)
<1>8. Chunk(s[1].line) \in Int
  <2>1. Chunk(s[1].line) \in Nat \cup {-1}
    BY <1>4, <1>6, ChunkType
  <2> QED BY <2>1
<1>9. m = 1 /\ Chunk(s[1].line) <= 0 => n = 1
  BY <1>1, <1>2, <1>3, <1>8, ChunkedAlone
<1> QED BY <1>1, <1>4, <1>5, <1>6, <1>7, <1>9

\* The session takes it, and its octets are left.
LEMMA StreamTake ==
    ASSUME NEW D, NEW due \in Seq(D), NEW s \in Seq(Sendable), s # <<>>,
           Stream(s, due, 0), NEW g \in Seq(Sendable), Cut(g, s, 1)
    PROVE  Stream(g, Tail(due),
                  IF Chunk(s[1].line) > 0 THEN Chunk(s[1].line) ELSE 0)
<1> DEFINE n == Len(s)
           m == Len(due)
           h == Chunk(s[1].line)
           c == IF h > 0 THEN h ELSE 0
           rest == Tail(due)
<1>1. n \in Nat /\ m \in Nat /\ n = Len(s) /\ m = Len(due) /\ n # 0
  OBVIOUS
<1>2. PICK at : Placed(at, due, m, s, n)
  BY PairsPlaced DEF Stream, Matched
<1>3. Chunked(s, n, 0)
  BY DEF Stream
<1>4. s[1] \in Sendable /\ s[1].as = "command" /\ due # <<>>
  BY StreamFirst
<1>5. h \in Int /\ c \in Nat
  <2>1. h \in Nat \cup {-1}
    BY <1>4, ChunkType
  <2> HIDE DEF h
  <2> QED BY <2>1
<1>6. /\ rest \in Seq(D) /\ Len(rest) = m - 1
      /\ \A k \in 1 .. m - 1 : rest[k] = due[k + 1]
  BY <1>4, HeadTailProperties
<1>7. Len(g) = n - 1 /\ \A i \in 1 .. n - 1 : g[i] = s[i + 1]
  <2>1. n = Len(g) + 1 /\ Len(g) \in Nat
    BY DEF Cut
  <2>2. Len(g) = n - 1
    BY <2>1
  <2> QED BY <2>2 DEF Cut
<1>8. \A i \in 1 .. n : s[i].as = "command" => Chunk(s[i].line) \in Int
  BY StreamChunks
<1>9. c = IF Chunk(s[1].line) > 0 THEN Chunk(s[1].line) ELSE 0
  OBVIOUS
<1> HIDE DEF n, m, rest, c
<1>10. 1 <= n /\ m # 0 /\ at[1] = 1
  BY <1>1, <1>2, <1>4, PlacedFirst
<1>11. Chunked(g, n - 1, c)
  BY <1>1, <1>3, <1>5, <1>7, <1>8, <1>9, <1>10, ChunkedCut
<1>12. Matched(rest, m - 1, g, n - 1)
  <2> DEFINE N == n - 1
             M == m - 1
             q == 1
             p == 1
  <2>1. /\ N = n - p /\ M = m - q /\ q \in {0, 1} /\ p \in Nat /\ q <= m /\ p <= n
        /\ Foremost(s, at, p, q)
    BY <1>1, <1>10 DEF Foremost
  <2>2. Shifted(g, N, s, p)
    BY <1>7 DEF Shifted
  <2>3. Shifted(rest, M, due, q)
    BY <1>6 DEF Shifted
  <2> HIDE DEF N, M, p, q
  <2>4. Matched(rest, M, g, N)
    <3>1. n \in Nat /\ m \in Nat
      BY <1>1, Zenon
    <3> QED BY <1>2, <2>1, <2>2, <2>3, <3>1, PlacedCut, ZenonT(30)
  <2> QED BY <2>4 DEF N, M
<1>13. Pairs(rest, g)
  BY <1>6, <1>7, <1>12, PairsPlaced
<1> QED BY <1>7, <1>9, <1>11, <1>13 DEF Stream, rest

\* The session takes a chunk.
LEMMA StreamChunk ==
    ASSUME NEW D, NEW due \in Seq(D), NEW s \in Seq(Sendable), NEW c \in Nat,
           Stream(s, due, c), NEW g \in Seq(Sendable), Cut(g, s, c)
    PROVE  Stream(g, due, 0)
<1> DEFINE n == Len(s)
           m == Len(due)
<1>1. n \in Nat /\ m \in Nat /\ n = Len(s) /\ m = Len(due) /\ m - 0 = m
  OBVIOUS
<1>2. PICK at : Placed(at, due, m, s, n)
  BY PairsPlaced DEF Stream, Matched
<1>3. Chunked(s, n, c)
  BY DEF Stream
<1>4. c <= n /\ \A i \in 1 .. c : s[i].as = "octet"
  BY <1>3 DEF Chunked
<1>5. Len(g) = n - c /\ \A i \in 1 .. n - c : g[i] = s[i + c]
  <2>1. n = Len(g) + c /\ Len(g) \in Nat
    BY DEF Cut
  <2>2. Len(g) = n - c
    BY <2>1
  <2> QED BY <2>2 DEF Cut
<1>6. \A i \in 1 .. n : s[i].as = "command" => Chunk(s[i].line) \in Int
  BY StreamChunks
<1> HIDE DEF n, m
<1>7. Chunked(g, n - c, 0)
  BY <1>1, <1>3, <1>4, <1>5, <1>6, ChunkedCut
<1>8. Matched(due, m, g, n - c)
  <2> DEFINE N == n - c
             q == 0
             M == m - q
             rest == due
  <2>1. Shifted(rest, M, due, q)
    BY <1>1 DEF Shifted
  <2>2. q <= m /\ q \in {0, 1} /\ M = m - q /\ N = n - c /\ M = m
    BY <1>1
  <2>3. Shifted(g, N, s, c)
    BY <1>5 DEF Shifted
  <2>4. Foremost(s, at, c, q)
    BY <1>4 DEF Foremost
  <2> HIDE DEF N, q, M, rest
  <2>5. n \in Nat /\ m \in Nat /\ c <= n
    BY <1>1, <1>4, Zenon
  <2>6. Matched(rest, M, g, N)
    BY <1>2, <2>1, <2>2, <2>3, <2>4, <2>5, PlacedCut, ZenonT(30)
  <2> QED BY <2>2, <2>6 DEF N, rest
<1>9. Pairs(due, g)
  BY <1>1, <1>5, <1>8, PairsPlaced
<1> QED BY <1>5, <1>7, <1>9 DEF Stream

-----------------------------------------------------------------------------
\* The inductive invariant: what there is between client and session, by what
\* the session waits for

\* The client waits for the reply to a command unless it may send on behind.
Grouped(due) == \A i \in 1 .. Len(due) - 1 : due[i] \in Ahead

AtWelcome(c, s) == c.due = <<"welcome">> /\ c.mode = "commands" /\ s = <<>>

AtRead(c, s) == c.mode = "commands" /\ Stream(s, c.due, 0)

AtChunk(c, s, chunk) == /\ c.mode = "commands"
                        /\ c.due # <<>> /\ Head(c.due) = "BDAT"
                        /\ Stream(s, Tail(c.due), chunk)

\* Commands sent ahead of the handshake, and the hello behind them
AtHandshake(c, s) ==
    \/ c.mode = "hello" /\ Stream(s, c.due, 0)
    \/ /\ c.mode = "handshake"
       /\ \E r \in Seq(Sendable), x \in Sendable :
             s = Append(r, x) /\ x.as = "hello" /\ Stream(r, c.due, 0)

\* The lines of a message, a dot at most at its end
AtText(c, s) ==
    /\ c.due = <<"DATA">> /\ c.mode \in {"text", "commands"}
    /\ \A i \in 1 .. Len(s) :
          /\ s[i].as \in {"text", "dot"}
          /\ s[i].as = "dot" => i = Len(s) /\ c.mode = "commands"

AtAuth(c, s) ==
    /\ c.due = <<"AUTH">> /\ c.mode \in {"response", "commands"}
    /\ s # <<>> => Len(s) = 1 /\ s[1].as = "response" /\ c.mode = "commands"

AlignedAt(at, c, chunk, s) ==
    /\ Grouped(c.due) /\ c.heard = "answer"
    /\ at = "welcome" => AtWelcome(c, s)
    /\ at = "read" => AtRead(c, s)
    /\ at = "bdat" => AtChunk(c, s, chunk)
    /\ at = "handshake" => AtHandshake(c, s)
    /\ at = "data" => AtText(c, s)
    /\ at \in AuthPC => AtAuth(c, s)

Aligned == slip = "none" /\ pc \notin Terminal =>
              AlignedAt(pc, cl, local.chunk, InFlight)

\* Nothing is behind a TLS hello.
HelloLast(s) == \A i \in 1 .. Len(s) : s[i].as = "hello" => i = Len(s)

\* All of s is encrypted.
Covered(s) == \A i \in 1 .. Len(s) : s[i].enc

\* A TLS hello is the last that is sent, and after it nothing in the clear is.
Encrypted == /\ HelloLast(InFlight)
             /\ pc = "handshake" => ~tls
             /\ tls => cl.tls /\ Covered(InFlight)

DialogueInv == IInv /\ WireType /\ Aligned /\ Encrypted

-----------------------------------------------------------------------------
\* The session takes a command

\* The line of a command is one that ReadLine gives back.
LEMMA CommandRead ==
    ASSUME NEW x \in Sendable, x.as = "command"
    PROVE  /\ x.line # <<>>
           /\ ReadLine(x.line) \in Seq(Word \cup {SP}) /\ WellSpaced(ReadLine(x.line))
           /\ VerbOf(x.line) = VerbOf(ReadLine(x.line))
           /\ VerbOf(x.line) # "BDAT" => Chunk(x.line) = 0
<1>1. PICK t \in Seq(Word \cup {SP}) : x.line = WithEnd(t) /\ WellSpaced(t)
  BY DEF Sendable, IsLine
<1>2. x.line # <<>> /\ ReadLine(x.line) = t
  BY <1>1, ReadLineIs
<1>3. VerbOf(x.line) = VerbOf(t) /\ Chunk(x.line) = ChunkOf(t)
  BY <1>1, CommandIs
<1> QED BY <1>1, <1>2, <1>3 DEF ChunkOf

\* The first of the replies that are due
LEMMA GroupedTail ==
    ASSUME NEW D, NEW due \in Seq(D), due # <<>>, Grouped(due)
    PROVE  /\ Grouped(Tail(due))
           /\ Head(due) \notin Ahead => Len(due) = 1 /\ due = <<Head(due)>>
<1> DEFINE m == Len(due)
           rest == Tail(due)
           h == Head(due)
<1>1. m \in Nat /\ m # 0 /\ m = Len(due) /\ h = due[1]
  OBVIOUS
<1>2. Len(rest) = m - 1 /\ \A i \in 1 .. m - 1 : rest[i] = due[i + 1]
  BY HeadTailProperties
<1>3. \A i \in 1 .. m - 1 : due[i] \in Ahead
  BY DEF Grouped
<1> HIDE DEF m, rest
<1>4. Grouped(rest)
  <2>1. \A i \in 1 .. (m - 1) - 1 : i \in 1 .. m - 1 /\ i + 1 \in 1 .. m - 1
    BY <1>1
  <2> QED BY <1>2, <1>3, <2>1 DEF Grouped
<1>5. ASSUME h \notin Ahead PROVE m = 1 /\ due = <<h>>
  <2>1. m = 1
    <3> SUFFICES ASSUME m # 1 PROVE FALSE
      OBVIOUS
    <3>1. 1 \in 1 .. m - 1
      BY <1>1
    <3> QED BY <1>1, <1>3, <1>5, <3>1
  <2>2. Len(due) = 1
    BY <1>1, <2>1
  <2> QED BY <2>1, <2>2
<1> QED BY <1>1, <1>4, <1>5 DEF rest

\* What the client makes of a prompt, and of the go-ahead for TLS
LEMMA HearsPrompt ==
    ASSUME NEW c \in Clients, c.mode # "handshake", c.due # <<>>
    PROVE  /\ Head(c.due) = "DATA" => Hearing(c, <<"SuccessDataCmd">>) =
                                        [c EXCEPT !.mode = "text", !.lines = 0]
           /\ Head(c.due) = "AUTH" => Hearing(c, <<"334">>) =
                                        [c EXCEPT !.mode = "response"]
           /\ Head(c.due) = "STARTTLS" =>
                 Hearing(c, <<"SuccessStartTLSCmd">>) =
                    [c EXCEPT !.due = Tail(@), !.heard = "answer", !.mode = "hello"]
<1>1. {"SuccessDataCmd", "334", "SuccessStartTLSCmd"} \subseteq Reply
  BY DEF Reply
<1>2. \A r \in {"SuccessDataCmd", "334", "SuccessStartTLSCmd"} :
         Hearing(c, <<r>>) = Hears(c, r)
  BY <1>1, HearingOne
<1> QED BY <1>2, Prompts DEF Hears

\* An empty stream, where nothing is to be read yet
LEMMA AtEmpty ==
    ASSUME NEW c, NEW s, s = <<>>
    PROVE  /\ (c.due = <<"DATA">> /\ c.mode \in {"text", "commands"}) => AtText(c, s)
           /\ (c.due = <<"AUTH">> /\ c.mode \in {"response", "commands"}) => AtAuth(c, s)
           /\ (c.due = <<>> /\ c.mode = "commands") => AtRead(c, s)
<1>1. Len(s) = 0
  OBVIOUS
<1> QED BY <1>1, StreamEmpty DEF AtText, AtAuth, AtRead

\* A command is taken, and client and session go on in step.
LEMMA CommandTaken ==
    ASSUME NEW s \in Seq(Sendable), s # <<>>, NEW g \in Seq(Sendable), Cut(g, s, 1),
           cl \in Clients, Grouped(cl.due), cl.heard = "answer", AtRead(cl, s),
           replies' \in Seq(Reply), Heard, local'.chunk \in Nat,
           Outcome(VerbOf(s[1].line), Chunk(s[1].line)),
           replies' # <<>> /\ replies'[1] \in Notices => Len(cl.due) <= 1,
           pc' \notin Terminal
    PROVE  AlignedAt(pc', cl', local'.chunk, g)
<1> DEFINE due == cl.due
           D == Word \cup {"welcome"}
           h == Chunk(s[1].line)
           verb == VerbOf(s[1].line)
           c == IF h > 0 THEN h ELSE 0
<1>1. due \in Seq(D) /\ cl.mode = "commands" /\ Stream(s, due, 0)
  BY DEF Clients, AtRead
<1> HIDE DEF D
<1>2. /\ s[1] \in Sendable /\ s[1].as = "command"
      /\ due # <<>> /\ Head(due) = verb
      /\ Len(due) = 1 /\ h <= 0 => Len(s) = 1
  BY <1>1, StreamFirst
<1>3. Stream(g, Tail(due), c)
  BY <1>1, StreamTake
<1>4. /\ Grouped(Tail(due))
      /\ verb \notin Ahead => Len(due) = 1 /\ due = <<verb>>
  BY <1>1, <1>2, GroupedTail
<1>5. h \in Nat \cup {-1} /\ (verb # "BDAT" => h = 0)
  BY <1>2, ChunkType, CommandRead
<1>6. cl' = Hearing(cl, replies')
  BY DEF Heard
<1>7. "DATA" \notin Ahead /\ "AUTH" \notin Ahead
  BY DialogueAssumption
<1>8. ASSUME verb \notin Ahead, verb # "BDAT" PROVE g = <<>> /\ due = <<verb>>
  <2>1. Len(due) = 1 /\ due = <<verb>> /\ h = 0
    BY <1>4, <1>5, <1>8
  <2>2. Len(s) = 1
    BY <1>2, <2>1
  <2>3. Cut(g, s, Len(s))
    BY <2>2
  <2>4. g = <<>>
    BY <2>3, CutAll
  <2> QED BY <2>1, <2>4
<1> HIDE DEF h, verb
<1>9. c \in Nat
  BY <1>5
<1>10. pc' \in {"read", "data", "handshake", "bdat"} \cup AuthPC
  BY DEF Outcome
<1>11. {"read", "data", "handshake", "bdat", "welcome"} \cap AuthPC = {}
  BY DEF AuthPC
<1>12. Outcome(verb, h)
  BY DEF verb, h
<1>13. CASE pc' = "read"
  <2>1. Answering(replies') /\ Final(replies'[1], verb) /\ ~(h > 0)
    BY <1>11, <1>12, <1>13 DEF Outcome, Terminal
  <2>2. replies'[1] \in Notices => Len(due) = 1
    <3> DEFINE m == Len(due)
    <3>1. m \in Nat /\ m # 0
      BY <1>1, <1>2
    <3>2. replies'[1] \in Notices => m <= 1
      BY <2>1 DEF Answering
    <3> HIDE DEF m
    <3>3. m <= 1 => m = 1
      BY <3>1
    <3> QED BY <3>2, <3>3 DEF m
  <2>3. cl'.due = Tail(due) /\ cl'.mode = "commands" /\ cl'.heard = "answer"
    BY <1>1, <1>2, <1>6, <2>1, <2>2, HearingFinal
  <2>4. c = 0
    BY <2>1
  <2>5. AtRead(cl', g)
    BY <1>3, <2>3, <2>4 DEF AtRead
  <2> QED BY <1>4, <1>11, <1>13, <2>3, <2>5 DEF AlignedAt
<1>14. CASE pc' = "data"
  <2>1. verb = "DATA" /\ replies' = <<"SuccessDataCmd">>
    BY <1>11, <1>12, <1>14 DEF Outcome, Terminal
  <2>2. cl' = [cl EXCEPT !.mode = "text", !.lines = 0]
    BY <1>1, <1>2, <1>6, <2>1, HearsPrompt
  <2>3. /\ cl'.due = due /\ cl'.mode = "text" /\ cl'.heard = "answer"
        /\ due = <<"DATA">> /\ g = <<>>
    BY <1>7, <1>8, <2>1, <2>2 DEF Clients
  <2>4. AtText(cl', g)
    BY <2>3, AtEmpty
  <2> QED BY <1>11, <1>14, <2>3, <2>4 DEF AlignedAt
<1>15. CASE pc' \in AuthPC
  <2>1. verb = "AUTH" /\ replies' \in {<<>>, <<"334">>}
    BY <1>11, <1>12, <1>15 DEF Outcome, Terminal, AuthPC
  <2>2. cl' = cl \/ cl' = [cl EXCEPT !.mode = "response"]
    BY <1>1, <1>2, <1>6, <2>1, HearsPrompt, HearingOne
  <2>3. /\ cl'.due = due /\ cl'.mode \in {"response", "commands"}
        /\ cl'.heard = "answer" /\ due = <<"AUTH">> /\ g = <<>>
    BY <1>1, <1>7, <1>8, <2>1, <2>2 DEF Clients
  <2>4. AtAuth(cl', g)
    BY <2>3, AtEmpty
  <2> QED BY <1>11, <1>15, <2>3, <2>4 DEF AlignedAt
<1>16. CASE pc' = "handshake"
  <2>1. verb = "STARTTLS" /\ replies' = <<"SuccessStartTLSCmd">>
    BY <1>11, <1>12, <1>16 DEF Outcome, Terminal
  <2>2. cl' = [cl EXCEPT !.due = Tail(@), !.heard = "answer", !.mode = "hello"]
    BY <1>1, <1>2, <1>6, <2>1, HearsPrompt
  <2>3. cl'.due = Tail(due) /\ cl'.mode = "hello" /\ cl'.heard = "answer" /\ c = 0
    BY <1>5, <2>1, <2>2 DEF Clients
  <2>4. AtHandshake(cl', g)
    BY <1>3, <2>3 DEF AtHandshake
  <2> QED BY <1>4, <1>11, <1>16, <2>3, <2>4 DEF AlignedAt
<1>17. CASE pc' = "bdat"
  <2>1. verb = "BDAT" /\ replies' = <<>> /\ local'.chunk = h
    BY <1>11, <1>12, <1>17 DEF Outcome, Terminal
  <2>2. cl' = cl
    BY <1>6, <2>1, HearingOne
  <2>3. c = local'.chunk
    BY <2>1
  <2>4. AtChunk(cl', g, local'.chunk)
    BY <1>1, <1>2, <1>3, <2>1, <2>2, <2>3 DEF AtChunk
  <2> QED BY <1>11, <1>17, <2>2, <2>4 DEF AlignedAt
<1> QED BY <1>10, <1>13, <1>14, <1>15, <1>16, <1>17

\* What is not a slip
LEMMA NoSlip ==
    ASSUME NEW reason, Slips(reason), slip' = "none"
    PROVE  /\ slip = "none" /\ reason = "none" /\ ~broken'
           /\ ~(/\ replies' # <<>> /\ Head(replies') \in Notices
                /\ Len(cl.due) > 1)
BY DEF Slips

\* All but octets and the hello are lines.
LEMMA HasLine ==
    ASSUME NEW x \in Sendable, x.as \notin {"octet", "hello"}
    PROVE  x.line # <<>>
<1>1. PICK t \in Seq(Word \cup {SP}) : x.line = WithEnd(t)
  BY DEF Sendable, IsLine
<1> QED BY <1>1, ReadLineIs

\* The line that is taken is the first item, if that is a line.
LEMMA FrontLine ==
    ASSUME buf \in Seq(Sendable), wire \in Seq(Sendable), LineEnds(buf) # {}
    PROVE  /\ InFlight # <<>> /\ InFlight[1] = buf[1] /\ Len(buf) >= 1
           /\ buf[1].line # <<>> => /\ Min(LineEnds(buf)) = 1
                                    /\ FirstLine = InFlight[1].line
<1> DEFINE S == LineEnds(buf)
           m == Len(buf)
           k == Len(wire)
<1>1. S \subseteq 1 .. m /\ m \in Nat /\ k \in Nat
  BY DEF LineEnds
<1>2. 1 \in 1 .. m /\ m >= 1
  BY <1>1
<1>3. /\ InFlight \in Seq(Sendable) /\ Len(InFlight) = m + k
      /\ \A i \in 1 .. m + k : InFlight[i] = IF i <= m THEN buf[i] ELSE wire[i - m]
  BY ConcatProperties DEF InFlight
<1> HIDE DEF m, k
<1>4. 1 \in 1 .. m + k /\ 1 <= m /\ m + k # 0
  BY <1>1, <1>2
<1>5. InFlight[1] = buf[1]
  BY <1>3, <1>4
<1>6. InFlight # <<>>
  BY <1>3, <1>4
<1>7. ASSUME buf[1].line # <<>>
      PROVE  Min(S) = 1 /\ FirstLine = InFlight[1].line
  <2>1. 1 \in S
    BY <1>2, <1>7 DEF LineEnds, m
  <2>2. S \subseteq Nat /\ S # {}
    BY <1>1
  <2>3. Min(S) \in S /\ Min(S) <= 1
    BY <2>1, <2>2, MinOf
  <2>4. Min(S) = 1
    BY <1>1, <2>3
  <2> QED BY <1>5, <2>4 DEF FirstLine
<1> QED BY <1>2, <1>5, <1>6, <1>7 DEF m

\* A first item that is a line is the one that TakeLine takes.
LEMMA LineTaken ==
    ASSUME WireType, TakeLine, InFlight[1].line # <<>>
    PROVE  /\ InFlight # <<>> /\ InFlight[1] = buf[1]
           /\ Cut(InFlight', InFlight, 1)
           /\ FirstLine = InFlight[1].line
           /\ Min(LineEnds(buf)) = 1
<1>1. LineEnds(buf) # {} /\ buf \in Seq(Sendable) /\ wire \in Seq(Sendable)
  BY DEF TakeLine, WireType
<1>2. /\ InFlight # <<>> /\ InFlight[1] = buf[1] /\ Len(buf) >= 1
      /\ Min(LineEnds(buf)) = 1 /\ FirstLine = InFlight[1].line
  BY <1>1, FrontLine
<1>3. buf' = SubSeq(buf, Min(LineEnds(buf)) + 1, Len(buf)) /\ UNCHANGED wire
  BY Zenon DEF TakeLine
<1> DEFINE p == 1
<1>4. p \in Nat /\ p <= Len(buf) /\ buf' = SubSeq(buf, p + 1, Len(buf))
  BY <1>2, <1>3
<1> HIDE DEF p
<1>5. Cut(InFlight', InFlight, p)
  BY <1>1, <1>3, <1>4, TakenFlight
<1> QED BY <1>2, <1>5 DEF p

\* What is done with a line, by what the session waits for
LEMMA TakenFor ==
    ASSUME TakeLine
    PROVE  /\ pc \in {"read", "data"} \cup AuthPC
           /\ pc = "read" => Obey(ReadLine(FirstLine))
           /\ pc \in AuthPC => TakeCredentials(ReadLine(FirstLine))
           /\ pc = "data" => TakeText(TrimSpace(FirstLine))
           /\ Heard
<1>1. "read" \notin AuthPC /\ "data" \notin AuthPC
  BY DEF AuthPC
<1>2. pc \in {"read", "data"} \cup AuthPC
  BY DEF TakeLine, AwaitsLine
<1> QED BY <1>1, <1>2, Zenon DEF TakeLine

\* The session takes a command.
LEMMA ReadAligned ==
    ASSUME WireType, WireType', TypeOK', pc = "read", TakeLine, slip' = "none",
           pc' \notin Terminal, AlignedAt(pc, cl, local.chunk, InFlight)
    PROVE  AlignedAt(pc', cl', local'.chunk, InFlight')
<1> DEFINE s == InFlight
           x == s[1]
           u == ReadLine(x.line)
           D == Word \cup {"welcome"}
<1>1. AtRead(cl, s) /\ Grouped(cl.due) /\ cl.heard = "answer"
  BY DEF AlignedAt
<1>2. /\ cl \in Clients /\ buf \in Seq(Sendable) /\ wire \in Seq(Sendable)
      /\ s \in Seq(Sendable) /\ cl.due \in Seq(D)
  BY InFlightType DEF WireType, Clients
<1>3. InFlight' \in Seq(Sendable)
  <2>1. buf' \in Seq(Sendable) /\ wire' \in Seq(Sendable)
    BY DEF WireType
  <2> QED BY <2>1, ConcatProperties DEF InFlight
<1>4. s # <<>>
  <2>1. LineEnds(buf) # {}
    BY DEF TakeLine
  <2> QED BY <1>2, <2>1, FrontLine
<1>5. x \in Sendable /\ x.as = "command"
  BY <1>1, <1>2, <1>4, StreamFirst DEF AtRead
<1>6. /\ x.line # <<>> /\ u \in Seq(Word \cup {SP}) /\ WellSpaced(u)
      /\ VerbOf(x.line) = VerbOf(u)
  BY <1>5, CommandRead
<1>7. /\ Cut(InFlight', s, 1) /\ FirstLine = x.line /\ Min(LineEnds(buf)) = 1
  BY <1>6, LineTaken
<1>8. Obey(ReadLine(FirstLine)) /\ Heard
  BY TakenFor
<1>9. PICK reason :
         /\ Slips(reason)
         /\ reason = IF ChunkUnread(u) THEN "chunk" ELSE "none"
  <2> DEFINE n == Min(LineEnds(buf))
             reason == IF pc = "data" /\ TrimSpace(FirstLine) = <<".">>
                          /\ buf[n].as # "dot" THEN "text"
                       ELSE IF pc = "read" /\ ChunkUnread(ReadLine(FirstLine))
                       THEN "chunk"
                       ELSE "none"
  <2>1. Slips(reason)
    BY Zenon DEF TakeLine
  <2>2. reason = IF ChunkUnread(u) THEN "chunk" ELSE "none"
    BY <1>7
  <2> HIDE DEF reason
  <2> QED BY <2>1, <2>2
<1>10. /\ ~broken' /\ ~ChunkUnread(u)
       /\ ~(replies' # <<>> /\ Head(replies') \in Notices /\ Len(cl.due) > 1)
  BY <1>9, NoSlip
<1>11. Outcome(VerbOf(x.line), Chunk(x.line))
  <2>1. Obey(u)
    BY <1>7, <1>8
  <2>2. Outcome(VerbOf(u), ChunkOf(u))
    BY <1>6, <1>10, <2>1, ObeyOutcome
  <2> QED BY <1>6, <2>2 DEF Chunk
<1>12. replies' \in Seq(Reply) /\ local'.chunk \in Nat
  BY DEF TypeOK, Local
<1>13. replies' # <<>> /\ replies'[1] \in Notices => Len(cl.due) <= 1
  <2> DEFINE m == Len(cl.due)
  <2>1. m \in Nat /\ (replies' # <<>> /\ replies'[1] \in Notices => ~(m > 1))
    BY <1>2, <1>10, <1>12
  <2> HIDE DEF m
  <2>2. ~(m > 1) => m <= 1
    BY <2>1
  <2> QED BY <2>1, <2>2 DEF m
<1> HIDE DEF s
<1> QED BY <1>1, <1>2, <1>3, <1>4, <1>7, <1>8, <1>10, <1>11, <1>12, <1>13,
           CommandTaken DEF s

\* The first item is a line, and no others are in front of it.
LEMMA LineFirst ==
    ASSUME WireType, WireType', TakeLine,
           InFlight # <<>> => InFlight[1].as \notin {"octet", "hello"}
    PROVE  /\ InFlight \in Seq(Sendable) /\ InFlight # <<>> /\ InFlight[1] = buf[1]
           /\ InFlight' \in Seq(Sendable)
           /\ Cut(InFlight', InFlight, 1)
           /\ Min(LineEnds(buf)) = 1
           /\ Len(InFlight) = 1 => InFlight' = <<>>
<1>1. /\ LineEnds(buf) # {} /\ buf \in Seq(Sendable) /\ wire \in Seq(Sendable)
      /\ buf' \in Seq(Sendable) /\ wire' \in Seq(Sendable)
  BY DEF TakeLine, WireType
<1>2. InFlight # <<>>
  BY <1>1, FrontLine
<1>3. InFlight \in Seq(Sendable)
  BY <1>1, InFlightType
<1>4. InFlight[1] \in Sendable
  <2> DEFINE s == InFlight
  <2>1. s \in Seq(Sendable) /\ s # <<>>
    BY <1>2, <1>3
  <2> HIDE DEF s
  <2>2. 1 \in 1 .. Len(s)
    BY <2>1
  <2>3. s[1] \in Sendable
    BY <2>1, <2>2, ElementOfSeq
  <2> QED BY <2>3 DEF s
<1>5. InFlight[1].line # <<>>
  BY <1>2, <1>4, HasLine
<1>6. /\ Cut(InFlight', InFlight, 1) /\ Min(LineEnds(buf)) = 1
      /\ InFlight[1] = buf[1]
  BY <1>5, LineTaken
<1>7. InFlight' \in Seq(Sendable)
  BY <1>1, ConcatProperties DEF InFlight
<1>8. Len(InFlight) = 1 => InFlight' = <<>>
  <2> DEFINE s == InFlight
             g == InFlight'
  <2>1. s \in Seq(Sendable) /\ g \in Seq(Sendable) /\ Cut(g, s, 1)
    BY <1>3, <1>6, <1>7
  <2> HIDE DEF s, g
  <2>2. Len(s) = 1 => Cut(g, s, Len(s))
    BY <2>1
  <2>3. Len(s) = 1 => g = <<>>
    BY <2>1, <2>2, CutAll
  <2> QED BY <2>3 DEF s, g
<1> QED BY <1>2, <1>3, <1>6, <1>7, <1>8

\* A closing reply to the one command to which a reply is due
LEMMA LastHeard ==
    ASSUME cl \in Clients, cl.mode = "commands", NEW verb \in {"DATA", "AUTH"},
           cl.due = <<verb>>, Heard, NEW r \in Closing, replies' = <<r>>
    PROVE  /\ cl'.due = <<>> /\ cl'.mode = "commands" /\ cl'.heard = "answer"
           /\ Grouped(cl'.due)
<1>1. Final(r, verb) /\ r \notin Notices
  BY FinalReplies
<1>2. r \in Reply
  BY DEF Closing, Reply
<1>3. cl.due # <<>> /\ Head(cl.due) = verb /\ Tail(cl.due) = <<>>
  OBVIOUS
<1>4. cl' = Hears(cl, r)
  BY <1>2, HearingOne DEF Heard
<1>5. cl'.due = <<>> /\ cl'.mode = "commands" /\ cl'.heard = "answer"
  BY <1>1, <1>3, <1>4, HearsFinal
<1> QED BY <1>5 DEF Grouped

\* The session takes a line of AUTH.
LEMMA AuthAligned ==
    ASSUME WireType, WireType', pc \in AuthPC, TakeLine, slip' = "none",
           pc' \notin Terminal, AlignedAt(pc, cl, local.chunk, InFlight)
    PROVE  AlignedAt(pc', cl', local'.chunk, InFlight')
<1>1. /\ AtAuth(cl, InFlight) /\ cl \in Clients /\ Grouped(cl.due)
      /\ cl.heard = "answer"
  BY DEF AlignedAt, WireType
<1>2. InFlight # <<>> => /\ Len(InFlight) = 1 /\ InFlight[1].as = "response"
                         /\ cl.mode = "commands"
  BY <1>1 DEF AtAuth
<1>3. InFlight # <<>> /\ InFlight' = <<>>
  BY <1>2, LineFirst
<1>4. ~broken'
  <2>1. \E reason : Slips(reason)
    BY Zenon DEF TakeLine
  <2> QED BY <2>1, NoSlip
<1>5. TakeCredentials(ReadLine(FirstLine)) /\ Heard
  BY TakenFor
<1>6. AuthOutcome
  BY <1>4, <1>5, CredentialsOutcome
<1>7. cl.due = <<"AUTH">> /\ cl.mode = "commands"
  BY <1>1, <1>2, <1>3 DEF AtAuth
<1>8. {"read", "data", "handshake", "bdat", "welcome"} \cap AuthPC = {}
  BY DEF AuthPC
<1>9. CASE \E r \in Closing : replies' = <<r>> /\ Handled
  <2>1. /\ cl'.due = <<>> /\ cl'.mode = "commands" /\ cl'.heard = "answer"
        /\ Grouped(cl'.due)
    BY <1>1, <1>5, <1>7, <1>9, LastHeard
  <2>2. AtRead(cl', InFlight')
    BY <1>3, <2>1, AtEmpty
  <2>3. pc' = "read"
    BY <1>9, HandledPC DEF Terminal
  <2> QED BY <1>8, <2>1, <2>2, <2>3 DEF AlignedAt
<1>10. CASE pc' \in AuthPC /\ replies' \in {<<>>, <<"334">>}
  <2>1. cl.due # <<>> /\ Head(cl.due) = "AUTH" /\ cl.mode # "handshake"
    BY <1>7
  <2>2. cl' = cl \/ cl' = [cl EXCEPT !.mode = "response"]
    BY <1>1, <1>5, <1>10, <2>1, HearsPrompt, HearingOne DEF Heard
  <2>3. /\ cl'.due = cl.due /\ cl'.mode \in {"response", "commands"}
        /\ cl'.heard = "answer"
    BY <1>1, <1>7, <2>2 DEF Clients
  <2>4. AtAuth(cl', InFlight')
    BY <1>3, <1>7, <2>3, AtEmpty
  <2> QED BY <1>1, <1>8, <1>10, <2>3, <2>4 DEF AlignedAt
<1> QED BY <1>6, <1>9, <1>10 DEF AuthOutcome

\* The session takes a line of the message.
LEMMA TextAligned ==
    ASSUME WireType, WireType', pc = "data", TakeLine, slip' = "none",
           pc' \notin Terminal, AlignedAt(pc, cl, local.chunk, InFlight)
    PROVE  AlignedAt(pc', cl', local'.chunk, InFlight')
<1> DEFINE s == InFlight
           g == InFlight'
           n == Len(s)
<1>1. AtText(cl, s) /\ cl \in Clients /\ Grouped(cl.due) /\ cl.heard = "answer"
  BY DEF AlignedAt, WireType
<1>2. s # <<>> => s[1].as \in {"text", "dot"}
  <2>1. s \in Seq(Sendable)
    BY InFlightType DEF WireType
  <2>2. s # <<>> => 1 \in 1 .. Len(s)
    BY <2>1
  <2> QED BY <1>1, <2>2 DEF AtText
<1>3. /\ s \in Seq(Sendable) /\ s # <<>> /\ s[1] = buf[1]
      /\ g \in Seq(Sendable) /\ Cut(g, s, 1) /\ Min(LineEnds(buf)) = 1
      /\ Len(s) = 1 => g = <<>>
  BY <1>2, LineFirst
<1>4. TakeText(TrimSpace(FirstLine)) /\ Heard
  BY TakenFor
<1>5. ~broken' /\ (TrimSpace(FirstLine) = <<".">> => s[1].as = "dot")
  <2> DEFINE k == Min(LineEnds(buf))
             reason == IF pc = "data" /\ TrimSpace(FirstLine) = <<".">>
                          /\ buf[k].as # "dot" THEN "text"
                       ELSE IF pc = "read" /\ ChunkUnread(ReadLine(FirstLine))
                       THEN "chunk"
                       ELSE "none"
  <2>1. Slips(reason)
    BY Zenon DEF TakeLine
  <2>2. reason = "none" /\ ~broken'
    BY <2>1, NoSlip
  <2>3. TrimSpace(FirstLine) = <<".">> => buf[1].as = "dot"
    BY <1>3, <2>2
  <2> QED BY <1>3, <2>2, <2>3
<1>6. CASE DataLine(Len(TrimSpace(FirstLine)))
  <2>1. pc' = "data" /\ replies' = <<>>
    BY <1>6 DEF DataLine, Silent
  <2>2. cl' = cl
    BY <1>4, <2>1, HearingOne DEF Heard
  <2>3. AtText(cl, g)
    <3>1. n = Len(g) + 1 /\ Len(g) \in Nat /\ \A i \in 1 .. Len(g) : g[i] = s[i + 1]
      BY <1>3 DEF Cut
    <3>2. /\ cl.due = <<"DATA">> /\ cl.mode \in {"text", "commands"}
          /\ \A i \in 1 .. n : /\ s[i].as \in {"text", "dot"}
                               /\ s[i].as = "dot" => i = n /\ cl.mode = "commands"
      BY <1>1 DEF AtText
    <3> DEFINE m == Len(g)
    <3> HIDE DEF n, s, g, m
    <3>3. n = m + 1 /\ m \in Nat /\ \A i \in 1 .. m : g[i] = s[i + 1]
      BY <3>1 DEF m
    <3>4. \A i \in 1 .. m : i + 1 \in 1 .. n /\ (i + 1 = n => i = m)
      BY <3>3
    <3>5. \A i \in 1 .. m : /\ g[i].as \in {"text", "dot"}
                            /\ g[i].as = "dot" => i = m /\ cl.mode = "commands"
      BY <3>2, <3>3, <3>4
    <3> QED BY <3>2, <3>5 DEF AtText, m
  <2>4. "data" \notin AuthPC
    BY DEF AuthPC
  <2> QED BY <1>1, <2>1, <2>2, <2>3, <2>4 DEF AlignedAt
<1>7. CASE /\ TrimSpace(FirstLine) = <<".">>
           /\ \E queued \in BOOLEAN : DataDone(TRUE, queued)
  <2>1. {"SuccessMessageQueued", "451"} \subseteq Closing
    BY DEF Closing
  <2>2. \/ pc' = "panic"
        \/ \E r \in Closing : OutThen(<<r>>, "Init") /\ Handled
    BY <1>7, <2>1 DEF DataDone, Panics, PanicsAfter
  <2>3. PICK r \in Closing : OutThen(<<r>>, "Init") /\ Handled
    BY <2>2 DEF Terminal
  <2>4. pc' = "read" /\ replies' = <<r>>
    BY <1>5, <2>3, HandledPC, AllSent DEF Terminal
  <2>5. n = 1 /\ cl.mode = "commands" /\ cl.due = <<"DATA">>
    <3>1. 1 \in 1 .. n
      BY <1>3
    <3> QED BY <1>1, <1>5, <1>7, <3>1 DEF AtText
  <2>6. /\ cl'.due = <<>> /\ cl'.mode = "commands" /\ cl'.heard = "answer"
        /\ Grouped(cl'.due)
    BY <1>1, <1>4, <2>4, <2>5, LastHeard
  <2>7. AtRead(cl', g)
    BY <1>3, <2>5, <2>6, AtEmpty
  <2>8. "read" \notin AuthPC
    BY DEF AuthPC
  <2> QED BY <2>4, <2>6, <2>7, <2>8 DEF AlignedAt
<1> QED BY <1>4, <1>6, <1>7 DEF TakeText

-----------------------------------------------------------------------------
\* The other steps of the session

\* A chunk is taken as a whole, and answered.
LEMMA ChunkAnswered ==
    ASSUME cl \in Clients, Grouped(cl.due), NEW s \in Seq(Sendable),
           NEW c \in Nat, AtChunk(cl, s, c), BdatChunk, Heard, ~broken',
           NEW g \in Seq(Sendable), Cut(g, s, c), pc' \notin Terminal
    PROVE  AlignedAt(pc', cl', local'.chunk, g)
<1> DEFINE D == Word \cup {"welcome"}
<1>1. /\ cl.due \in Seq(D) /\ cl.due # <<>> /\ Head(cl.due) = "BDAT"
      /\ cl.mode = "commands" /\ Stream(s, Tail(cl.due), c)
  BY DEF Clients, AtChunk
<1>2. \E r \in {"250 BDAT finished", "250 BDAT ok"} : replies' = <<r>>
  BY AllSent DEF BdatChunk
<1>3. PICK r \in Reply : replies' = <<r>>
  BY <1>2 DEF Reply
<1>4. Final(r, "BDAT") /\ r \notin Notices
  <2>1. r \in {"250 BDAT finished", "250 BDAT ok"}
    BY <1>2, <1>3
  <2>2. r \notin Notices
    BY <2>1 DEF Notices
  <2>3. Final(r, "BDAT")
    BY FinalReplies
  <2> QED BY <2>2, <2>3
<1>5. cl' = Hears(cl, r)
  BY <1>3, HearingOne DEF Heard
<1>6. cl'.due = Tail(cl.due) /\ cl'.mode = "commands" /\ cl'.heard = "answer"
  BY <1>1, <1>4, <1>5, HearsFinal
<1>7. Tail(cl.due) \in Seq(D) /\ Grouped(Tail(cl.due))
  BY <1>1, GroupedTail, HeadTailProperties
<1>8. Stream(g, Tail(cl.due), 0)
  BY <1>1, <1>7, StreamChunk
<1>9. AtRead(cl', g)
  BY <1>6, <1>8 DEF AtRead
<1>10. pc' = "read"
  BY HandledPC DEF BdatChunk, Terminal
<1>11. "read" \notin AuthPC
  BY DEF AuthPC
<1> QED BY <1>6, <1>7, <1>9, <1>10, <1>11 DEF AlignedAt

\* The session takes a chunk from its buffer.
LEMMA ChunkAligned ==
    ASSUME TypeOK, WireType, WireType', TakeChunk, slip' = "none",
           pc' \notin Terminal, AlignedAt(pc, cl, local.chunk, InFlight)
    PROVE  AlignedAt(pc', cl', local'.chunk, InFlight')
<1> DEFINE c == local.chunk
<1>1. /\ buf \in Seq(Sendable) /\ wire \in Seq(Sendable) /\ cl \in Clients
      /\ InFlight \in Seq(Sendable) /\ c \in Nat
  BY InFlightType DEF WireType, TypeOK, Local
<1>2. InFlight' \in Seq(Sendable)
  <2>1. buf' \in Seq(Sendable) /\ wire' \in Seq(Sendable)
    BY DEF WireType
  <2> QED BY <2>1, ConcatProperties DEF InFlight
<1>3. pc = "bdat" /\ Heard /\ Slips("none") /\ UNCHANGED wire
  BY DEF TakeChunk, AwaitsChunk
<1>4. ~broken'
  BY <1>3, NoSlip
<1>5. AtChunk(cl, InFlight, c) /\ Grouped(cl.due)
  BY <1>3 DEF AlignedAt
<1>6. Len(buf) >= c /\ BdatChunk /\ buf' = SubSeq(buf, c + 1, Len(buf))
  <2>1. BdatReadFails => pc' = "closed"
    BY DEF BdatReadFails, OutThen, Handled
  <2> QED BY <2>1 DEF TakeChunk, Terminal
<1>7. c <= Len(buf)
  <2> DEFINE m == Len(buf)
  <2>1. m \in Nat /\ m >= c
    BY <1>1, <1>6
  <2> HIDE DEF m, c
  <2>2. c <= m
    BY <1>1, <2>1
  <2> QED BY <2>2 DEF m
<1>8. Cut(InFlight', InFlight, c)
  BY <1>1, <1>3, <1>6, <1>7, TakenFlight
<1> HIDE DEF c
<1> QED BY <1>1, <1>2, <1>3, <1>4, <1>5, <1>6, <1>8, ChunkAnswered

\* Nothing is cut.
LEMMA CutNone == ASSUME NEW S, NEW s \in Seq(S) PROVE Cut(s, s, 0)
<1> DEFINE n == Len(s)
<1>1. n \in Nat /\ n = Len(s)
  OBVIOUS
<1> HIDE DEF n
<1>2. n = n + 0 /\ \A i \in 1 .. n : s[i] = s[i + 0]
  BY <1>1
<1> QED BY <1>1, <1>2 DEF Cut

\* Steps without input: the greeting, and a chunk of no octets
LEMMA GoOnAligned ==
    ASSUME TypeOK, WireType, GoOn, slip' = "none", pc' \notin Terminal,
           AlignedAt(pc, cl, local.chunk, InFlight)
    PROVE  AlignedAt(pc', cl', local'.chunk, InFlight')
<1>1. /\ cl \in Clients /\ InFlight \in Seq(Sendable)
  BY InFlightType DEF WireType
<1>2. /\ Slips(IF pc = "data" THEN "text" ELSE "none")
      /\ Heard /\ UNCHANGED <<wire, buf>>
  BY Zenon DEF GoOn
<1>3. ~broken' /\ pc # "data"
  <2> DEFINE reason == IF pc = "data" THEN "text" ELSE "none"
  <2>1. reason = "none" /\ ~broken'
    BY <1>2, NoSlip
  <2> QED BY <2>1
<1>4. InFlight' = InFlight
  BY <1>2 DEF InFlight
<1>5. \/ handleWelcome
      \/ local.chunk = 0 /\ BdatChunk
  <2>1. TooManyBadCommands => pc' = "closed"
    BY DEF TooManyBadCommands
  <2>2. DataTooBig => pc = "data"
    BY DEF DataTooBig
  <2>3. \A queued : DataDone(FALSE, queued) => pc = "data"
    BY DEF DataDone
  <2> QED BY <1>3, <2>1, <2>2, <2>3, Zenon DEF GoOn, Terminal
<1>6. CASE handleWelcome
  <2>1. pc = "welcome" /\ pc' = "read" /\ replies' = <<"220">>
    BY <1>3, <1>6, AllSent DEF handleWelcome
  <2>2. AtWelcome(cl, InFlight)
    BY <2>1 DEF AlignedAt
  <2>3. /\ cl.due = <<"welcome">> /\ cl.due # <<>> /\ Head(cl.due) = "welcome"
        /\ Tail(cl.due) = <<>> /\ cl.mode = "commands" /\ InFlight = <<>>
    BY <2>2 DEF AtWelcome
  <2>4. Final("220", "welcome") /\ "220" \notin Notices
    BY FinalReplies DEF Notices
  <2>5. "220" \in Reply
    BY DEF Reply
  <2>6. cl' = Hears(cl, "220")
    BY <1>2, <2>1, <2>5, HearingOne DEF Heard
  <2>7. cl'.due = <<>> /\ cl'.mode = "commands" /\ cl'.heard = "answer"
    BY <1>1, <2>3, <2>4, <2>6, HearsFinal
  <2>8. AtRead(cl', InFlight')
    BY <1>4, <2>3, <2>7, AtEmpty
  <2>9. Grouped(cl'.due) /\ "read" \notin AuthPC
    BY <2>7 DEF Grouped, AuthPC
  <2> QED BY <2>1, <2>7, <2>8, <2>9 DEF AlignedAt
<1>7. CASE local.chunk = 0 /\ BdatChunk
  <2> DEFINE c == local.chunk
             s == InFlight
             g == InFlight'
  <2>1. pc = "bdat"
    BY <1>7 DEF BdatChunk
  <2>2. AtChunk(cl, s, c) /\ Grouped(cl.due)
    BY <2>1 DEF AlignedAt
  <2>3. s \in Seq(Sendable) /\ g \in Seq(Sendable) /\ g = s /\ c = 0 /\ BdatChunk
    BY <1>1, <1>4, <1>7
  <2> HIDE DEF c, s, g
  <2>4. Cut(g, s, c) /\ c \in Nat
    BY <2>3, CutNone
  <2>5. AlignedAt(pc', cl', local'.chunk, g)
    BY <1>1, <1>2, <1>3, <2>2, <2>3, <2>4, ChunkAnswered
  <2> QED BY <2>5 DEF g
<1> QED BY <1>5, <1>6, <1>7

\* A hello at the head of what is to be read from the socket is all of it.
LEMMA HelloAlone ==
    ASSUME buf \in Seq(Sendable), wire \in Seq(Sendable), Encrypted,
           wire # <<>>, Head(wire).as = "hello"
    PROVE  /\ Len(wire) = 1 /\ Tail(wire) = <<>>
           /\ Len(InFlight) = Len(buf) + 1 /\ InFlight[Len(buf) + 1].as = "hello"
           /\ \A i \in 1 .. Len(buf) : InFlight[i] = buf[i]
<1> DEFINE m == Len(buf)
           k == Len(wire)
           s == InFlight
<1>1. m \in Nat /\ k \in Nat /\ k # 0 /\ Head(wire) = wire[1]
  OBVIOUS
<1>2. /\ Len(s) = m + k
      /\ \A i \in 1 .. m + k : s[i] = IF i <= m THEN buf[i] ELSE wire[i - m]
  BY ConcatProperties DEF InFlight
<1>3. \A i \in 1 .. Len(s) : s[i].as = "hello" => i = Len(s)
  BY DEF Encrypted, HelloLast
<1>4. k = 1 => Tail(wire) = <<>>
  <2> DEFINE t == Tail(wire)
  <2>1. t \in Seq(Sendable) /\ Len(t) = k - 1
    BY HeadTailProperties
  <2> HIDE DEF t, k
  <2>2. k = 1 => Len(t) = 0
    BY <2>1
  <2>3. Len(t) = 0 => t = <<>>
    BY <2>1
  <2> QED BY <2>2, <2>3 DEF t
<1> HIDE DEF m, k, s
<1>5. m + 1 \in 1 .. m + k /\ ~(m + 1 <= m) /\ (m + 1) - m = 1
  BY <1>1
<1>6. s[m + 1].as = "hello"
  BY <1>1, <1>2, <1>5
<1>7. m + 1 = m + k
  BY <1>2, <1>3, <1>5, <1>6
<1>8. k = 1
  BY <1>1, <1>7
<1>9. \A i \in 1 .. m : i \in 1 .. m + k /\ i <= m
  BY <1>1
<1> QED BY <1>2, <1>4, <1>6, <1>8, <1>9 DEF m, k, s

\* The handshake, whether it succeeds or fails
LEMMA HandshakeAligned ==
    ASSUME WireType, Encrypted, ShakeHands, slip' = "none", pc' \notin Terminal,
           AlignedAt(pc, cl, local.chunk, InFlight)
    PROVE  AlignedAt(pc', cl', local'.chunk, InFlight')
<1>1. /\ buf \in Seq(Sendable) /\ wire \in Seq(Sendable) /\ cl \in Clients
      /\ InFlight \in Seq(Sendable)
  BY InFlightType DEF WireType
<1>2. wire # <<>> /\ Handshake /\ pc = "handshake"
  BY DEF ShakeHands, Handshake
<1>3. pc' = "read"
  BY <1>2, HandledPC DEF Handshake, Terminal
<1>4. AtHandshake(cl, InFlight) /\ Grouped(cl.due) /\ cl.heard = "answer"
  BY <1>2 DEF AlignedAt
<1>5. "read" \notin AuthPC
  BY DEF AuthPC
<1>6. CASE /\ Head(wire).as = "hello" /\ wire' = Tail(wire) /\ FreshReader
           /\ cl' = [cl EXCEPT !.mode = "commands", !.tls = TRUE]
           /\ Slips(IF cl.due = <<>> THEN "none" ELSE "tls")
  <2> DEFINE reason == IF cl.due = <<>> THEN "none" ELSE "tls"
  <2>1. reason = "none"
    BY <1>6, NoSlip
  <2>2. cl'.due = <<>> /\ cl'.mode = "commands" /\ cl'.heard = "answer"
    BY <1>1, <1>4, <1>6, <2>1 DEF Clients
  <2>3. wire' = <<>> /\ buf' = <<>>
    BY <1>1, <1>2, <1>6, HelloAlone DEF FreshReader
  <2>4. InFlight' = <<>>
    <3>1. <<>> \o <<>> = <<>>
      OBVIOUS
    <3> QED BY <2>3, <3>1 DEF InFlight
  <2>5. AtRead(cl', InFlight') /\ Grouped(cl'.due)
    BY <2>2, <2>4, AtEmpty DEF Grouped
  <2> QED BY <1>3, <1>5, <2>2, <2>5 DEF AlignedAt
<1>7. CASE /\ ~tls'
           /\ \E k \in 1 .. Len(wire) : wire' = SubSeq(wire, k + 1, Len(wire))
           /\ UNCHANGED buf /\ Heard
           /\ Slips(IF Head(wire).as = "hello" THEN "none" ELSE "tls")
  <2> DEFINE reason == IF Head(wire).as = "hello" THEN "none" ELSE "tls"
  <2>1. reason = "none" /\ ~broken'
    BY <1>7, NoSlip
  <2>2. Head(wire).as = "hello"
    BY <2>1
  <2>3. /\ Len(wire) = 1
        /\ Len(InFlight) = Len(buf) + 1 /\ InFlight[Len(buf) + 1].as = "hello"
        /\ \A i \in 1 .. Len(buf) : InFlight[i] = buf[i]
    BY <1>1, <1>2, <2>2, HelloAlone
  <2>4. wire' = <<>>
    <3>1. wire' = SubSeq(wire, 1 + 1, 1)
      BY <1>7, <2>3
    <3>2. SubSeq(wire, 1 + 1, 1) = <<>>
      BY <1>1
    <3> QED BY <3>1, <3>2
  <2>5. InFlight' = buf
    <3>1. buf \o <<>> = buf
      BY <1>1, ConcatEmptySeq
    <3> QED BY <1>7, <2>4, <3>1 DEF InFlight
  <2>6. cl.mode = "handshake" /\ Stream(buf, cl.due, 0)
    <3> DEFINE s == InFlight
               m == Len(buf)
    <3>1. /\ m \in Nat /\ m = Len(buf) /\ Len(s) = m + 1 /\ s[m + 1].as = "hello"
          /\ \A i \in 1 .. m : s[i] = buf[i]
      BY <1>1, <2>3
    <3>2. CASE cl.mode = "hello" /\ Stream(s, cl.due, 0)
      <4> HIDE DEF s, m
      <4>1. m + 1 \in 1 .. Len(s)
        BY <3>1
      <4>2. s[m + 1].as \in {"command", "octet"}
        BY <3>2, <4>1 DEF Stream, Chunked
      <4> QED BY <3>1, <4>2
    <3>3. CASE /\ cl.mode = "handshake"
               /\ \E r \in Seq(Sendable), x \in Sendable :
                     s = Append(r, x) /\ x.as = "hello" /\ Stream(r, cl.due, 0)
      <4>1. PICK r \in Seq(Sendable), x \in Sendable :
                     s = Append(r, x) /\ Stream(r, cl.due, 0)
        BY <3>3
      <4> DEFINE n == Len(r)
      <4> HIDE DEF s
      <4>2. n \in Nat /\ Len(s) = n + 1 /\ \A i \in 1 .. n : s[i] = r[i]
        BY <4>1, AppendProperties
      <4> HIDE DEF n, m
      <4>3. n = m
        BY <3>1, <4>2
      <4>4. \A i \in 1 .. m : r[i] = buf[i]
        BY <3>1, <4>2, <4>3
      <4>5. r = buf
        BY <1>1, <3>1, <4>3, <4>4, SeqEqual DEF n
      <4> QED BY <3>3, <4>1, <4>5
    <3> QED BY <1>4, <3>2, <3>3 DEF AtHandshake
  <2>7. replies' = <<"FailUndefinedSecurityStatus">>
    BY <1>2, <1>7, <2>1, AllSent DEF Handshake
  <2>8. "FailUndefinedSecurityStatus" \in Reply
    BY DEF Reply
  <2>9. cl' = [cl EXCEPT !.mode = "commands"]
    BY <1>7, <2>6, <2>7, <2>8, HearingOne DEF Heard, Hears
  <2>10. cl'.due = cl.due /\ cl'.mode = "commands" /\ cl'.heard = "answer"
    BY <1>1, <1>4, <2>9 DEF Clients
  <2>11. AtRead(cl', InFlight')
    BY <2>5, <2>6, <2>10 DEF AtRead
  <2> QED BY <1>3, <1>4, <1>5, <2>10, <2>11 DEF AlignedAt
<1> QED BY <1>6, <1>7, Zenon DEF ShakeHands

\* Where a read fails, the session ends or client and session are at odds.
LEMMA FailedRead ==
    ASSUME ReadFails, slip' = "none"
    PROVE  pc' \in Terminal
<1>1. Slips(IF pc \in {"loginPass2", "handshake"} THEN "late" ELSE "none")
  BY Zenon DEF ReadFails
<1>2. pc \notin {"loginPass2", "handshake"}
  <2> DEFINE reason == IF pc \in {"loginPass2", "handshake"} THEN "late" ELSE "none"
  <2>1. reason = "none"
    BY <1>1, NoSlip
  <2> QED BY <2>1
<1>3. ReadLineFails \/ DataReadFails \/ BdatReadFails \/ DialogueAborts
  BY <1>2, Zenon DEF ReadFails, Handshake
<1>4. pc' = "closed"
  BY <1>3 DEF ReadLineFails, DataReadFails, BdatReadFails, DialogueAborts, OutThen,
              Handled
<1> QED BY <1>4 DEF Terminal

-----------------------------------------------------------------------------
\* The client sends

\* One item comes behind what is on its way.
LEMMA OneFlight ==
    ASSUME buf \in Seq(Sendable), wire \in Seq(Sendable), NEW x \in Sendable,
           wire' = Append(wire, x), UNCHANGED buf
    PROVE  InFlight' = Append(InFlight, x)
<1>1. <<x>> \in Seq(Sendable) /\ wire' = Cat(wire, <<x>>)
  BY OneSent
<1>2. InFlight' = Cat(InFlight, <<x>>)
  BY <1>1, SentFlight
<1>3. InFlight \in Seq(Sendable)
  BY InFlightType
<1>4. Append(InFlight, x) = InFlight \o <<x>>
  BY <1>3, AppendIsConcat
<1> QED BY <1>2, <1>4 DEF Cat

\* What the client is about tells what the session waits for.
LEMMA ModeTells ==
    ASSUME pc \in PC \ Terminal, NEW c, NEW s, NEW chunk, AlignedAt(pc, c, chunk, s)
    PROVE  /\ c.mode = "text" => pc = "data"
           /\ c.mode = "response" => pc \in AuthPC
           /\ c.mode \in {"hello", "handshake"} => pc = "handshake"
           /\ c.mode = "commands" => pc # "handshake"
<1>1. pc \in {"welcome", "read", "bdat", "handshake", "data"} \cup AuthPC
  BY DEF PC
<1> QED BY <1>1 DEF AlignedAt, AtWelcome, AtRead, AtChunk, AtHandshake, AtText, AtAuth

\* A command
LEMMA CommandAligned ==
    ASSUME TypeOK, WireType, NEW line \in Seq(Word \cup {SP}), WellSpaced(line),
           SendCommand(line), AlignedAt(pc, cl, local.chunk, InFlight)
    PROVE  AlignedAt(pc', cl', local'.chunk, InFlight')
<1> DEFINE D == Word \cup {"welcome"}
           due == cl.due
           v == VerbOf(line)
           s == InFlight
           c == local.chunk
           E == D \cup {v}
           more == Append(due, v)
<1>1. /\ buf \in Seq(Sendable) /\ wire \in Seq(Sendable) /\ cl \in Clients
      /\ s \in Seq(Sendable) /\ due \in Seq(D) /\ c \in Nat
  BY InFlightType DEF WireType, Clients, TypeOK, Local
<1>2. /\ pc \in PC \ Terminal /\ cl.mode = "commands"
      /\ UNCHANGED <<vars, buf>>
      /\ cl' = [cl EXCEPT !.due = Append(@, v), !.greeted = TRUE]
  BY DEF SendCommand, Sends, TypeOK
<1>3. \A i \in DOMAIN due : due[i] \in Ahead
  BY DEF SendCommand
<1>4. pc' = pc /\ local' = local
  BY <1>2 DEF vars
<1>5. cl'.due = more /\ cl'.mode = "commands" /\ cl'.heard = "answer"
  BY <1>1, <1>2 DEF Clients, AlignedAt
<1>6. PICK t : CommandSent(t, line, Octets(line)) /\ wire' = Cat(wire, t)
  BY <1>1, CommandIsSent
<1>7. InFlight' = Cat(s, t)
  <2>1. t \in Seq(Sendable)
    BY <1>6 DEF CommandSent
  <2> QED BY <1>1, <1>2, <1>6, <2>1, SentFlight
<1> HIDE DEF D, v, s, c
<1>8. /\ more \in Seq(E) /\ Len(more) = Len(due) + 1
      /\ \A i \in 1 .. Len(due) : more[i] = due[i]
  <2>1. due \in Seq(E) /\ v \in E
    BY <1>1, SeqMonotonic
  <2> QED BY <2>1, AppendProperties
<1>9. Grouped(more)
  <2> DEFINE m == Len(due)
  <2>1. m \in Nat /\ DOMAIN due = 1 .. m /\ Len(more) = m + 1
        /\ \A i \in 1 .. m : more[i] = due[i]
    BY <1>1, <1>8
  <2> HIDE DEF m, more
  <2>2. Len(more) - 1 = m
    BY <2>1
  <2>3. \A i \in 1 .. m : more[i] \in Ahead
    BY <1>3, <2>1
  <2> QED BY <2>2, <2>3 DEF Grouped
<1>10. pc \in {"read", "bdat"}
  <2>1. \A w \in {"welcome", "DATA", "AUTH"} : due # <<w>>
    <3> SUFFICES ASSUME NEW w \in {"welcome", "DATA", "AUTH"}, due = <<w>> PROVE FALSE
      OBVIOUS
    <3>1. 1 \in DOMAIN due /\ due[1] = w
      OBVIOUS
    <3> QED BY <1>3, <3>1, DialogueAssumption
  <2>2. pc # "handshake"
    BY <1>2, ModeTells
  <2>3. pc \in {"welcome", "read", "bdat", "handshake", "data"} \cup AuthPC
    BY <1>2 DEF PC
  <2> QED BY <2>1, <2>2, <2>3 DEF AlignedAt, AtWelcome, AtText, AtAuth
<1>11. "read" \notin AuthPC /\ "bdat" \notin AuthPC
  BY DEF AuthPC
<1>12. CASE pc = "read"
  <2>1. AtRead(cl, s)
    BY <1>12 DEF AlignedAt, s
  <2>2. Stream(Cat(s, t), more, 0)
    BY <1>1, <1>6, <2>1, StreamSend DEF AtRead, v
  <2>3. AtRead(cl', InFlight')
    BY <1>5, <1>7, <2>2 DEF AtRead
  <2> QED BY <1>4, <1>5, <1>9, <1>11, <1>12, <2>3 DEF AlignedAt
<1>13. CASE pc = "bdat"
  <2>1. AtChunk(cl, s, c)
    BY <1>13 DEF AlignedAt, s, c
  <2>2. due # <<>> /\ Head(due) = "BDAT" /\ Stream(s, Tail(due), c)
    BY <2>1 DEF AtChunk
  <2>3. Tail(due) \in Seq(D)
    BY <1>1, <2>2, HeadTailProperties
  <2>4. Stream(Cat(s, t), Append(Tail(due), v), c)
    BY <1>1, <1>6, <2>2, <2>3, StreamSend DEF v
  <2>5. /\ more # <<>> /\ Head(more) = Head(due)
        /\ Tail(more) = Append(Tail(due), v)
    <3>1. Head(more) = Head(due) /\ Tail(more) = Append(Tail(due), v)
      BY <1>1, <2>2, HeadTailAppend
    <3>2. more # <<>>
      <4> DEFINE m == Len(due)
      <4>1. m \in Nat /\ Len(more) = m + 1
        BY <1>1, <1>8
      <4> HIDE DEF m, more
      <4>2. Len(more) # 0
        BY <4>1
      <4> QED BY <4>2
    <3> QED BY <3>1, <3>2
  <2>6. AtChunk(cl', InFlight', c)
    BY <1>5, <1>7, <2>2, <2>4, <2>5 DEF AtChunk
  <2> QED BY <1>4, <1>5, <1>9, <1>11, <1>13, <2>6 DEF AlignedAt, c
<1> QED BY <1>10, <1>12, <1>13

\* A line of the message, or the dot behind the last
LEMMA TextSent ==
    ASSUME NEW s \in Seq(Sendable), AtText(cl, s), cl.mode = "text",
           NEW x \in Sendable, cl'.due = cl.due,
           \/ x.as = "text" /\ cl'.mode = "text"
           \/ x.as = "dot" /\ cl'.mode = "commands"
    PROVE  AtText(cl', Append(s, x))
<1> DEFINE n == Len(s)
           u == Append(s, x)
<1>1. /\ n \in Nat /\ Len(u) = n + 1 /\ u[n + 1] = x
      /\ \A i \in 1 .. n : u[i] = s[i]
  BY AppendProperties
<1>2. /\ cl.due = <<"DATA">>
      /\ \A i \in 1 .. n : s[i].as = "text"
  BY DEF AtText
<1> HIDE DEF n, u
<1>3. \A i \in 1 .. n + 1 : i \in 1 .. n \/ i = n + 1
  BY <1>1
<1>4. \A i \in 1 .. Len(u) : /\ u[i].as \in {"text", "dot"}
                             /\ u[i].as = "dot" => i = Len(u) /\ cl'.mode = "commands"
  BY <1>1, <1>2, <1>3
<1> QED BY <1>2, <1>4 DEF AtText, u

\* Whatever the client sends, it is what the session will wait for.
LEMMA SendAligned ==
    ASSUME TypeOK, WireType, ClientStep, AlignedAt(pc, cl, local.chunk, InFlight)
    PROVE  AlignedAt(pc', cl', local'.chunk, InFlight')
<1> DEFINE s == InFlight
<1>1. /\ buf \in Seq(Sendable) /\ wire \in Seq(Sendable) /\ cl \in Clients
      /\ s \in Seq(Sendable)
  BY InFlightType DEF WireType
<1>2. pc \in PC \ Terminal /\ UNCHANGED <<vars, buf>>
  BY Zenon DEF ClientStep, SendCommand, SendText, SendDot, SendResponse, SendHello,
               Sends, TypeOK
<1>3. pc' = pc /\ local' = local
  BY <1>2 DEF vars
<1>4. {"read", "data", "handshake", "bdat", "welcome"} \cap AuthPC = {}
  BY DEF AuthPC
<1>5. Grouped(cl.due) /\ cl.heard = "answer"
  BY DEF AlignedAt
<1>6. ASSUME NEW line \in CommandLines(srv), SendCommand(line)
      PROVE  AlignedAt(pc', cl', local'.chunk, InFlight')
  BY <1>6, CommandLineType, CommandAligned
<1>7. ASSUME NEW x \in Sendable, wire' = Append(wire, x), cl.mode = "text",
             cl'.due = cl.due, cl'.heard = cl.heard,
             \/ x.as = "text" /\ cl'.mode = "text"
             \/ x.as = "dot" /\ cl'.mode = "commands"
      PROVE  AlignedAt(pc', cl', local'.chunk, InFlight')
  <2>1. pc = "data"
    BY <1>2, <1>7, ModeTells
  <2>2. AtText(cl, s)
    BY <2>1 DEF AlignedAt
  <2>3. InFlight' = Append(s, x)
    BY <1>1, <1>2, <1>7, OneFlight
  <2>4. AtText(cl', InFlight')
    BY <1>1, <1>7, <2>2, <2>3, TextSent
  <2> QED BY <1>3, <1>4, <1>5, <1>7, <2>1, <2>4 DEF AlignedAt
<1>8. ASSUME NEW text \in TextLines, SendText(text)
      PROVE  AlignedAt(pc', cl', local'.chunk, InFlight')
  <2> DEFINE x == LineItem("text", text)
  <2>1. text \in Seq(Word \cup {SP})
    BY DialogueAssumption
  <2>2. x \in Sendable
    BY <1>1, <2>1, LineItemType
  <2>3. x.as = "text"
    BY DEF LineItem, Item
  <2>4. /\ wire' = Append(wire, x) /\ cl.mode = "text"
        /\ cl' = [cl EXCEPT !.lines = @ + 1]
    BY <1>8 DEF SendText
  <2>5. cl'.due = cl.due /\ cl'.mode = "text" /\ cl'.heard = cl.heard
    BY <1>1, <2>4 DEF Clients
  <2> HIDE DEF x
  <2> QED BY <1>7, <2>2, <2>3, <2>4, <2>5
<1>9. CASE SendDot
  <2> DEFINE x == LineItem("dot", <<".">>)
  <2>1. <<".">> \in Seq(Word \cup {SP})
    BY DialogueAssumption
  <2>2. x \in Sendable
    BY <1>1, <2>1, LineItemType
  <2>3. x.as = "dot"
    BY DEF LineItem, Item
  <2>4. /\ wire' = Append(wire, x) /\ cl.mode = "text"
        /\ cl' = [cl EXCEPT !.mode = "commands"]
    BY <1>9 DEF SendDot
  <2>5. cl'.due = cl.due /\ cl'.mode = "commands" /\ cl'.heard = cl.heard
    BY <1>1, <2>4 DEF Clients
  <2> HIDE DEF x
  <2> QED BY <1>7, <2>2, <2>3, <2>4, <2>5
<1>10. CASE SendResponse
  <2> DEFINE x == LineItem("response", <<"credentials">>)
  <2>1. <<"credentials">> \in Seq(Word \cup {SP})
    BY DialogueAssumption
  <2>2. x \in Sendable
    BY <1>1, <2>1, LineItemType
  <2>3. x.as = "response"
    BY DEF LineItem, Item
  <2>4. /\ wire' = Append(wire, x) /\ cl.mode = "response"
        /\ cl' = [cl EXCEPT !.mode = "commands"]
    BY <1>10 DEF SendResponse
  <2>5. cl'.due = cl.due /\ cl'.mode = "commands" /\ cl'.heard = cl.heard
    BY <1>1, <2>4 DEF Clients
  <2> HIDE DEF x
  <2>6. pc \in AuthPC
    BY <1>2, <2>4, ModeTells
  <2>7. AtAuth(cl, s)
    BY <2>6 DEF AlignedAt
  <2>8. s = <<>> /\ cl.due = <<"AUTH">>
    BY <2>4, <2>7 DEF AtAuth
  <2>9. InFlight' = Append(s, x)
    BY <1>1, <1>2, <2>2, <2>4, OneFlight
  <2>10. InFlight' = <<x>>
    BY <2>8, <2>9
  <2>11. AtAuth(cl', InFlight')
    <3>1. Len(<<x>>) = 1 /\ <<x>>[1] = x
      OBVIOUS
    <3> QED BY <2>3, <2>5, <2>8, <2>10, <3>1 DEF AtAuth
  <2> QED BY <1>3, <1>4, <1>5, <2>5, <2>6, <2>11 DEF AlignedAt
<1>11. CASE SendHello
  <2> DEFINE x == Item("hello", <<>>)
  <2>1. x \in Sendable
    BY <1>1, BareItemType
  <2>2. x.as = "hello"
    BY DEF Item
  <2>3. /\ wire' = Append(wire, x) /\ cl.mode = "hello"
        /\ cl' = [cl EXCEPT !.mode = "handshake"]
    BY <1>11 DEF SendHello
  <2>4. cl'.due = cl.due /\ cl'.mode = "handshake" /\ cl'.heard = cl.heard
    BY <1>1, <2>3 DEF Clients
  <2> HIDE DEF x
  <2>5. pc = "handshake"
    BY <1>2, <2>3, ModeTells
  <2>6. AtHandshake(cl, s)
    BY <2>5 DEF AlignedAt
  <2>7. Stream(s, cl.due, 0)
    BY <2>3, <2>6 DEF AtHandshake
  <2>8. InFlight' = Append(s, x)
    BY <1>1, <1>2, <2>1, <2>3, OneFlight
  <2> HIDE DEF s
  <2>9. AtHandshake(cl', InFlight')
    BY <1>1, <2>1, <2>2, <2>4, <2>7, <2>8 DEF AtHandshake
  <2> QED BY <1>3, <1>4, <1>5, <2>4, <2>5, <2>9 DEF AlignedAt
<1> QED BY <1>6, <1>8, <1>9, <1>10, <1>11, Zenon DEF ClientStep

\* Every step leaves client and session aligned, or at odds for a reason.
LEMMA AlignedStep ==
    ASSUME TypeOK, TypeOK', WireType, WireType', Aligned, Encrypted,
           [DialogueNext]_dialogueVars
    PROVE  Aligned'
<1> SUFFICES ASSUME slip' = "none", pc' \notin Terminal
             PROVE  AlignedAt(pc', cl', local'.chunk, InFlight')
  BY DEF Aligned
<1>1. CASE \/ UNCHANGED dialogueVars
           \/ Fill
           \/ Leave
           \/ Ended /\ UNCHANGED <<wire, buf, cl, slip>>
  <2>1. pc' = pc /\ cl' = cl /\ slip' = slip /\ local' = local
    BY <1>1, Zenon DEF dialogueVars, vars, Fill, Leave, Client, Ended
  <2>2. InFlight' = InFlight
    <3>1. CASE Fill
      BY <3>1, FillFlight DEF WireType
    <3>2. CASE UNCHANGED <<wire, buf>>
      BY <3>2 DEF InFlight
    <3> QED BY <1>1, <3>1, <3>2, Zenon DEF dialogueVars, Leave
  <2> QED BY <2>1, <2>2 DEF Aligned
<1>2. CASE ClientStep
  <2>1. slip = "none" /\ pc \notin Terminal
    BY <1>2, Zenon DEF ClientStep, SendCommand, SendText, SendDot, SendResponse,
                       SendHello, Sends
  <2> QED BY <1>2, <2>1, SendAligned DEF Aligned
<1>3. CASE TakeLine \/ TakeChunk \/ ShakeHands \/ GoOn
  <2>1. \E reason : Slips(reason)
    BY <1>3, Zenon DEF TakeLine, TakeChunk, ShakeHands, GoOn
  <2>2. slip = "none"
    BY <2>1, NoSlip
  <2>3. pc \notin Terminal
    BY <1>3 DEF TakeLine, AwaitsLine, TakeChunk, AwaitsChunk, ShakeHands, Handshake,
                GoOn, handleWelcome, TooManyBadCommands, DataTooBig, DataDone,
                BdatChunk, Terminal, AuthPC
  <2>4. AlignedAt(pc, cl, local.chunk, InFlight)
    BY <2>2, <2>3 DEF Aligned
  <2>5. CASE TakeLine
    <3>1. pc \in {"read", "data"} \cup AuthPC
      BY <2>5, TakenFor
    <3> QED BY <2>4, <2>5, <3>1, ReadAligned, AuthAligned, TextAligned
  <2>6. CASE TakeChunk
    BY <2>4, <2>6, ChunkAligned
  <2>7. CASE ShakeHands
    BY <2>4, <2>7, HandshakeAligned
  <2>8. CASE GoOn
    BY <2>4, <2>8, GoOnAligned
  <2> QED BY <1>3, <2>5, <2>6, <2>7, <2>8
<1>4. CASE ReadFails
  BY <1>4, FailedRead
<1> QED BY <1>1, <1>2, <1>3, <1>4, Zenon DEF DialogueNext, SessionStep

-----------------------------------------------------------------------------
\* Encryption

\* What is left of what is on its way
LEMMA CoveredCut ==
    ASSUME NEW s \in Seq(Sendable), NEW g \in Seq(Sendable), NEW p \in Nat,
           Cut(g, s, p), HelloLast(s)
    PROVE  HelloLast(g) /\ (Covered(s) => Covered(g))
<1> DEFINE n == Len(s)
           m == Len(g)
<1>1. n = m + p /\ m \in Nat /\ \A i \in 1 .. m : g[i] = s[i + p]
  BY DEF Cut
<1>2. \A i \in 1 .. n : s[i].as = "hello" => i = n
  BY DEF HelloLast
<1>3. Covered(s) => \A i \in 1 .. n : s[i].enc
  BY DEF Covered
<1> HIDE DEF n, m
<1>4. \A i \in 1 .. m : i + p \in 1 .. n /\ (i + p = n => i = m)
  BY <1>1
<1>5. \A i \in 1 .. m : g[i].as = "hello" => i = m
  BY <1>1, <1>2, <1>4
<1>6. Covered(s) => \A i \in 1 .. m : g[i].enc
  BY <1>1, <1>3, <1>4
<1> QED BY <1>5, <1>6 DEF HelloLast, Covered, m

\* What comes behind what is on its way, when no hello is
LEMMA CoveredSend ==
    ASSUME NEW s \in Seq(Sendable), NEW t \in Seq(Sendable),
           \A i \in 1 .. Len(s) : s[i].as # "hello", HelloLast(t)
    PROVE  /\ HelloLast(Cat(s, t))
           /\ Covered(s) /\ Covered(t) => Covered(Cat(s, t))
<1> DEFINE n == Len(s)
           m == Len(t)
           u == Cat(s, t)
<1>1. /\ n \in Nat /\ m \in Nat /\ Len(u) = n + m
      /\ \A i \in 1 .. n + m : u[i] = IF i <= n THEN s[i] ELSE t[i - n]
  BY ConcatProperties DEF Cat
<1>2. /\ \A i \in 1 .. n : s[i].as # "hello"
      /\ \A i \in 1 .. m : t[i].as = "hello" => i = m
      /\ Covered(s) => \A i \in 1 .. n : s[i].enc
      /\ Covered(t) => \A i \in 1 .. m : t[i].enc
  BY DEF HelloLast, Covered
<1> HIDE DEF n, m, u
<1>3. \A i \in 1 .. n + m : \/ i \in 1 .. n /\ i <= n
                            \/ ~(i <= n) /\ i - n \in 1 .. m
  BY <1>1
<1>4. \A i \in 1 .. n + m : i - n = m => i = n + m
  BY <1>1
<1>5. \A i \in 1 .. n + m : u[i].as = "hello" => i = n + m
  BY <1>1, <1>2, <1>3, <1>4
<1>6. Covered(s) /\ Covered(t) => \A i \in 1 .. n + m : u[i].enc
  BY <1>1, <1>2, <1>3
<1> QED BY <1>1, <1>5, <1>6 DEF HelloLast, Covered, u

\* Before a hello is sent, none is on its way.
LEMMA NoHello ==
    ASSUME pc \in PC \ Terminal, NEW s, NEW chunk, AlignedAt(pc, cl, chunk, s),
           cl.mode # "handshake", s \in Seq(Sendable)
    PROVE  \A i \in 1 .. Len(s) : s[i].as # "hello"
<1>1. pc \in {"welcome", "read", "bdat", "handshake", "data"} \cup AuthPC
  BY DEF PC
<1>2. CASE pc = "welcome"
  BY <1>2 DEF AlignedAt, AtWelcome
<1>3. ASSUME NEW due, NEW c, Stream(s, due, c)
      PROVE  \A i \in 1 .. Len(s) : s[i].as # "hello"
  BY <1>3 DEF Stream, Chunked
<1>4. CASE pc \in {"read", "bdat", "handshake"}
  <2>1. \E due, c : Stream(s, due, c)
    BY <1>4, Zenon DEF AlignedAt, AtRead, AtChunk, AtHandshake
  <2> QED BY <1>3, <2>1
<1>5. CASE pc = "data"
  BY <1>5 DEF AlignedAt, AtText
<1>6. CASE pc \in AuthPC
  <2>1. s # <<>> => Len(s) = 1 /\ s[1].as = "response"
    BY <1>6 DEF AlignedAt, AtAuth
  <2> QED BY <2>1
<1> QED BY <1>1, <1>2, <1>4, <1>5, <1>6

\* What the client sends is encrypted if it encrypts.
LEMMA SentCovered ==
    ASSUME TypeOK, WireType, ClientStep
    PROVE  \E t \in Seq(Sendable) : /\ InFlight' = Cat(InFlight, t)
                                    /\ HelloLast(t)
                                    /\ cl.tls => Covered(t)
<1>1. /\ buf \in Seq(Sendable) /\ wire \in Seq(Sendable) /\ cl \in Clients
  BY DEF WireType
<1>2. UNCHANGED buf
  BY Zenon DEF ClientStep, SendCommand, SendText, SendDot, SendResponse, SendHello,
               Sends
<1>3. ASSUME NEW line \in CommandLines(srv), SendCommand(line)
      PROVE  \E t \in Seq(Sendable) : /\ InFlight' = Cat(InFlight, t)
                                      /\ HelloLast(t)
                                      /\ cl.tls => Covered(t)
  <2>1. line \in Seq(Word \cup {SP}) /\ WellSpaced(line)
    BY CommandLineType
  <2>2. PICK t : CommandSent(t, line, Octets(line)) /\ wire' = Cat(wire, t)
    BY <1>1, <1>3, <2>1, CommandIsSent
  <2> DEFINE c == Octets(line)
  <2>3. /\ t \in Seq(Sendable) /\ Len(t) = 1 + c /\ t[1].as = "command"
        /\ \A i \in 2 .. 1 + c : t[i].as = "octet"
        /\ \A i \in 1 .. 1 + c : t[i].enc = cl.tls
    BY <2>2 DEF CommandSent
  <2>4. InFlight' = Cat(InFlight, t)
    BY <1>1, <1>2, <2>2, <2>3, SentFlight
  <2>5. c \in Nat
    BY <2>1, ChunkOfType
  <2> HIDE DEF c
  <2>6. \A i \in 1 .. 1 + c : i = 1 \/ i \in 2 .. 1 + c
    BY <2>5
  <2>7. HelloLast(t) /\ (cl.tls => Covered(t))
    BY <2>3, <2>6 DEF HelloLast, Covered
  <2> QED BY <2>3, <2>4, <2>7
<1>4. ASSUME NEW x \in Sendable, x.enc = cl.tls, wire' = Append(wire, x)
      PROVE  \E t \in Seq(Sendable) : /\ InFlight' = Cat(InFlight, t)
                                      /\ HelloLast(t)
                                      /\ cl.tls => Covered(t)
  <2> DEFINE t == <<x>>
  <2>1. t \in Seq(Sendable) /\ wire' = Cat(wire, t)
    BY <1>1, <1>4, OneSent
  <2>2. InFlight' = Cat(InFlight, t)
    BY <1>1, <1>2, <2>1, SentFlight
  <2>3. Len(t) = 1 /\ t[1] = x /\ \A i \in 1 .. 1 : i = 1
    OBVIOUS
  <2>4. HelloLast(t) /\ (cl.tls => Covered(t))
    BY <1>4, <2>3 DEF HelloLast, Covered
  <2> HIDE DEF t
  <2> QED BY <2>1, <2>2, <2>4
<1>5. ASSUME NEW text \in TextLines, SendText(text)
      PROVE  \E x \in Sendable : x.enc = cl.tls /\ wire' = Append(wire, x)
  <2>1. text \in Seq(Word \cup {SP})
    BY DialogueAssumption
  <2>2. LineItem("text", text) \in Sendable
    BY <1>1, <2>1, LineItemType
  <2>3. LineItem("text", text).enc = cl.tls
    BY DEF LineItem, Item
  <2> QED BY <1>5, <2>2, <2>3 DEF SendText
<1>6. ASSUME SendDot
      PROVE  \E x \in Sendable : x.enc = cl.tls /\ wire' = Append(wire, x)
  <2>1. <<".">> \in Seq(Word \cup {SP})
    BY DialogueAssumption
  <2>2. LineItem("dot", <<".">>) \in Sendable
    BY <1>1, <2>1, LineItemType
  <2>3. LineItem("dot", <<".">>).enc = cl.tls
    BY DEF LineItem, Item
  <2> QED BY <1>6, <2>2, <2>3 DEF SendDot
<1>7. ASSUME SendResponse
      PROVE  \E x \in Sendable : x.enc = cl.tls /\ wire' = Append(wire, x)
  <2>1. <<"credentials">> \in Seq(Word \cup {SP})
    BY DialogueAssumption
  <2>2. LineItem("response", <<"credentials">>) \in Sendable
    BY <1>1, <2>1, LineItemType
  <2>3. LineItem("response", <<"credentials">>).enc = cl.tls
    BY DEF LineItem, Item
  <2> QED BY <1>7, <2>2, <2>3 DEF SendResponse
<1>8. ASSUME SendHello
      PROVE  \E x \in Sendable : x.enc = cl.tls /\ wire' = Append(wire, x)
  <2>1. Item("hello", <<>>) \in Sendable
    BY <1>1, BareItemType
  <2>2. Item("hello", <<>>).enc = cl.tls
    BY DEF Item
  <2> QED BY <1>8, <2>1, <2>2 DEF SendHello
<1> QED BY <1>3, <1>4, <1>5, <1>6, <1>7, <1>8, Zenon DEF ClientStep

\* The session takes from the front of what it has read, or drops all of that.
LEMMA TakenCovered ==
    ASSUME TypeOK, WireType, WireType', HelloLast(InFlight),
           \/ TakeLine
           \/ TakeChunk
           \/ UNCHANGED wire /\ buf' \in {buf, <<>>}
    PROVE  HelloLast(InFlight') /\ (Covered(InFlight) => Covered(InFlight'))
<1>1. /\ buf \in Seq(Sendable) /\ wire \in Seq(Sendable)
      /\ buf' \in Seq(Sendable) /\ wire' \in Seq(Sendable)
  BY DEF WireType
<1>2. InFlight \in Seq(Sendable) /\ InFlight' \in Seq(Sendable)
  BY <1>1, ConcatProperties DEF InFlight
<1>3. UNCHANGED wire
  BY Zenon DEF TakeLine, TakeChunk
<1>4. ASSUME NEW p \in Nat, p <= Len(buf), buf' = SubSeq(buf, p + 1, Len(buf))
      PROVE  HelloLast(InFlight') /\ (Covered(InFlight) => Covered(InFlight'))
  <2>1. Cut(InFlight', InFlight, p)
    BY <1>1, <1>3, <1>4, TakenFlight
  <2> QED BY <1>2, <2>1, CoveredCut
<1>5. ASSUME buf' = <<>>
      PROVE  HelloLast(InFlight') /\ (Covered(InFlight) => Covered(InFlight'))
  <2> DEFINE p == Len(buf)
  <2>1. p \in Nat /\ p <= Len(buf) /\ SubSeq(buf, p + 1, Len(buf)) = <<>>
    BY <1>1
  <2>2. buf' = SubSeq(buf, p + 1, Len(buf))
    BY <1>5, <2>1
  <2> HIDE DEF p
  <2> QED BY <1>4, <2>1, <2>2
<1>6. CASE TakeLine
  <2> DEFINE p == Min(LineEnds(buf))
  <2>1. LineEnds(buf) # {} /\ buf' = SubSeq(buf, p + 1, Len(buf))
    BY <1>6, Zenon DEF TakeLine
  <2>2. p \in 1 .. Len(buf)
    BY <1>1, <2>1, FirstLineType
  <2> HIDE DEF p
  <2>3. p \in Nat /\ p <= Len(buf)
    BY <1>1, <2>2
  <2> QED BY <1>4, <2>1, <2>3
<1>7. CASE TakeChunk
  <2> DEFINE p == local.chunk
             m == Len(buf)
  <2>1. \/ buf' = <<>>
        \/ m >= p /\ buf' = SubSeq(buf, p + 1, m)
    BY <1>7, Zenon DEF TakeChunk
  <2>2. p > 0 /\ m \in Nat
    BY <1>1, <1>7 DEF TakeChunk, AwaitsChunk
  <2>3. CASE m >= p /\ buf' = SubSeq(buf, p + 1, m)
    <3>1. p \in Nat
      BY DEF TypeOK, Local
    <3> HIDE DEF p, m
    <3>2. p <= m
      BY <2>2, <2>3, <3>1
    <3> QED BY <1>4, <2>3, <3>1, <3>2 DEF m
  <2> QED BY <1>5, <2>1, <2>3
<1>8. CASE buf' = buf /\ UNCHANGED wire
  <2>1. InFlight' = InFlight
    BY <1>8 DEF InFlight
  <2> QED BY <2>1
<1> QED BY <1>3, <1>5, <1>6, <1>7, <1>8

\* A handshake that failed may have read anything from the socket.
LEMMA FailedHandshake ==
    ASSUME WireType, HelloLast(InFlight), UNCHANGED buf, NEW k \in 1 .. Len(wire),
           wire' = SubSeq(wire, k + 1, Len(wire))
    PROVE  HelloLast(InFlight')
<1> DEFINE m == Len(buf)
           n == Len(wire)
           s == InFlight
           u == InFlight'
           w == wire'
<1>1. buf \in Seq(Sendable) /\ wire \in Seq(Sendable) /\ m \in Nat /\ n \in Nat
  BY DEF WireType
<1>2. /\ Len(s) = m + n
      /\ \A i \in 1 .. m + n : s[i] = IF i <= m THEN buf[i] ELSE wire[i - m]
  BY <1>1, ConcatProperties DEF InFlight
<1>3. w \in Seq(Sendable) /\ Len(w) = n - k /\ \A i \in 1 .. n - k : w[i] = wire[i + k]
  <2>1. k \in Nat /\ k <= Len(wire)
    BY <1>1
  <2>2. w \in Seq(Sendable) /\ Cut(w, wire, k)
    BY <1>1, <2>1, Suffix
  <2>3. Len(w) = n - k
    <3>1. n = Len(w) + k /\ Len(w) \in Nat
      BY <2>2 DEF Cut
    <3> QED BY <2>1, <3>1
  <2> QED BY <2>2, <2>3 DEF Cut
<1>4. /\ Len(u) = m + (n - k)
      /\ \A i \in 1 .. m + (n - k) : u[i] = IF i <= m THEN buf[i] ELSE w[i - m]
  <2>1. u = buf \o w
    BY DEF InFlight
  <2>2. w \in Seq(Sendable) /\ Len(w) = n - k
    BY <1>3
  <2> HIDE DEF u, w
  <2>3. /\ Len(u) = m + Len(w)
        /\ \A i \in 1 .. m + Len(w) : u[i] = IF i <= m THEN buf[i] ELSE w[i - m]
    BY <1>1, <2>1, <2>2, ConcatProperties
  <2> HIDE DEF m, n
  <2> QED BY <2>2, <2>3
<1>5. \A i \in 1 .. m + n : s[i].as = "hello" => i = m + n
  BY <1>2 DEF HelloLast
<1> HIDE DEF m, n, s, u, w
<1>6. k \in Nat /\ k >= 1 /\ k <= n
  BY <1>1 DEF n
<1>7. ASSUME NEW i \in 1 .. m + (n - k), u[i].as = "hello"
      PROVE  i = m + (n - k)
  <2>1. CASE i <= m
    <3>1. i \in 1 .. m + n /\ i # m + n
      BY <1>1, <1>6, <2>1
    <3>2. s[i] = u[i]
      BY <1>2, <1>4, <2>1, <3>1
    <3> QED BY <1>5, <1>7, <3>1, <3>2
  <2>2. CASE ~(i <= m)
    <3>1. /\ i + k \in 1 .. m + n /\ ~(i + k <= m) /\ (i + k) - m = (i - m) + k
          /\ i - m \in 1 .. n - k
      BY <1>1, <1>6, <2>2
    <3>2. u[i] = w[i - m] /\ w[i - m] = wire[(i - m) + k]
      BY <1>3, <1>4, <2>2, <3>1
    <3>3. s[i + k] = wire[(i + k) - m]
      BY <1>2, <3>1
    <3>4. i + k = m + n
      BY <1>5, <1>7, <3>1, <3>2, <3>3
    <3> QED BY <1>1, <1>6, <3>4
  <2> QED BY <2>1, <2>2
<1> QED BY <1>4, <1>7 DEF HelloLast, u

\* Encryption is lost with nothing, and the handshake begins without.
LEMMA EncryptionChanges ==
    ASSUME [AnyNext]_vars, Encrypted
    PROVE  /\ pc' = "handshake" => ~tls'
           /\ ~Handshake => tls' = tls
<1>1. CASE TLSKept
  BY <1>1 DEF TLSKept, Encrypted
<1>2. CASE Handshake
  <2>1. pc' \in {"read", "closed"}
    BY <1>2, HandledPC DEF Handshake
  <2> QED BY <1>2, <2>1
<1> QED BY <1>1, <1>2, StepKeepsTLS DEF TLSKept

\* What the client hears does not change whether it encrypts.
LEMMA HeardKeepsTLS ==
    ASSUME TypeOK', WireType, Heard
    PROVE  cl'.tls = cl.tls
<1>1. cl \in Clients /\ replies' \in Seq(Reply)
  BY DEF WireType, TypeOK
<1> QED BY <1>1, HearingType DEF Heard

\* What the client sends
LEMMA SendEncrypted ==
    ASSUME TypeOK, WireType, WireType', Aligned, Encrypted, ClientStep
    PROVE  Encrypted'
<1>1. /\ UNCHANGED vars /\ slip = "none" /\ pc \notin Terminal
      /\ cl.mode # "handshake" /\ cl'.tls = cl.tls
  <2>1. cl \in Clients
    BY DEF WireType
  <2>2. /\ UNCHANGED vars /\ slip = "none" /\ pc \notin Terminal
    BY Zenon DEF ClientStep, SendCommand, SendText, SendDot, SendResponse,
                 SendHello, Sends
  <2>3. cl.mode \in {"commands", "text", "response", "hello"}
    BY DEF ClientStep, SendCommand, SendText, SendDot, SendResponse, SendHello
  <2>4. cl'.tls = cl.tls
    BY <2>1 DEF ClientStep, SendCommand, SendText, SendDot, SendResponse, SendHello,
                Clients
  <2> QED BY <2>2, <2>3, <2>4
<1>2. InFlight \in Seq(Sendable) /\ pc \in PC \ Terminal
  BY <1>1, InFlightType DEF WireType, TypeOK
<1>3. AlignedAt(pc, cl, local.chunk, InFlight)
  BY <1>1 DEF Aligned
<1>4. \A i \in 1 .. Len(InFlight) : InFlight[i].as # "hello"
  BY <1>1, <1>2, <1>3, NoHello
<1>5. PICK t \in Seq(Sendable) : /\ InFlight' = Cat(InFlight, t)
                                 /\ HelloLast(t)
                                 /\ cl.tls => Covered(t)
  BY SentCovered
<1>6. /\ HelloLast(InFlight')
      /\ Covered(InFlight) /\ Covered(t) => Covered(InFlight')
  BY <1>2, <1>4, <1>5, CoveredSend
<1>7. tls' = tls /\ pc' = pc
  BY <1>1 DEF vars
<1> QED BY <1>1, <1>5, <1>6, <1>7 DEF Encrypted

\* The handshake: what was sent in the clear is dropped where it succeeds.
LEMMA HandshakeEncrypted ==
    ASSUME TypeOK', WireType, WireType', Encrypted, ShakeHands, [AnyNext]_vars
    PROVE  Encrypted'
<1>1. buf \in Seq(Sendable) /\ wire \in Seq(Sendable) /\ cl \in Clients
  BY DEF WireType
<1>2. pc' = "handshake" => ~tls'
  BY EncryptionChanges
<1>3. CASE /\ tls' /\ Head(wire).as = "hello" /\ wire' = Tail(wire) /\ FreshReader
           /\ cl' = [cl EXCEPT !.mode = "commands", !.tls = TRUE]
  <2>1. wire # <<>>
    BY DEF ShakeHands
  <2>2. wire' = <<>> /\ buf' = <<>>
    BY <1>1, <1>3, <2>1, HelloAlone DEF FreshReader
  <2>3. InFlight' = <<>>
    BY <2>2 DEF InFlight
  <2>4. HelloLast(InFlight') /\ Covered(InFlight')
    BY <2>3 DEF HelloLast, Covered
  <2>5. cl'.tls
    BY <1>1, <1>3 DEF Clients
  <2> QED BY <1>2, <2>4, <2>5 DEF Encrypted
<1>4. ASSUME ~tls', UNCHANGED buf, NEW k \in 1 .. Len(wire),
             wire' = SubSeq(wire, k + 1, Len(wire))
      PROVE  Encrypted'
  <2>1. HelloLast(InFlight')
    BY <1>4, FailedHandshake DEF Encrypted
  <2> QED BY <1>2, <1>4, <2>1 DEF Encrypted
<1> QED BY <1>3, <1>4, Zenon DEF ShakeHands

\* Every step keeps what was sent in the clear away from an encrypted session.
LEMMA EncryptedStep ==
    ASSUME TypeOK, TypeOK', WireType, WireType', Aligned, Encrypted,
           [DialogueNext]_dialogueVars, [AnyNext]_vars
    PROVE  Encrypted'
<1>1. HelloLast(InFlight) /\ (tls => cl.tls /\ Covered(InFlight))
  BY DEF Encrypted
<1>2. pc' = "handshake" => ~tls'
  BY EncryptionChanges
<1>3. ASSUME HelloLast(InFlight'), Covered(InFlight) => Covered(InFlight'),
             cl'.tls = cl.tls, tls' => tls
      PROVE  Encrypted'
  BY <1>1, <1>2, <1>3 DEF Encrypted
<1>4. CASE TakeLine \/ TakeChunk \/ GoOn \/ ReadFails
  <2>1. Heard
    BY <1>4, Zenon DEF TakeLine, TakeChunk, GoOn, ReadFails
  <2>2. cl'.tls = cl.tls
    BY <2>1, HeardKeepsTLS
  <2>3. \/ TakeLine
        \/ TakeChunk
        \/ UNCHANGED wire /\ buf' \in {buf, <<>>}
    BY <1>4 DEF GoOn, ReadFails
  <2>4. HelloLast(InFlight') /\ (Covered(InFlight) => Covered(InFlight'))
    BY <1>1, <2>3, TakenCovered
  <2>5. tls' => tls
    <3>1. CASE ~Handshake
      BY <3>1, EncryptionChanges
    <3>2. CASE Handshake
      <4>1. pc = "handshake"
        BY <3>2 DEF Handshake
      <4>2. ReadFails
        BY <1>4, <4>1 DEF TakeLine, AwaitsLine, TakeChunk, AwaitsChunk, AuthPC, GoOn,
                          handleWelcome, TooManyBadCommands, DataTooBig, DataDone,
                          BdatChunk
      <4>3. ~tls'
        BY <4>1, <4>2 DEF ReadFails, ReadLineFails, DataReadFails, BdatReadFails,
                          AuthPC
      <4> QED BY <4>3
    <3> QED BY <3>1, <3>2
  <2> QED BY <1>3, <2>2, <2>4, <2>5
<1>5. CASE \/ UNCHANGED dialogueVars
           \/ Fill
           \/ Leave
           \/ Ended /\ UNCHANGED <<wire, buf, cl, slip>>
  <2>1. cl' = cl /\ tls' = tls
    BY <1>5, Zenon DEF dialogueVars, vars, Fill, Leave, Client, Ended
  <2>2. InFlight' = InFlight
    <3>1. CASE Fill
      BY <3>1, FillFlight DEF WireType
    <3>2. CASE UNCHANGED <<wire, buf>>
      BY <3>2 DEF InFlight
    <3> QED BY <1>5, <3>1, <3>2, Zenon DEF dialogueVars, Leave
  <2> QED BY <1>1, <1>3, <2>1, <2>2
<1>6. CASE ClientStep
  BY <1>6, SendEncrypted
<1>7. CASE ShakeHands
  BY <1>7, HandshakeEncrypted
<1> QED BY <1>4, <1>5, <1>6, <1>7, Zenon DEF DialogueNext, SessionStep

-----------------------------------------------------------------------------
\* The invariant of the dialogue

\* At first nothing is on its way, and the greeting is due.
LEMMA DialogueInvInit == DialogueInit => DialogueInv
<1> SUFFICES ASSUME DialogueInit PROVE DialogueInv
  OBVIOUS
<1>1. IInv /\ WireType
  BY DialogueInitSafe
<1>2. /\ pc = "welcome" /\ tls = srv.implicitTLS /\ InFlight = <<>>
      /\ cl.due = <<"welcome">> /\ cl.mode = "commands" /\ cl.heard = "answer"
      /\ cl.tls = srv.implicitTLS
  <2>1. /\ pc = "welcome" /\ tls = srv.implicitTLS /\ wire = <<>> /\ buf = <<>>
        /\ cl = [due |-> <<"welcome">>, heard |-> "answer",
                 mode |-> "commands", lines |-> 0,
                 greeted |-> FALSE, tls |-> srv.implicitTLS]
    BY Zenon DEF DialogueInit, Init
  <2>2. InFlight = <<>>
    BY <2>1 DEF InFlight
  <2> QED BY <2>1, <2>2
<1>3. AtWelcome(cl, InFlight) /\ Grouped(cl.due)
  BY <1>2 DEF AtWelcome, Grouped
<1>4. Aligned
  BY <1>2, <1>3 DEF Aligned, AlignedAt, AuthPC
<1>5. Encrypted
  BY <1>2 DEF Encrypted, HelloLast, Covered
<1> QED BY <1>1, <1>4, <1>5 DEF DialogueInv

\* Every step of the client, the connection and the session keeps it.
LEMMA DialogueInvStep ==
    ASSUME DialogueInv, [DialogueNext]_dialogueVars
    PROVE  DialogueInv'
<1>1. IInv /\ WireType /\ Aligned /\ Encrypted
  BY DEF DialogueInv
<1>2. IInv' /\ WireType' /\ [AnyNext]_vars
  BY <1>1, DialogueStepSafe
<1>3. TypeOK /\ TypeOK'
  BY <1>1, <1>2 DEF IInv
<1>4. Aligned'
  BY <1>1, <1>2, <1>3, AlignedStep
<1>5. Encrypted'
  BY <1>1, <1>2, <1>3, EncryptedStep
<1> QED BY <1>2, <1>4, <1>5 DEF DialogueInv

\* Through the whole of a dialogue, with any commands, messages, extensions,
\* numbers and limits, the stream is what the session takes it for and nothing in
\* the clear is ahead of an encrypted session (Serve, ReadLine, handleData,
\* handleBdat, handleStartTLS, auth.go).
THEOREM DialogueInvariant == DialogueSpec => []DialogueInv
<1>1. DialogueInv /\ [DialogueNext]_dialogueVars => DialogueInv'
  BY DialogueInvStep
<1> QED BY <1>1, DialogueInvInit, PTL DEF DialogueSpec

-----------------------------------------------------------------------------
\* What the runs check, from the invariant

\* The first item of a stream
LEMMA FirstOf ==
    ASSUME NEW s \in Seq(Sendable), s # <<>>
    PROVE  Head(s) = s[1] /\ 1 \in 1 .. Len(s)
OBVIOUS

\* What is ahead of a handshake begins with a command or is the hello.
LEMMA HandshakeFirst ==
    ASSUME NEW c \in Clients, NEW s \in Seq(Sendable), s # <<>>, AtHandshake(c, s)
    PROVE  s[1].as \in {"command", "hello"}
<1>1. c.due \in Seq(Word \cup {"welcome"})
  BY DEF Clients
<1>2. CASE Stream(s, c.due, 0)
  BY <1>1, <1>2, StreamFirst
<1>3. ASSUME NEW r \in Seq(Sendable), NEW x \in Sendable,
             s = Append(r, x), x.as = "hello", Stream(r, c.due, 0)
      PROVE  s[1].as \in {"command", "hello"}
  <2>1. CASE r = <<>>
    <3>1. s[1] = x
      BY <1>3, <2>1
    <3> QED BY <1>3, <3>1
  <2>2. CASE r # <<>>
    <3>1. s[1] = r[1]
      BY <1>3, <2>2, FirstOf, AppendProperties
    <3>2. r[1].as = "command"
      BY <1>1, <1>3, <2>2, StreamFirst
    <3> QED BY <3>1, <3>2
  <2> QED BY <2>1, <2>2
<1> QED BY <1>2, <1>3 DEF AtHandshake

\* What comes next is what the session waits for.
LEMMA InputNext ==
    ASSUME pc \in PC \ Terminal, cl \in Clients, local.chunk \in Nat,
           NEW s \in Seq(Sendable), s # <<>>, AlignedAt(pc, cl, local.chunk, s)
    PROVE  /\ s[1].as \in Expected
           /\ AwaitsChunk => /\ Len(s) >= local.chunk
                             /\ \A i \in 1 .. local.chunk : s[i].as = "octet"
<1>1. pc \in {"welcome", "read", "bdat", "handshake", "data"} \cup AuthPC
  BY DEF PC
<1>2. 1 \in 1 .. Len(s) /\ cl.due \in Seq(Word \cup {"welcome"})
  BY FirstOf DEF Clients
<1>3. pc # "welcome"
  BY DEF AlignedAt, AtWelcome
<1>4. CASE pc = "read"
  <2>1. s[1].as = "command"
    BY <1>2, <1>4, StreamFirst DEF AlignedAt, AtRead
  <2> QED BY <1>4, <2>1 DEF Expected, AwaitsChunk, AuthPC
<1>5. CASE pc = "bdat" /\ local.chunk > 0
  <2> DEFINE c == local.chunk
  <2>1. Chunked(s, Len(s), c)
    BY <1>5, Zenon DEF AlignedAt, AtChunk, Stream
  <2>2. c <= Len(s) /\ \A i \in 1 .. c : s[i].as = "octet"
    BY <2>1 DEF Chunked
  <2>3. 1 \in 1 .. c
    BY <1>5
  <2>4. s[1].as = "octet"
    BY <2>2, <2>3
  <2>5. Expected = {"octet"}
    BY <1>5 DEF Expected, AwaitsChunk, AuthPC
  <2> QED BY <2>2, <2>4, <2>5
<1>6. CASE pc = "bdat" /\ ~(local.chunk > 0)
  <2>1. local.chunk = 0
    BY <1>6
  <2>2. cl.due # <<>> /\ Stream(s, Tail(cl.due), 0)
    BY <1>6, <2>1 DEF AlignedAt, AtChunk
  <2>3. Tail(cl.due) \in Seq(Word \cup {"welcome"})
    BY <1>2, <2>2, HeadTailProperties
  <2>4. s[1].as = "command"
    BY <2>2, <2>3, StreamFirst
  <2> QED BY <1>6, <2>4 DEF Expected, AwaitsChunk, AuthPC
<1>7. CASE pc = "handshake"
  <2>1. s[1].as \in {"command", "hello"}
    BY <1>7, HandshakeFirst DEF AlignedAt
  <2> QED BY <1>7, <2>1 DEF Expected, AwaitsChunk, AuthPC
<1>8. CASE pc = "data"
  <2>1. s[1].as \in {"text", "dot"}
    BY <1>2, <1>8 DEF AlignedAt, AtText
  <2> QED BY <1>8, <2>1 DEF Expected, AwaitsChunk, AuthPC
<1>9. CASE pc \in AuthPC
  <2>1. s[1].as = "response"
    BY <1>9 DEF AlignedAt, AtAuth
  <2> QED BY <1>9, <2>1 DEF Expected, AwaitsChunk, AuthPC
<1> QED BY <1>1, <1>3, <1>4, <1>5, <1>6, <1>7, <1>8, <1>9

\* The invariant of the dialogue is strong enough.
LEMMA DialogueInvSuffices ==
    DialogueInv => InputAligned /\ RepliesPaired /\ ClearTextDropped
<1> SUFFICES ASSUME DialogueInv
             PROVE  InputAligned /\ RepliesPaired /\ ClearTextDropped
  OBVIOUS
<1>1. /\ TypeOK /\ cl \in Clients /\ Aligned /\ Encrypted
      /\ InFlight \in Seq(Sendable)
  BY InFlightType DEF DialogueInv, IInv, WireType
<1>2. pc \in PC /\ local.chunk \in Nat
  BY <1>1 DEF TypeOK, Local
<1>3. InputAligned
  <2> SUFFICES ASSUME slip = "none", pc \notin Terminal, InFlight # <<>>
               PROVE  /\ Head(InFlight).as \in Expected
                      /\ AwaitsChunk =>
                            /\ Len(InFlight) >= local.chunk
                            /\ \A i \in 1 .. local.chunk : InFlight[i].as = "octet"
    BY DEF InputAligned
  <2> DEFINE s == InFlight
  <2>1. s \in Seq(Sendable) /\ s # <<>> /\ s = InFlight
    BY <1>1
  <2>2. AlignedAt(pc, cl, local.chunk, s)
    BY <1>1 DEF Aligned
  <2> HIDE DEF s
  <2>3. Head(s) = s[1]
    BY <2>1, FirstOf
  <2>4. /\ s[1].as \in Expected
        /\ AwaitsChunk => /\ Len(s) >= local.chunk
                          /\ \A i \in 1 .. local.chunk : s[i].as = "octet"
    BY <1>1, <1>2, <2>1, <2>2, InputNext
  <2> QED BY <2>1, <2>3, <2>4, Zenon
<1>4. RepliesPaired
  <2>1. pc = "read" => pc \notin Terminal
    BY DEF Terminal
  <2> QED BY <1>1, <2>1 DEF RepliesPaired, Aligned, AlignedAt, AtRead, Stream
<1>5. ClearTextDropped
  <2>1. \A s \in Seq(Sendable) : DOMAIN s = 1 .. Len(s)
    OBVIOUS
  <2>2. DOMAIN InFlight = 1 .. Len(InFlight)
    BY <1>1, <2>1, Zenon
  <2> QED BY <1>1, <2>2 DEF ClearTextDropped, Encrypted, Covered
<1> QED BY <1>3, <1>4, <1>5

\* Until something sets client and session at odds, what comes next in the stream
\* is what the session waits for: no text is read as a command, no command as
\* text or password, and a chunk is there as a whole (ReadLine, handleData,
\* handleBdat, auth.go).
THEOREM DialogueInputAligned == DialogueSpec => []InputAligned
BY DialogueInvariant, DialogueInvSuffices, PTL

\* Until then the replies that are due between two commands are those to the
\* commands on their way, in their order, however many are sent ahead, and no reply
\* was one too many: each handler answers once, behind notices if any (Serve, the
\* handlers, Out).
THEOREM DialogueRepliesPaired == DialogueSpec => []RepliesPaired
BY DialogueInvariant, DialogueInvSuffices, PTL

\* What was sent in the clear is never read by an encrypted session, whatever
\* arrived with STARTTLS and however it was split over reads (handleStartTLS).
THEOREM DialogueClearTextDropped == DialogueSpec => []ClearTextDropped
BY DialogueInvariant, DialogueInvSuffices, PTL

=============================================================================
