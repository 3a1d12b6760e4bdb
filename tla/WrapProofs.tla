----------------------------- MODULE WrapProofs -----------------------------
(***************************************************************************)
(* Folding a header loses nothing and breaks lines in time, for every       *)
(* header and every width.                                                  *)
(***************************************************************************)
EXTENDS Wrap, SequenceTheorems, TLAPS

\* append, copy and the three assignments replace one octet by three and move
\* the rest by two.
LEMMA SpliceProperties ==
    ASSUME NEW s \in Seq(Octet), NEW n \in 1 .. Len(s)
    PROVE  /\ Splice(s, n) \in Seq(Octet)
           /\ Len(Splice(s, n)) = Len(s) + 2
           /\ \A k \in 1 .. n - 1 : Splice(s, n)[k] = s[k]
           /\ Splice(s, n)[n] = CR
           /\ Splice(s, n)[n + 1] = LF
           /\ Splice(s, n)[n + 2] = TAB
           /\ \A k \in n + 3 .. Len(s) + 2 : Splice(s, n)[k] = s[k - 2]
<1> DEFINE front == SubSeq(s, 1, n - 1)
           fold  == <<CR, LF, TAB>>
           rest  == SubSeq(s, n + 1, Len(s))
<1>1. Len(s) \in Nat /\ n \in Nat /\ 1 <= n /\ n <= Len(s)
  OBVIOUS
<1>2. /\ front \in Seq(Octet)
      /\ Len(front) = n - 1
      /\ \A k \in 1 .. n - 1 : front[k] = s[k]
  BY <1>1
<1>3. /\ rest \in Seq(Octet)
      /\ Len(rest) = Len(s) - n
      /\ \A k \in 1 .. Len(s) - n : rest[k] = s[n + k]
  BY <1>1
<1>4. /\ fold \in Seq(Octet) /\ Len(fold) = 3
      /\ fold[1] = CR /\ fold[2] = LF /\ fold[3] = TAB
  BY WrapAssumption
<1> HIDE DEF front, fold, rest
<1> DEFINE both == front \o fold
           all  == both \o rest
<1>5. /\ both \in Seq(Octet)
      /\ Len(both) = n + 2
      /\ \A k \in 1 .. n + 2 :
            both[k] = IF k <= n - 1 THEN front[k] ELSE fold[k - (n - 1)]
  <2>1. /\ both \in Seq(Octet)
        /\ Len(both) = Len(front) + Len(fold)
        /\ \A k \in 1 .. Len(front) + Len(fold) :
              both[k] = IF k <= Len(front) THEN front[k]
                        ELSE fold[k - Len(front)]
    BY <1>2, <1>4, ConcatProperties
  <2> HIDE DEF both
  <2> QED BY <1>1, <1>2, <1>4, <2>1
<1> HIDE DEF both
<1>6. /\ all \in Seq(Octet)
      /\ Len(all) = Len(s) + 2
      /\ \A k \in 1 .. Len(s) + 2 :
            all[k] = IF k <= n + 2 THEN both[k] ELSE rest[k - (n + 2)]
  <2>1. /\ all \in Seq(Octet)
        /\ Len(all) = Len(both) + Len(rest)
        /\ \A k \in 1 .. Len(both) + Len(rest) :
              all[k] = IF k <= Len(both) THEN both[k] ELSE rest[k - Len(both)]
    BY <1>3, <1>5, ConcatProperties
  <2> HIDE DEF all
  <2> QED BY <1>1, <1>3, <1>5, <2>1
<1> HIDE DEF all
<1>7. \A k \in n + 3 .. Len(s) + 2 : rest[k - (n + 2)] = s[k - 2]
  BY <1>1, <1>3
<1>8. Splice(s, n) = all
  BY DEF Splice, front, fold, rest, both, all
<1>9. \A k \in 1 .. n - 1 : all[k] = s[k]
  BY <1>1, <1>2, <1>5, <1>6
<1>10. all[n] = CR /\ all[n + 1] = LF /\ all[n + 2] = TAB
  <2>1. all[n] = fold[1]
    BY <1>1, <1>5, <1>6
  <2>2. all[n + 1] = fold[2]
    BY <1>1, <1>5, <1>6
  <2>3. all[n + 2] = fold[3]
    BY <1>1, <1>5, <1>6
  <2> QED BY <1>4, <2>1, <2>2, <2>3
<1>11. \A k \in n + 3 .. Len(s) + 2 : all[k] = s[k - 2]
  BY <1>1, <1>6, <1>7
<1> QED BY <1>6, <1>8, <1>9, <1>10, <1>11

-----------------------------------------------------------------------------
\* One iteration

\* What both kinds of iteration do: octet Len(at) + 1 of the text is placed at
\* i, where it takes w octets.
Places(w) == /\ i' = i + w
             /\ at' = Append(at, i)
             /\ text' = text
             /\ Len(sl') = Len(sl) + w - 1
             /\ \A n \in 1 .. i - 1 : sl'[n] = sl[n]
             /\ \A n \in i + w .. Len(sl') : sl'[n] = sl[n + 1 - w]

\* Keeping an octet places it as it is.
LEMMA KeepPlaces ==
    ASSUME WrapInv, Keep
    PROVE  i \in 1 .. Len(sl) /\ Places(1) /\ sl' = sl
<1>1. i \in Nat /\ i >= 1 /\ sl \in Seq(Octet)
  BY DEF WrapInv, TypeOK
<1>2. i <= Len(sl) /\ Len(sl) \in Nat
  BY <1>1 DEF Keep
<1>3. /\ i' = i + 1 /\ at' = Append(at, i) /\ text' = text /\ sl' = sl
      /\ Len(sl') = Len(sl) + 1 - 1
  BY <1>2 DEF Keep
<1>4. \A n \in i + 1 .. Len(sl') : n + 1 - 1 = n
  BY <1>1, <1>2, <1>3
<1> QED BY <1>1, <1>2, <1>3, <1>4 DEF Places

\* Breaking a line places the space as three octets and moves the rest.
LEMMA BreakPlaces ==
    ASSUME WrapInv, Break
    PROVE  /\ i \in 1 .. Len(sl) /\ Places(3)
           /\ sl' \in Seq(Octet)
           /\ sl[i] = SP
           /\ sl'[i] = CR /\ sl'[i + 1] = LF /\ sl'[i + 2] = TAB
<1>1. i \in Nat /\ i >= 1 /\ sl \in Seq(Octet)
  BY DEF WrapInv, TypeOK
<1>2. i <= Len(sl) /\ Len(sl) \in Nat
  BY <1>1 DEF Break
<1>3. /\ i' = i + 3 /\ at' = Append(at, i) /\ text' = text
      /\ sl' = Splice(sl, i) /\ sl[i] = SP
  BY DEF Break
<1>4. i \in 1 .. Len(sl)
  BY <1>1, <1>2
<1>5. /\ sl' \in Seq(Octet)
      /\ Len(sl') = Len(sl) + 2
      /\ \A k \in 1 .. i - 1 : sl'[k] = sl[k]
      /\ sl'[i] = CR /\ sl'[i + 1] = LF /\ sl'[i + 2] = TAB
      /\ \A k \in i + 3 .. Len(sl) + 2 : sl'[k] = sl[k - 2]
  BY <1>1, <1>3, <1>4, SpliceProperties
<1>6. /\ Len(sl') = Len(sl) + 3 - 1
      /\ \A n \in i + 3 .. Len(sl') : n + 1 - 3 = n - 2
  BY <1>1, <1>2, <1>5
<1>7. \A n \in i + 3 .. Len(sl') : sl'[n] = sl[n + 1 - 3]
  BY <1>1, <1>2, <1>5, <1>6
<1> QED BY <1>3, <1>4, <1>5, <1>6, <1>7 DEF Places

\* A placed octet enters the list of places; the others take what they took.
LEMMA PlacedAt ==
    ASSUME WrapInv, NEW w \in {1, 3}, i \in 1 .. Len(sl), Places(w)
    PROVE  /\ at' \in Seq(Nat \ {0})
           /\ Len(at') = Len(at) + 1
           /\ \A k \in 1 .. Len(at) : at'[k] = at[k] /\ Taken(k)' = Taken(k)
           /\ \A k : k = Len(at) + 1 => at'[k] = i /\ Taken(k)' = w
<1>1. at \in Seq(Nat \ {0}) /\ i \in Nat \ {0} /\ Len(at) \in Nat
  BY DEF WrapInv, TypeOK
<1>2. /\ at' \in Seq(Nat \ {0})
      /\ Len(at') = Len(at) + 1
      /\ \A k \in 1 .. Len(at) : at'[k] = at[k]
      /\ at'[Len(at) + 1] = i
      /\ i' = i + w
  BY <1>1, AppendProperties DEF Places
<1>3. ASSUME NEW k, k = Len(at) + 1
      PROVE  at'[k] = i /\ Taken(k)' = w
  <2>1. ~(k < Len(at')) /\ i + w - i = w
    BY <1>1, <1>2, <1>3
  <2> QED BY <1>2, <1>3, <2>1 DEF Taken
<1>4. ASSUME NEW k \in 1 .. Len(at)
      PROVE  Taken(k)' = Taken(k)
  <2>1. k < Len(at') /\ at'[k] = at[k]
    BY <1>1, <1>2
  <2>2. CASE k < Len(at)
    <3>1. k + 1 \in 1 .. Len(at)
      BY <1>1, <2>2
    <3> QED BY <1>2, <2>1, <2>2, <3>1 DEF Taken
  <2>3. CASE k = Len(at)
    BY <1>1, <1>2, <2>1, <2>3 DEF Taken
  <2> QED BY <1>1, <2>2, <2>3
<1> QED BY <1>2, <1>3, <1>4

\* Placing an octet keeps the order of places.
LEMMA PlacesPlaced ==
    ASSUME WrapInv, NEW w \in {1, 3}, i \in 1 .. Len(sl), Places(w)
    PROVE  PlacedInv'
<1>1. /\ Len(sl) \in Nat /\ i \in Nat /\ i <= Len(sl)
      /\ Len(at) \in Nat
      /\ \A k \in 1 .. Len(at) : at[k] \in Nat
  BY DEF WrapInv, TypeOK
<1>2. i' = i + w /\ Len(sl') = Len(sl) + w - 1
  BY DEF Places
<1>3. i' <= Len(sl') + 1
  BY <1>1, <1>2
<1>4. ASSUME NEW k \in 1 .. Len(at')
      PROVE  at'[k] < i'
  <2>1. k \in 1 .. Len(at) \/ k = Len(at) + 1
    BY <1>1, PlacedAt
  <2>2. CASE k \in 1 .. Len(at)
    <3>1. at'[k] = at[k] /\ at[k] \in Nat /\ at[k] < i
      BY <1>1, <2>2, PlacedAt DEF WrapInv, PlacedInv
    <3> QED BY <1>1, <1>2, <3>1
  <2>3. CASE k = Len(at) + 1
    BY <1>1, <1>2, <2>3, PlacedAt
  <2> QED BY <2>1, <2>2, <2>3
<1> QED BY <1>3, <1>4 DEF PlacedInv

\* Unfolding still gives the text, if what was placed is the next octet of it.
LEMMA PlacesUnfolds ==
    ASSUME WrapInv, NEW w \in {1, 3}, i \in 1 .. Len(sl), Places(w),
           \/ w = 1 /\ sl'[i] = sl[i]
           \/ /\ w = 3 /\ sl[i] = SP
              /\ sl'[i] = CR /\ sl'[i + 1] = LF /\ sl'[i + 2] = TAB
    PROVE  Unfolds'
<1>1. /\ Len(sl) \in Nat /\ i \in Nat /\ 1 <= i /\ i <= Len(sl)
      /\ Len(at) \in Nat /\ Len(text) \in Nat
      /\ \A k \in 1 .. Len(at) : at[k] \in Nat /\ at[k] >= 1
  BY WrapAssumption DEF WrapInv, TypeOK
<1>2. /\ i' = i + w /\ text' = text /\ Len(sl') = Len(sl) + w - 1
      /\ \A n \in 1 .. i - 1 : sl'[n] = sl[n]
      /\ \A n \in i + w .. Len(sl') : sl'[n] = sl[n + 1 - w]
  BY DEF Places
<1>3. /\ Len(at') = Len(at) + 1
      /\ \A k \in 1 .. Len(at) : at'[k] = at[k] /\ Taken(k)' = Taken(k)
      /\ \A k : k = Len(at) + 1 => at'[k] = i /\ Taken(k)' = w
      /\ at' \in Seq(Nat \ {0})
  BY PlacedAt
<1>4. /\ at = <<>> => i = 1
      /\ at # <<>> => at[1] = 1
      /\ \A k \in 1 .. Len(at) :
            \/ Taken(k) = 1 /\ sl[at[k]] = text[k]
            \/ /\ Taken(k) = 3 /\ text[k] = SP
               /\ sl[at[k]] = CR /\ sl[at[k] + 1] = LF /\ sl[at[k] + 2] = TAB
      /\ Len(sl) - i = Len(text) - Len(at) - 1
      /\ \A n \in i .. Len(sl) : sl[n] = text[Len(at) + 1 + n - i]
  BY DEF WrapInv, Unfolds
<1>5. sl[i] = text[Len(at) + 1]
  <2>1. i \in i .. Len(sl) /\ Len(at) + 1 + i - i = Len(at) + 1
    BY <1>1
  <2> QED BY <1>4, <2>1
<1>6. (at = <<>> => i = 1)' /\ (at # <<>> => at[1] = 1)'
  <2>1. at' # <<>>
    BY <1>1, <1>3
  <2>2. CASE at = <<>>
    BY <1>3, <1>4, <2>1, <2>2
  <2>3. CASE at # <<>>
    <3>1. 1 \in 1 .. Len(at)
      BY <1>1, <2>3 DEF WrapInv, TypeOK
    <3> QED BY <1>3, <1>4, <2>1, <2>3, <3>1
  <2> QED BY <2>2, <2>3
<1>7. ASSUME NEW k \in 1 .. Len(at)
      PROVE  \/ Taken(k)' = 1 /\ sl'[at'[k]] = text'[k]
             \/ /\ Taken(k)' = 3 /\ text'[k] = SP
                /\ sl'[at'[k]] = CR /\ sl'[at'[k] + 1] = LF
                /\ sl'[at'[k] + 2] = TAB
  <2>1. at[k] \in Nat /\ at[k] >= 1 /\ at[k] < i
    BY <1>1 DEF WrapInv, PlacedInv
  <2>2. at[k] + Taken(k) <= i
    <3>1. CASE k < Len(at)
      <4>1. k + 1 \in 1 .. Len(at)
        BY <1>1, <3>1
      <4>2. at[k + 1] \in Nat /\ at[k + 1] < i
        BY <1>1, <4>1 DEF WrapInv, PlacedInv
      <4>3. Taken(k) = at[k + 1] - at[k]
        BY <3>1 DEF Taken
      <4> QED BY <1>1, <2>1, <4>2, <4>3
    <3>2. CASE ~(k < Len(at))
      <4>1. Taken(k) = i - at[k]
        BY <3>2 DEF Taken
      <4> QED BY <1>1, <2>1, <4>1
    <3> QED BY <3>1, <3>2
  <2>3. CASE Taken(k) = 1 /\ sl[at[k]] = text[k]
    <3>1. at[k] \in 1 .. i - 1
      BY <1>1, <2>1
    <3> QED BY <1>2, <1>3, <2>3, <3>1
  <2>4. CASE /\ Taken(k) = 3 /\ text[k] = SP
             /\ sl[at[k]] = CR /\ sl[at[k] + 1] = LF /\ sl[at[k] + 2] = TAB
    <3>1. /\ at[k] \in 1 .. i - 1
          /\ at[k] + 1 \in 1 .. i - 1
          /\ at[k] + 2 \in 1 .. i - 1
      <4>1. at[k] + 3 <= i
        BY <2>2, <2>4
      <4> QED BY <1>1, <2>1, <4>1
    <3> QED BY <1>2, <1>3, <2>4, <3>1
  <2> QED BY <1>4, <2>3, <2>4
<1>8. ASSUME NEW k, k = Len(at) + 1
      PROVE  \/ Taken(k)' = 1 /\ sl'[at'[k]] = text'[k]
             \/ /\ Taken(k)' = 3 /\ text'[k] = SP
                /\ sl'[at'[k]] = CR /\ sl'[at'[k] + 1] = LF
                /\ sl'[at'[k] + 2] = TAB
  <2>1. at'[k] = i /\ Taken(k)' = w /\ text'[k] = sl[i]
    BY <1>2, <1>3, <1>5, <1>8
  <2> QED BY <2>1
<1>9. \A k \in 1 .. Len(at') : k \in 1 .. Len(at) \/ k = Len(at) + 1
  BY <1>1, <1>3
<1>10. Len(sl') - i' = Len(text') - Len(at') - 1
  <2>1. Len(sl') - i' = Len(sl) - i - 1
    BY <1>1, <1>2
  <2>2. Len(text') - Len(at') - 1 = Len(text) - Len(at) - 1 - 1
    BY <1>1, <1>2, <1>3
  <2> QED BY <1>4, <2>1, <2>2
<1>11. ASSUME NEW n \in i' .. Len(sl')
       PROVE  sl'[n] = text'[Len(at') + 1 + n - i']
  <2>1. /\ n \in i + w .. Len(sl')
        /\ n + 1 - w \in i .. Len(sl)
        /\ Len(at) + 1 + (n + 1 - w) - i = Len(at') + 1 + n - i'
    BY <1>1, <1>2, <1>3
  <2>2. sl'[n] = sl[n + 1 - w]
    BY <1>2, <2>1
  <2>3. sl[n + 1 - w] = text[Len(at) + 1 + (n + 1 - w) - i]
    BY <1>4, <2>1
  <2> QED BY <1>2, <2>1, <2>2, <2>3
<1>12. \A k \in 1 .. Len(at') :
          \/ Taken(k)' = 1 /\ sl'[at'[k]] = text'[k]
          \/ /\ Taken(k)' = 3 /\ text'[k] = SP
             /\ sl'[at'[k]] = CR /\ sl'[at'[k] + 1] = LF /\ sl'[at'[k] + 2] = TAB
  <2> SUFFICES ASSUME NEW k \in 1 .. Len(at')
               PROVE  \/ Taken(k)' = 1 /\ sl'[at'[k]] = text'[k]
                      \/ /\ Taken(k)' = 3 /\ text'[k] = SP
                         /\ sl'[at'[k]] = CR /\ sl'[at'[k] + 1] = LF
                         /\ sl'[at'[k] + 2] = TAB
    OBVIOUS
  <2>1. CASE k \in 1 .. Len(at)
    BY <1>7, <2>1
  <2>2. CASE k = Len(at) + 1
    BY <1>8, <2>2
  <2> QED BY <1>9, <2>1, <2>2
<1> QED BY <1>6, <1>10, <1>11, <1>12 DEF Unfolds

-----------------------------------------------------------------------------
\* Where lines are broken

\* A line break that lies before the octets just placed is still there.
LEMMA BreaksStay ==
    ASSUME NEW w, Places(w), NEW n \in 1 .. i - 1
    PROVE  sl'[n] = sl[n]
BY DEF Places

\* length keeps up with the last line break, of the text or of the fold.
LEMMA StepLength ==
    ASSUME WrapInv, Keep \/ Break
    PROVE  LengthInv'
<1>1. i \in Nat /\ i >= 1 /\ length \in Nat
  BY DEF WrapInv, TypeOK
<1>2. CASE Break
  <2>1. i' = i + 3 /\ length' = 1 /\ sl'[i + 1] = LF
    BY <1>2, BreakPlaces DEF Break
  <2>2. i + 1 \in 1 .. i' - 1 /\ i' - (i + 1) <= length' + 1
    BY <1>1, <2>1
  <2> QED BY <2>1, <2>2 DEF LengthInv
<1>3. CASE Keep /\ sl[i] = LF
  <2>1. i' = i + 1 /\ length' = 1 /\ sl' = sl
    BY <1>3 DEF Keep
  <2>2. i \in 1 .. i' - 1 /\ i' - i <= length' + 1
    BY <1>1, <2>1
  <2> QED BY <1>3, <2>1, <2>2 DEF LengthInv
<1>4. CASE Keep /\ sl[i] # LF
  <2>1. i' = i + 1 /\ length' = length + 1 /\ sl' = sl
    BY <1>4 DEF Keep
  <2>2. CASE i <= length + 1
    BY <1>1, <2>1, <2>2 DEF LengthInv
  <2>3. ASSUME NEW m \in 1 .. i - 1, sl[m] = LF, i - m <= length + 1
        PROVE  LengthInv'
    <3>1. m \in 1 .. i' - 1 /\ i' - m <= length' + 1
      BY <1>1, <2>1, <2>3
    <3> QED BY <2>1, <2>3, <3>1 DEF LengthInv
  <2> QED BY <2>2, <2>3 DEF WrapInv, LengthInv
<1> QED BY <1>2, <1>3, <1>4

\* A space that is kept has few enough octets of its line before it.
LEMMA KeptInTime ==
    ASSUME WrapInv, Keep, sl[i] = SP
    PROVE  \/ i <= Width + 1
           \/ \E m \in 1 .. i - 1 : m >= i - Width - 1 /\ sl[m] = LF
<1>1. i \in Nat /\ length \in Nat /\ Width \in Nat /\ length <= Width
  BY WrapAssumption DEF WrapInv, TypeOK, Keep, TooLong
<1>2. CASE i <= length + 1
  BY <1>1, <1>2
<1>3. ASSUME NEW m \in 1 .. i - 1, sl[m] = LF, i - m <= length + 1
      PROVE  m >= i - Width - 1
  BY <1>1, <1>3
<1> QED BY <1>2, <1>3 DEF WrapInv, LengthInv

\* Every space the loop has passed was kept in time.
LEMMA StepInTime ==
    ASSUME WrapInv, Keep \/ Break
    PROVE  BrokenInTime'
<1> SUFFICES ASSUME NEW n \in 1 .. i' - 1, sl'[n] = SP
             PROVE  \/ n <= Width + 1
                    \/ \E m \in 1 .. n - 1 : m >= n - Width - 1 /\ sl'[m] = LF
  BY DEF BrokenInTime
<1>1. i \in Nat /\ i >= 1
  BY DEF WrapInv, TypeOK
<1>2. PICK w \in {1, 3} : Places(w)
  BY KeepPlaces, BreakPlaces
<1>3. CASE n \in 1 .. i - 1
  <2>1. sl[n] = SP
    BY <1>2, <1>3, BreaksStay
  <2>2. \A m \in 1 .. n - 1 : m \in 1 .. i - 1
    BY <1>1, <1>3
  <2>3. \A m \in 1 .. n - 1 : sl'[m] = sl[m]
    BY <1>2, <2>2, BreaksStay
  <2> QED BY <1>3, <2>1, <2>3 DEF WrapInv, BrokenInTime
<1>4. CASE n \notin 1 .. i - 1
  <2>1. CASE Break
    <3>1. i' = i + 3 /\ sl'[i] = CR /\ sl'[i + 1] = LF /\ sl'[i + 2] = TAB
      BY <2>1, BreakPlaces DEF Break
    <3>2. n = i \/ n = i + 1 \/ n = i + 2
      BY <1>1, <1>4, <3>1
    <3>3. sl'[n] # SP
      BY <3>1, <3>2 DEF SP, CR, LF, TAB
    <3> QED BY <3>3
  <2>2. CASE Keep
    <3>1. i' = i + 1 /\ sl' = sl
      BY <2>2 DEF Keep
    <3>2. n = i
      BY <1>1, <1>4, <3>1
    <3> QED BY <2>2, <3>1, <3>2, KeptInTime
  <2> QED BY <2>1, <2>2
<1> QED BY <1>3, <1>4

-----------------------------------------------------------------------------
\* Before the loop nothing is placed.
LEMMA InitWrapInv == Init => WrapInv
<1> SUFFICES ASSUME Init PROVE WrapInv
  OBVIOUS
<1>1. /\ text \in Seq(Octet) /\ sl = text /\ i = 1 /\ length = 0 /\ at = <<>>
      /\ Len(text) \in Nat /\ Len(at) = 0
  BY WrapAssumption DEF Init
<1>2. TypeOK
  BY <1>1 DEF Init, TypeOK
<1>3. PlacedInv /\ LengthInv /\ BrokenInTime
  BY <1>1 DEF PlacedInv, LengthInv, BrokenInTime
<1>4. \A n \in i .. Len(sl) : Len(at) + 1 + n - i = n
  BY <1>1
<1>5. Len(sl) - i = Len(text) - Len(at) - 1
  BY <1>1
<1>6. Unfolds
  BY <1>1, <1>4, <1>5 DEF Unfolds
<1> QED BY <1>2, <1>3, <1>6 DEF WrapInv

\* An iteration keeps the types.
LEMMA StepType ==
    ASSUME WrapInv, Keep \/ Break
    PROVE  TypeOK'
<1>1. PICK w \in {1, 3} : Places(w) /\ i \in 1 .. Len(sl)
  BY KeepPlaces, BreakPlaces
<1>2. at' \in Seq(Nat \ {0})
  BY <1>1, PlacedAt
<1>3. sl' \in Seq(Octet)
  BY KeepPlaces, BreakPlaces DEF WrapInv, TypeOK
<1>4. i' \in Nat \ {0} /\ length' \in Nat /\ text' \in Texts
  BY DEF WrapInv, TypeOK, Keep, Break
<1> QED BY <1>2, <1>3, <1>4 DEF TypeOK

\* Every iteration keeps the invariant.
LEMMA NextWrapInv == WrapInv /\ [Next]_vars => WrapInv'
<1> SUFFICES ASSUME WrapInv, [Next]_vars PROVE WrapInv'
  OBVIOUS
<1>1. CASE Keep \/ Break
  <2>1. PlacedInv' /\ Unfolds'
    <3>1. CASE Keep
      BY <3>1, KeepPlaces, PlacesPlaced, PlacesUnfolds
    <3>2. CASE Break
      BY <3>2, BreakPlaces, PlacesPlaced, PlacesUnfolds
    <3> QED BY <1>1, <3>1, <3>2
  <2> QED BY <1>1, <2>1, StepType, StepLength, StepInTime DEF WrapInv
<1>2. CASE UNCHANGED vars
  <2>1. \A k : Taken(k)' = Taken(k)
    BY <1>2 DEF vars, Taken
  <2>2. Unfolds'
    BY <1>2, <2>1 DEF vars, WrapInv, Unfolds
  <2> QED BY <1>2, <2>2 DEF vars, WrapInv, TypeOK, PlacedInv, LengthInv, BrokenInTime
<1> QED BY <1>1, <1>2 DEF Next

\* WrapInv holds in every iteration, for every header and width.
THEOREM WrapInvariant == Spec => []WrapInv
BY InitWrapInv, NextWrapInv, PTL DEF Spec

\* The slice stays a sequence of octets and the indices stay natural numbers.
THEOREM WrapTypeCorrect == Spec => []TypeOK
<1>1. WrapInv => TypeOK
  BY DEF WrapInv
<1> QED BY <1>1, WrapInvariant, PTL

\* Reading CR LF TAB as a space gives back the header, whatever its length,
\* its own line breaks and the width.
THEOREM FoldingUnfolds == Spec => []Unfolds
<1>1. WrapInv => Unfolds
  BY DEF WrapInv
<1> QED BY <1>1, WrapInvariant, PTL

\* No line is longer than it has to be before a space in it.
THEOREM LinesAreBrokenInTime == Spec => []BrokenInTime
<1>1. WrapInv => BrokenInTime
  BY DEF WrapInv
<1> QED BY <1>1, WrapInvariant, PTL

=============================================================================
