---------------------------- MODULE CodecProofs ----------------------------
(***************************************************************************)
(* What the codec makes of a text, proved for texts of every length: where *)
(* a field ends, what a buffer holds of a datagram that was cut, and what  *)
(* is read when that is written once more.                                 *)
(***************************************************************************)
EXTENDS MessageCodec, TextProofs

\* A delimiter begins at i.
Delimits(s, i) == i \in 1 .. Len(s) - 1 /\ s[i] = "/" /\ s[i + 1] = "?"

\* A text a field can hold and be read again.
Undelimited(s) == \A i : ~Delimits(s, i)

-----------------------------------------------------------------------------
(***************************************************************************)
(* Texts, character by character.                                          *)
(***************************************************************************)

\* A part of a text.
LEMMA PartOfText ==
  ASSUME NEW s \in CharVectors, NEW m \in Int, NEW n \in Int,
         1 <= m, n <= Len(s)
  PROVE  /\ SubSeq(s, m, n) \in CharVectors
         /\ Len(SubSeq(s, m, n)) = IF m <= n THEN n - m + 1 ELSE 0
         /\ \A i \in 1 .. n - m + 1 : SubSeq(s, m, n)[i] = s[m + i - 1]
<1>1. \A i \in m .. n : s[i] \in Characters
  BY TextProperties
<1> QED BY <1>1, SubSeqProperties DEF CharVectors

\* The delimiter is a text of two characters.
LEMMA DelimiterText ==
  /\ messageDelimiter \in CharVectors /\ Len(messageDelimiter) = 2
  /\ messageDelimiter[1] = "/" /\ messageDelimiter[2] = "?"
<1>1. "/" \in Characters /\ "?" \in Characters
  BY DEF Characters
<1> QED BY <1>1 DEF messageDelimiter, CharVectors

\* A field, its delimiter and what follows, character by character.
LEMMA WrittenText ==
  ASSUME NEW f \in CharVectors, NEW z \in CharVectors
  PROVE  /\ Written(f, z) \in CharVectors
         /\ Len(Written(f, z)) = Len(f) + 2 + Len(z)
         /\ \A i \in 1 .. Len(f) : Written(f, z)[i] = f[i]
         /\ Written(f, z)[Len(f) + 1] = "/"
         /\ Written(f, z)[Len(f) + 2] = "?"
         /\ \A i \in 1 .. Len(z) : Written(f, z)[Len(f) + 2 + i] = z[i]
<1>1. Written(f, z) \in CharVectors
  BY DelimiterText DEF Written, CharVectors
<1>2. Len(Written(f, z)) = Len(f) + 2 + Len(z)
  BY DEF Written, CharVectors, messageDelimiter
<1>3. \A i \in 1 .. Len(f) : Written(f, z)[i] = f[i]
  BY DEF Written, CharVectors, messageDelimiter
<1>4. Written(f, z)[Len(f) + 1] = "/" /\ Written(f, z)[Len(f) + 2] = "?"
  BY DEF Written, CharVectors, messageDelimiter
<1>5. \A i \in 1 .. Len(z) : Written(f, z)[Len(f) + 2 + i] = z[i]
  BY DEF Written, CharVectors, messageDelimiter
<1> QED BY <1>1, <1>2, <1>3, <1>4, <1>5

-----------------------------------------------------------------------------
(***************************************************************************)
(* The end of a field.                                                     *)
(***************************************************************************)

\* find yields the first delimiter, if there is one.
LEMMA FirstDelimiter ==
  ASSUME NEW s \in CharVectors
  PROVE  LET at == find(s, messageDelimiter) IN
         \/ at = 0 /\ Undelimited(s)
         \/ Delimits(s, at) /\ \A i : Delimits(s, i) => at <= i
<1> DEFINE I == {i \in 1 .. Len(s) - Len(messageDelimiter) + 1 :
                   SubSeq(s, i, i + Len(messageDelimiter) - 1)
                     = messageDelimiter}
<1>1. Len(s) \in Nat
  BY TextProperties
<1>2. ASSUME NEW i \in 1 .. Len(s) - 1
      PROVE  SubSeq(s, i, i + 1) = messageDelimiter
               <=> s[i] = "/" /\ s[i + 1] = "?"
  <2>1. /\ SubSeq(s, i, i + 1) \in CharVectors
        /\ Len(SubSeq(s, i, i + 1)) = 2
        /\ SubSeq(s, i, i + 1)[1] = s[i]
        /\ SubSeq(s, i, i + 1)[2] = s[i + 1]
    <3>1. /\ SubSeq(s, i, i + 1) \in CharVectors
          /\ Len(SubSeq(s, i, i + 1)) = i + 1 - i + 1
          /\ \A j \in 1 .. i + 1 - i + 1 :
               SubSeq(s, i, i + 1)[j] = s[i + j - 1]
      BY <1>1, PartOfText
    <3>2. i + 1 - i + 1 = 2 /\ i + 1 - 1 = i /\ i + 2 - 1 = i + 1
      OBVIOUS
    <3> QED BY <3>1, <3>2
  <2>2. CASE SubSeq(s, i, i + 1) = messageDelimiter
    BY <2>1, <2>2, DelimiterText
  <2>3. CASE s[i] = "/" /\ s[i + 1] = "?"
    <3>1. \A j \in 1 .. 2 : SubSeq(s, i, i + 1)[j] = messageDelimiter[j]
      BY <2>1, <2>3, DelimiterText
    <3> QED BY <2>1, <3>1, DelimiterText, SameText
  <2> QED BY <2>2, <2>3
<1>3. \A i : i \in I <=> Delimits(s, i)
  <2>1. 1 .. Len(s) - Len(messageDelimiter) + 1 = 1 .. Len(s) - 1
    BY <1>1, DelimiterText
  <2>2. ASSUME NEW i \in 1 .. Len(s) - 1
        PROVE  i \in I <=> SubSeq(s, i, i + 1) = messageDelimiter
    <3>1. i + Len(messageDelimiter) - 1 = i + 1
      BY DelimiterText
    <3> QED BY <2>1, <3>1
  <2>3. \A i : i \in I => i \in 1 .. Len(s) - 1
    BY <2>1
  <2> HIDE DEF I
  <2> QED BY <1>2, <2>2, <2>3 DEF Delimits
<1>4. find(s, messageDelimiter) = FirstOf(I)
  BY DEF find
<1>5. I \in SUBSET (Nat \ {0})
  BY <1>1, <1>3 DEF Delimits
<1> HIDE DEF I
<1>6. CASE I = {}
  BY <1>3, <1>4, <1>6 DEF FirstOf, Undelimited
<1>7. CASE I # {}
  <2>1. FirstOf(I) \in I /\ \A j \in I : FirstOf(I) <= j
    BY <1>5, <1>7, FirstIsLeast
  <2> QED BY <1>3, <1>4, <2>1
<1> QED BY <1>6, <1>7

\* A field that ends at a delimiter contains none; what follows is the rest.
LEMMA FieldFound ==
  ASSUME NEW s \in CharVectors, ~Undelimited(s)
  PROVE  LET f == Field(s) IN
         /\ f \in CharVectors /\ Undelimited(f)
         /\ Len(f) + 2 <= Len(s)
         /\ \A i \in 1 .. Len(f) : f[i] = s[i]
         /\ s[Len(f) + 1] = "/" /\ s[Len(f) + 2] = "?"
         /\ AfterField(s) \in CharVectors
         /\ Len(AfterField(s)) = Len(s) - (Len(f) + 2)
         /\ \A i \in 1 .. Len(s) - (Len(f) + 2) :
              AfterField(s)[i] = s[Len(f) + 2 + i]
<1>1. PICK at : /\ at = find(s, messageDelimiter)
                /\ Delimits(s, at) /\ \A i : Delimits(s, i) => at <= i
  BY FirstDelimiter
<1>2. /\ Len(s) \in Nat /\ at \in 1 .. Len(s) - 1
      /\ s[at] = "/" /\ s[at + 1] = "?"
  BY <1>1, TextProperties DEF Delimits
<1>3. /\ Field(s) = SubSeq(s, 1, at - 1)
      /\ AfterField(s) = SubSeq(s, at + 2, Len(s))
  <2>1. at + 1 + 1 = at + 2 /\ at # 0
    BY <1>2
  <2>2. AfterField(s) = SubSeq(s, at + 1 + 1, Len(s))
    BY <1>1, <2>1 DEF AfterField, Without
  <2> QED BY <1>1, <2>1, <2>2 DEF Field
<1>4. /\ Field(s) \in CharVectors
      /\ Len(Field(s)) = at - 1
      /\ \A i \in 1 .. at - 1 : Field(s)[i] = s[i]
  BY <1>2, <1>3 DEF CharVectors
<1>5. /\ AfterField(s) \in CharVectors
      /\ Len(AfterField(s)) = Len(s) - (at + 1)
      /\ \A i \in 1 .. Len(s) - (at + 1) : AfterField(s)[i] = s[at + 1 + i]
  BY <1>2, <1>3 DEF CharVectors
<1>6. Undelimited(Field(s))
  <2> SUFFICES ASSUME NEW i, Delimits(Field(s), i) PROVE FALSE
    BY DEF Undelimited
  <2>1. i \in 1 .. at - 2 /\ i + 1 \in 1 .. at - 1 /\ i \in 1 .. at - 1
    BY <1>2, <1>4 DEF Delimits
  <2>2. Delimits(s, i)
    BY <1>2, <1>4, <2>1 DEF Delimits
  <2> QED BY <1>1, <1>2, <2>1, <2>2
<1>7. at - 1 + 2 = at + 1 /\ at - 1 + 1 = at
  BY <1>2
<1> QED BY <1>2, <1>4, <1>5, <1>6, <1>7

\* Without a delimiter the field is all there is; then one character goes.
LEMMA FieldMissing ==
  ASSUME NEW s \in CharVectors, Undelimited(s)
  PROVE  /\ Field(s) = s
         /\ AfterField(s) = Without(s, 1)
         /\ AfterField(s) \in CharVectors
<1>1. find(s, messageDelimiter) = 0
  BY FirstDelimiter DEF Undelimited
<1>2. Field(s) = s /\ AfterField(s) = Without(s, 1)
  BY <1>1 DEF Field, AfterField
<1>3. Without(s, 1) \in CharVectors
  BY DEF Without, CharVectors
<1> QED BY <1>2, <1>3

\* A text is determined by its first delimiter.
LEMMA FieldIs ==
  ASSUME NEW s \in CharVectors, NEW f \in CharVectors, Undelimited(f),
         Len(f) + 2 <= Len(s),
         \A i \in 1 .. Len(f) : s[i] = f[i],
         s[Len(f) + 1] = "/", s[Len(f) + 2] = "?"
  PROVE  /\ Field(s) = f
         /\ ~Undelimited(s)
<1>1. Len(s) \in Nat /\ Len(f) \in Nat
  BY TextProperties
<1>2. Delimits(s, Len(f) + 1)
  BY <1>1 DEF Delimits
<1>3. PICK at : /\ at = find(s, messageDelimiter)
                /\ Delimits(s, at) /\ \A i : Delimits(s, i) => at <= i
  <2>1. ~Undelimited(s)
    BY <1>2 DEF Undelimited
  <2> QED BY <2>1, FirstDelimiter
<1>4. at \in Nat \ {0} /\ at <= Len(f) + 1
  <2>1. at \in Nat \ {0}
    BY <1>1, <1>3 DEF Delimits
  <2>2. at <= Len(f) + 1
    BY <1>2, <1>3
  <2> QED BY <2>1, <2>2
<1>5. at > Len(f)
  <2> SUFFICES ASSUME at <= Len(f) PROVE FALSE
    BY <1>1, <1>4
  <2>1. at \in 1 .. Len(f) /\ s[at] = "/" /\ s[at + 1] = "?"
    BY <1>1, <1>3, <1>4 DEF Delimits
  <2>2. CASE at = Len(f)
    BY <1>1, <2>1, <2>2
  <2>3. CASE at # Len(f)
    <3>1. at \in 1 .. Len(f) - 1 /\ at + 1 \in 1 .. Len(f)
      BY <1>1, <2>1, <2>3
    <3>2. Delimits(f, at)
      BY <2>1, <3>1 DEF Delimits
    <3> QED BY <3>2 DEF Undelimited
  <2> QED BY <2>2, <2>3
<1>6. find(s, messageDelimiter) = Len(f) + 1
  BY <1>1, <1>3, <1>4, <1>5
<1>7. Field(s) = SubSeq(s, 1, Len(f))
  <2>1. Len(f) + 1 # 0 /\ Len(f) + 1 - 1 = Len(f)
    BY <1>1
  <2> QED BY <1>6, <2>1 DEF Field
<1>8. Field(s) = f
  BY <1>1, <1>7 DEF CharVectors
<1> QED BY <1>2, <1>8 DEF Undelimited

-----------------------------------------------------------------------------
(***************************************************************************)
(* What a buffer of n characters has of a text.                            *)
(***************************************************************************)
Cut(t, n) == SubSeq(t \o [i \in 1 .. n |-> "NUL"], 1, n)

\* What a receive_from leaves in the buffer.
LEMMA ReceivedIsCut == \A t : Received(t) = Cut(t, BufferLength)
  BY DEF Received, Cut

\* The buffer is full: of the text, and of zeroes where there is no more.
LEMMA CutText ==
  ASSUME NEW t \in CharVectors, NEW n \in Nat
  PROVE  /\ Cut(t, n) \in CharVectors
         /\ Len(Cut(t, n)) = n
         /\ \A i \in 1 .. n :
              Cut(t, n)[i] = IF i <= Len(t) THEN t[i] ELSE "NUL"
<1> DEFINE z == [i \in 1 .. n |-> "NUL"]
<1>1. z \in CharVectors /\ Len(z) = n /\ \A i \in 1 .. n : z[i] = "NUL"
  <2>1. "NUL" \in Characters
    BY DEF Characters
  <2>2. z \in [1 .. n -> Characters]
    BY <2>1
  <2> QED BY <2>2 DEF CharVectors
<1> HIDE DEF z
<1>2. /\ t \o z \in CharVectors /\ Len(t \o z) = Len(t) + n
      /\ \A i \in 1 .. Len(t) + n :
           (t \o z)[i] = IF i <= Len(t) THEN t[i] ELSE z[i - Len(t)]
  BY <1>1, ConcatProperties DEF CharVectors
<1>3. Len(t) \in Nat
  BY TextProperties
<1>4. Cut(t, n) = SubSeq(t \o z, 1, n)
  BY DEF Cut, z
<1>5. /\ Cut(t, n) \in CharVectors
      /\ Len(Cut(t, n)) = n
      /\ \A i \in 1 .. n : Cut(t, n)[i] = (t \o z)[i]
  BY <1>2, <1>3, <1>4 DEF CharVectors
<1>6. ASSUME NEW i \in 1 .. n
      PROVE  (t \o z)[i] = IF i <= Len(t) THEN t[i] ELSE "NUL"
  BY <1>1, <1>2, <1>3
<1> QED BY <1>5, <1>6

\* A field that fits with its delimiter is read as it was written, and the rest
\* of the buffer has what follows.
LEMMA FieldOfCut ==
  ASSUME NEW f \in CharVectors, Undelimited(f), NEW z \in CharVectors,
         NEW n \in Nat, Len(f) + 2 <= n
  PROVE  /\ Field(Cut(Written(f, z), n)) = f
         /\ AfterField(Cut(Written(f, z), n)) = Cut(z, n - (Len(f) + 2))
<1> DEFINE w == Written(f, z)
           s == Cut(w, n)
           k == Len(f) + 2
<1>1. Len(f) \in Nat /\ Len(z) \in Nat /\ k \in Nat /\ n - k \in Nat
  BY TextProperties
<1>2. /\ w \in CharVectors /\ Len(w) = k + Len(z)
      /\ \A i \in 1 .. Len(f) : w[i] = f[i]
      /\ w[Len(f) + 1] = "/" /\ w[Len(f) + 2] = "?"
      /\ \A i \in 1 .. Len(z) : w[k + i] = z[i]
  BY WrittenText
<1> HIDE DEF w
<1>3. /\ s \in CharVectors /\ Len(s) = n
      /\ \A i \in 1 .. n : s[i] = IF i <= Len(w) THEN w[i] ELSE "NUL"
  BY <1>2, CutText
<1> HIDE DEF s
<1>4. /\ \A i \in 1 .. Len(f) : s[i] = f[i]
      /\ s[Len(f) + 1] = "/" /\ s[Len(f) + 2] = "?"
  BY <1>1, <1>2, <1>3
<1>5. Field(s) = f /\ ~Undelimited(s)
  BY <1>3, <1>4, FieldIs
<1>6. /\ AfterField(s) \in CharVectors
      /\ Len(AfterField(s)) = n - k
      /\ \A i \in 1 .. n - k : AfterField(s)[i] = s[k + i]
  BY <1>3, <1>5, FieldFound
<1>7. /\ Cut(z, n - k) \in CharVectors
      /\ Len(Cut(z, n - k)) = n - k
      /\ \A i \in 1 .. n - k :
           Cut(z, n - k)[i] = IF i <= Len(z) THEN z[i] ELSE "NUL"
  BY <1>1, CutText
<1>8. ASSUME NEW i \in 1 .. n - k
      PROVE  AfterField(s)[i] = Cut(z, n - k)[i]
  <2>1. k + i \in 1 .. n /\ (k + i <= Len(w) <=> i <= Len(z))
    BY <1>1, <1>2
  <2>2. s[k + i] = IF i <= Len(z) THEN w[k + i] ELSE "NUL"
    BY <1>3, <2>1
  <2>3. i <= Len(z) => w[k + i] = z[i]
    BY <1>1, <1>2
  <2> QED BY <1>6, <1>7, <2>2, <2>3
<1>9. AfterField(s) = Cut(z, n - k)
  BY <1>6, <1>7, <1>8, SameText
<1> QED BY <1>5, <1>9 DEF s, w

\* A text that fills the buffer is not followed by anything.
LEMMA CutWhole ==
  ASSUME NEW f \in CharVectors, NEW z \in CharVectors
  PROVE  Cut(Written(f, z), Len(f)) = f
<1> DEFINE w == Written(f, z)
           n == Len(f)
<1>1. n \in Nat /\ Len(z) \in Nat
  BY TextProperties
<1>2. /\ w \in CharVectors /\ Len(w) = n + 2 + Len(z)
      /\ \A i \in 1 .. n : w[i] = f[i]
  BY WrittenText
<1> HIDE DEF w, n
<1>3. /\ Cut(w, n) \in CharVectors /\ Len(Cut(w, n)) = n
      /\ \A i \in 1 .. n :
           Cut(w, n)[i] = IF i <= Len(w) THEN w[i] ELSE "NUL"
  BY <1>1, <1>2, CutText
<1>4. \A i \in 1 .. n : Cut(w, n)[i] = f[i]
  BY <1>1, <1>2, <1>3
<1>5. Len(f) = n
  BY DEF n
<1>6. Cut(w, n) = f
  BY <1>3, <1>4, <1>5, SameText
<1> QED BY <1>6 DEF w, n

\* Whatever a buffer s holds: when its first field is written again, followed
\* by any text, as much as the buffer has room for reads the same.  Either the
\* rest of the buffer has what now follows, or nothing has changed at all.
LEMMA FieldAgain ==
  ASSUME NEW s \in CharVectors, NEW z \in CharVectors
  PROVE  LET again == Cut(Written(Field(s), z), Len(s)) IN
         /\ Field(again) = Field(s)
         /\ \/ again = s
            \/ AfterField(again) = Cut(z, Len(AfterField(s)))
<1>1. CASE Undelimited(s)
  BY <1>1, FieldMissing, CutWhole
<1>2. CASE ~Undelimited(s)
  <2>1. /\ Field(s) \in CharVectors /\ Undelimited(Field(s))
        /\ Len(Field(s)) + 2 <= Len(s)
        /\ Len(AfterField(s)) = Len(s) - (Len(Field(s)) + 2)
    BY <1>2, FieldFound
  <2>2. Len(s) \in Nat
    BY TextProperties
  <2> QED BY <2>1, <2>2, FieldOfCut
<1> QED BY <1>1, <1>2

\* The fields three to five as a server reads them, and reads them after they
\* were written again: they are the same.
LEMMA FieldsAgain ==
  ASSUME NEW s \in CharVectors, NEW z \in CharVectors
  PROVE  LET fourth == AfterField(s)
             fifth == AfterField(fourth)
             again == Cut(Written(Field(s), Written(Field(fourth),
                                    Written(Field(fifth), z))), Len(s))
         IN /\ Field(again) = Field(s)
            /\ Field(AfterField(again)) = Field(fourth)
            /\ Field(AfterField(AfterField(again))) = Field(fifth)
<1> DEFINE fourth == AfterField(s)
           fifth == AfterField(fourth)
           third2 == Written(Field(fifth), z)
           second2 == Written(Field(fourth), third2)
           again == Cut(Written(Field(s), second2), Len(s))
<1>1. \A x \in CharVectors : /\ Field(x) \in CharVectors
                              /\ AfterField(x) \in CharVectors
  BY FieldFound, FieldMissing
<1>2. fourth \in CharVectors /\ fifth \in CharVectors
  BY <1>1
<1>3. third2 \in CharVectors /\ second2 \in CharVectors
  BY <1>1, <1>2, WrittenText
<1>4. Field(again) = Field(s)
  BY <1>3, FieldAgain
<1>5. CASE again = s
  BY <1>5
<1>6. CASE AfterField(again) = Cut(second2, Len(fourth))
  <2>1. /\ Field(AfterField(again)) = Field(fourth)
        /\ \/ AfterField(again) = fourth
           \/ AfterField(AfterField(again)) = Cut(third2, Len(fifth))
    BY <1>2, <1>3, <1>6, FieldAgain
  <2>2. Field(Cut(third2, Len(fifth))) = Field(fifth)
    BY <1>2, FieldAgain
  <2> QED BY <1>4, <2>1, <2>2
<1>7. again = s \/ AfterField(again) = Cut(second2, Len(fourth))
  BY <1>3, FieldAgain
<1> QED BY <1>4, <1>5, <1>6, <1>7

\* A field that does not fit is read to the end of the buffer, which may hold
\* half a delimiter, and the first character is what goes.
LEMMA FieldTooLong ==
  ASSUME NEW f \in CharVectors, Undelimited(f), NEW z \in CharVectors,
         NEW n \in Nat, n < Len(f) + 2
  PROVE  LET s == Cut(Written(f, z), n) IN
         /\ s \in CharVectors /\ Len(s) = n
         /\ \A i \in 1 .. n : s[i] = IF i <= Len(f) THEN f[i] ELSE "/"
         /\ Undelimited(s) /\ Field(s) = s /\ AfterField(s) = Without(s, 1)
<1> DEFINE w == Written(f, z)
           s == Cut(w, n)
<1>1. Len(f) \in Nat /\ Len(z) \in Nat
  BY TextProperties
<1>2. /\ w \in CharVectors /\ Len(w) = Len(f) + 2 + Len(z)
      /\ \A i \in 1 .. Len(f) : w[i] = f[i]
      /\ w[Len(f) + 1] = "/"
  BY WrittenText
<1> HIDE DEF w
<1>3. /\ s \in CharVectors /\ Len(s) = n
      /\ \A i \in 1 .. n : s[i] = IF i <= Len(w) THEN w[i] ELSE "NUL"
  BY <1>2, CutText
<1> HIDE DEF s
<1>4. ASSUME NEW i \in 1 .. n
      PROVE  s[i] = IF i <= Len(f) THEN f[i] ELSE "/"
  <2>1. i \in 1 .. Len(f) \/ i = Len(f) + 1
    BY <1>1
  <2>2. i <= Len(w) /\ s[i] = w[i]
    BY <1>1, <1>2, <1>3, <2>1
  <2> QED BY <1>1, <1>2, <2>1, <2>2
<1>5. Undelimited(s)
  <2> SUFFICES ASSUME NEW i, Delimits(s, i) PROVE FALSE
    BY DEF Undelimited
  <2>1. /\ i \in 1 .. n /\ i + 1 \in 1 .. n
        /\ s[i] = "/" /\ s[i + 1] = "?"
    BY <1>3 DEF Delimits
  <2>2. i + 1 <= Len(f)
    BY <1>4, <2>1
  <2>3. i \in 1 .. Len(f) - 1 /\ i <= Len(f)
    BY <1>1, <2>1, <2>2
  <2>4. s[i] = f[i] /\ s[i + 1] = f[i + 1]
    BY <1>4, <2>1, <2>2, <2>3
  <2> QED BY <2>1, <2>3, <2>4 DEF Undelimited, Delimits
<1>6. Field(s) = s /\ AfterField(s) = Without(s, 1)
  BY <1>3, <1>5, FieldMissing
<1> QED BY <1>3, <1>4, <1>5, <1>6 DEF s, w

-----------------------------------------------------------------------------
(***************************************************************************)
(* Messages.                                                               *)
(***************************************************************************)
Types == DOMAIN viewMessageTypeAsString

\* The word of each type is read as that type.
LEMMA Words ==
  ASSUME NEW type \in Types
  PROVE  LET word == viewMessageTypeAsString[type] IN
         /\ word \in CharVectors /\ Len(word) = 1
         /\ Undelimited(word)
         /\ stringToMessageType(word) = type
<1> DEFINE word == viewMessageTypeAsString[type]
<1>1. Types = {"mt_CLIENT_SEND", "mt_SERVER_SEND", "mt_SERVER_SYNC"}
  BY DEF Types, viewMessageTypeAsString
<1>2. /\ viewMessageTypeAsString["mt_CLIENT_SEND"] = <<"C">>
      /\ viewMessageTypeAsString["mt_SERVER_SEND"] = <<"S">>
      /\ viewMessageTypeAsString["mt_SERVER_SYNC"] = <<"Y">>
  BY DEF viewMessageTypeAsString
<1>3. /\ <<"C">> \in CharVectors /\ <<"S">> \in CharVectors
      /\ <<"Y">> \in CharVectors
  BY DEF CharVectors, Characters
<1>4. /\ Len(<<"C">>) = 1 /\ Len(<<"S">>) = 1 /\ Len(<<"Y">>) = 1
      /\ <<"C">>[1] = "C" /\ <<"S">>[1] = "S" /\ <<"Y">>[1] = "Y"
  OBVIOUS
<1>5. word \in CharVectors /\ Len(word) = 1
  BY <1>1, <1>2, <1>3, <1>4
<1>6. ASSUME NEW other \in Types, viewMessageTypeAsString[other] = word
      PROVE  other = type
  <2>1. viewMessageTypeAsString[other][1] = viewMessageTypeAsString[type][1]
    BY <1>6
  <2>2. /\ viewMessageTypeAsString["mt_CLIENT_SEND"][1] = "C"
        /\ viewMessageTypeAsString["mt_SERVER_SEND"][1] = "S"
        /\ viewMessageTypeAsString["mt_SERVER_SYNC"][1] = "Y"
    BY <1>2, <1>4
  <2> HIDE DEF Types
  <2> QED BY <1>1, <2>1, <2>2
<1>7. stringToMessageType(word) = type
  BY <1>6 DEF stringToMessageType, Types
<1>8. Undelimited(word)
  BY <1>5 DEF Undelimited, Delimits
<1> QED BY <1>5, <1>7, <1>8

\* A number is a field that can be read again.
LEMMA NumberUndelimited ==
  ASSUME NEW n \in Nat
  PROVE  Undelimited(decimal[n])
<1>1. \A i \in 1 .. Len(decimal[n]) : decimal[n][i] \in Digits
  BY NumberText
<1>2. Len(decimal[n]) \in Nat
  BY NumberText
<1>3. \A i \in 1 .. Len(decimal[n]) : decimal[n][i] # "/"
  BY <1>1, DigitsAreOwn
<1> QED BY <1>2, <1>3 DEF Undelimited, Delimits

\* What a number takes, with a type and the two delimiters.
Room(n) == Len(to_string(n)) + 5

\* The number and the type, if there is room for them, are read as they were
\* written.
LEMMA NumberAndTypeRead ==
  ASSUME NEW q \in Nat, NEW type \in Types, NEW z \in CharVectors,
         NEW n \in Nat, Room(q) <= n
  PROVE  LET s == Cut(Written(to_string(q),
                              Written(viewMessageTypeAsString[type], z)), n)
         IN /\ stoi(Field(s)) = {q}
            /\ stringToMessageType(Field(AfterField(s))) = type
            /\ AfterField(AfterField(s)) = Cut(z, n - Room(q))
<1> DEFINE f == to_string(q)
           word == viewMessageTypeAsString[type]
           rest == Written(word, z)
           s == Cut(Written(f, rest), n)
<1>1. /\ f \in CharVectors /\ Undelimited(f) /\ Len(f) \in Nat
      /\ stoi(f) = {q}
  <2>1. f = decimal[q] /\ stoi(decimal[q]) = {q}
    BY NumberText
  <2>2. f \in CharVectors /\ Undelimited(decimal[q])
    BY NumberText, NumberUndelimited
  <2>3. Len(f) \in Nat
    BY <2>2, TextProperties
  <2> HIDE DEF f
  <2> QED BY <2>1, <2>2, <2>3
<1>2. /\ word \in CharVectors /\ Len(word) = 1
      /\ Undelimited(word) /\ stringToMessageType(word) = type
  BY Words
<1> HIDE DEF f, word, Room
<1>3. rest \in CharVectors
  BY <1>2, WrittenText
<1>4. /\ Field(s) = f
      /\ AfterField(s) = Cut(rest, n - (Len(f) + 2))
  <2>1. Len(f) + 2 <= n
    BY <1>1 DEF f, Room
  <2> HIDE DEF rest
  <2> QED BY <1>1, <1>3, <2>1, FieldOfCut
<1>5. /\ Field(AfterField(s)) = word
      /\ AfterField(AfterField(s)) = Cut(z, n - (Len(f) + 5))
  <2> DEFINE m == n - (Len(f) + 2)
  <2>1. m \in Nat /\ Len(word) + 2 <= m
        /\ m - (Len(word) + 2) = n - (Len(f) + 5)
    BY <1>1, <1>2 DEF f, Room
  <2> HIDE DEF m
  <2>2. /\ Field(Cut(rest, m)) = word
        /\ AfterField(Cut(rest, m)) = Cut(z, m - (Len(word) + 2))
    BY <1>2, <2>1, FieldOfCut
  <2>3. AfterField(s) = Cut(rest, m)
    BY <1>4 DEF m
  <2> HIDE DEF s, rest
  <2> QED BY <2>1, <2>2, <2>3
<1> QED BY <1>1, <1>2, <1>4, <1>5 DEF f, word, Room

Messages ==
  [sequence : Int, type : Types, source : CharVectors,
   destination : CharVectors, payload : CharVectors, origin : Int]

\* The fields from the source on.
Body(m) ==
  Written(m.source, Written(m.destination,
    Written(m.payload, Written(to_string(m.origin), <<>>))))

\* The fields a receiver of a chat message reads, apart from the type.
SameChat(m, n) ==
  /\ m.sequence = n.sequence /\ m.source = n.source
  /\ m.destination = n.destination /\ m.payload = n.payload

\* There is room for the number and the type.
NumberFits(m) ==
  m.sequence \in Nat /\ Room(m.sequence) <= BufferLength

\* What a buffer holds from the source on.
BodyRead(m) == Cut(Body(m), BufferLength - Room(m.sequence))

\* What follows a field is a text, too.
LEMMA FieldText ==
  ASSUME NEW s \in CharVectors
  PROVE  Field(s) \in CharVectors /\ AfterField(s) \in CharVectors
  BY FieldFound, FieldMissing

\* A message is written as its number, its type and what is from the source on.
LEMMA MessageText ==
  ASSUME NEW m \in Messages
  PROVE  /\ Body(m) \in CharVectors
         /\ asCharVector(m) = Written(to_string(m.sequence),
              Written(viewMessageTypeAsString[m.type], Body(m)))
<1>1. /\ m.source \in CharVectors /\ m.destination \in CharVectors
      /\ m.payload \in CharVectors /\ m.origin \in Int
  BY DEF Messages
<1>2. <<>> \in CharVectors
  BY DEF CharVectors
<1>3. to_string(m.origin) \in CharVectors
  BY <1>1, NumberText
<1>4. Written(to_string(m.origin), <<>>) \in CharVectors
  BY <1>2, <1>3, WrittenText
<1>5. Written(m.payload, Written(to_string(m.origin), <<>>)) \in CharVectors
  BY <1>1, <1>4, WrittenText
<1>6. Written(m.destination, Written(m.payload,
        Written(to_string(m.origin), <<>>))) \in CharVectors
  BY <1>1, <1>5, WrittenText
<1>7. Body(m) \in CharVectors
  BY <1>1, <1>6, WrittenText DEF Body
<1>8. asCharVector(m) = Written(to_string(m.sequence),
              Written(viewMessageTypeAsString[m.type], Body(m)))
  BY DEF asCharVector, Fields, Body
<1> QED BY <1>7, <1>8

\* What is read of a message whose number and type fit.
LEMMA MessageRead ==
  ASSUME NEW m \in Messages, NumberFits(m),
         NEW r \in decode(Received(asCharVector(m)))
  PROVE  LET s == BodyRead(m) IN
         /\ s \in CharVectors
         /\ Len(s) = BufferLength - Room(m.sequence)
         /\ r \in Messages
         /\ r.sequence = m.sequence /\ r.type = m.type
         /\ r.source = Field(s)
         /\ r.destination = Field(AfterField(s))
         /\ r.payload = Field(AfterField(AfterField(s)))
         /\ r.origin \in Origin(Field(AfterField(AfterField(AfterField(s)))))
<1> DEFINE chars == Received(asCharVector(m))
           k == Room(m.sequence)
           s == BodyRead(m)
           third == AfterField(AfterField(chars))
           sixth == AfterField(AfterField(AfterField(third)))
<1>1. m.sequence \in Nat /\ k <= BufferLength
  BY DEF NumberFits
<1>2. /\ BufferLength \in Nat /\ k \in Nat /\ BufferLength - k \in Nat
  <2>1. to_string(m.sequence) \in CharVectors
    BY <1>1, NumberText
  <2>2. Len(to_string(m.sequence)) \in Nat
    BY <2>1, TextProperties
  <2> QED BY <1>1, <2>2, CodecAssumption DEF Room
<1>3. m.type \in Types
  BY DEF Messages
<1>4. /\ stoi(Field(chars)) = {m.sequence}
      /\ stringToMessageType(Field(AfterField(chars))) = m.type
      /\ third = s
  <2>1. chars = Cut(Written(to_string(m.sequence),
              Written(viewMessageTypeAsString[m.type], Body(m))), BufferLength)
    BY MessageText, ReceivedIsCut
  <2>2. Body(m) \in CharVectors
    BY MessageText
  <2>3. ASSUME NEW q \in Nat, q = m.sequence,
               NEW type \in Types, type = m.type,
               NEW z \in CharVectors, z = Body(m),
               NEW n \in Nat, n = BufferLength
        PROVE  /\ stoi(Field(chars)) = {q}
               /\ stringToMessageType(Field(AfterField(chars))) = type
               /\ AfterField(AfterField(chars)) = Cut(z, n - k)
    <3>1. chars = Cut(Written(to_string(q),
                        Written(viewMessageTypeAsString[type], z)), n)
      BY <2>1, <2>3
    <3>2. k = Room(q) /\ k <= n
      BY <1>1, <2>3
    <3> HIDE DEF chars, k
    <3> QED BY <1>2, <3>1, <3>2, NumberAndTypeRead
  <2>4. s = Cut(Body(m), BufferLength - k)
    BY DEF BodyRead
  <2> HIDE DEF chars, k, s
  <2> QED BY <1>1, <1>2, <1>3, <2>2, <2>3, <2>4
<1>5. s \in CharVectors /\ Len(s) = BufferLength - k
  BY <1>2, MessageText, CutText DEF BodyRead
<1>6. PICK q \in stoi(Field(chars)), origin \in Origin(Field(sixth)) :
        r = message(q, stringToMessageType(Field(AfterField(chars))),
                    Field(third), Field(AfterField(third)),
                    Field(AfterField(AfterField(third))), origin)
  <2> HIDE DEF chars
  <2> QED BY DEF decode, chars
<1> HIDE DEF chars, k, s
<1>7. r = [sequence |-> m.sequence, type |-> m.type, source |-> Field(s),
           destination |-> Field(AfterField(s)),
           payload |-> Field(AfterField(AfterField(s))), origin |-> origin]
  BY <1>4, <1>6 DEF message
<1>8. origin \in Int
  <2>1. Field(sixth) \in CharVectors
    BY <1>4, <1>5, FieldText
  <2>2. stoi(Field(sixth)) \in SUBSET Int
    BY <2>1, StoiReadsIntegers
  <2>3. \A i \in Int : int8(i) \in Int
    BY DEF int8
  <2> QED BY <2>2, <2>3 DEF Origin
<1>9. r \in Messages
  <2>1. /\ Field(s) \in CharVectors /\ Field(AfterField(s)) \in CharVectors
        /\ Field(AfterField(AfterField(s))) \in CharVectors
    BY <1>5, FieldText
  <2>2. m.sequence \in Int
    BY <1>1
  <2> QED BY <1>3, <1>7, <1>8, <2>1, <2>2 DEF Messages
<1>10. origin \in Origin(Field(AfterField(AfterField(AfterField(s)))))
  BY <1>4, <1>6
<1> QED BY <1>5, <1>7, <1>9, <1>10 DEF s, k

\* The fields of a chat message as one server reads them: whoever reads them
\* after they were written again, reads the same (dataMessage.cpp:52-79 and
\* 313-326).
THEOREM MessageAgain ==
  ASSUME NEW m \in Messages, NumberFits(m),
         NEW first \in decode(Received(asCharVector(m))),
         NEW n \in Messages, SameChat(n, first),
         NEW r \in decode(Received(asCharVector(n)))
  PROVE  r \in Messages /\ r.type = n.type /\ SameChat(r, first)
<1> DEFINE s == BodyRead(m)
           z == Written(to_string(n.origin), <<>>)
           again == BodyRead(n)
<1>1. /\ s \in CharVectors
      /\ Len(s) = BufferLength - Room(m.sequence)
      /\ first.sequence = m.sequence
      /\ first.source = Field(s)
      /\ first.destination = Field(AfterField(s))
      /\ first.payload = Field(AfterField(AfterField(s)))
  BY MessageRead
<1>2. /\ n.sequence = m.sequence /\ n.source = Field(s)
      /\ n.destination = Field(AfterField(s))
      /\ n.payload = Field(AfterField(AfterField(s)))
  BY <1>1 DEF SameChat
<1>3. NumberFits(n)
  BY <1>2 DEF NumberFits
<1>4. z \in CharVectors
  <2>1. n.origin \in Int /\ <<>> \in CharVectors
    BY DEF Messages, CharVectors
  <2>2. to_string(n.origin) \in CharVectors
    BY <2>1, NumberText
  <2> QED BY <2>1, <2>2, WrittenText
<1>5. again = Cut(Written(Field(s), Written(Field(AfterField(s)),
                    Written(Field(AfterField(AfterField(s))), z))), Len(s))
  BY <1>1, <1>2 DEF BodyRead, Body
<1>6. /\ r \in Messages /\ r.sequence = n.sequence /\ r.type = n.type
      /\ r.source = Field(again)
      /\ r.destination = Field(AfterField(again))
      /\ r.payload = Field(AfterField(AfterField(again)))
  BY <1>3, MessageRead
<1> HIDE DEF s, z, again
<1>7. /\ Field(again) = Field(s)
      /\ Field(AfterField(again)) = Field(AfterField(s))
      /\ Field(AfterField(AfterField(again)))
           = Field(AfterField(AfterField(s)))
  BY <1>1, <1>4, <1>5, FieldsAgain
<1> QED BY <1>1, <1>2, <1>6, <1>7 DEF SameChat

\* What a buffer has left for the payload and what follows.
PayloadRoom(m) ==
  BufferLength - Room(m.sequence) - (Len(m.source) + 2)
    - (Len(m.destination) + 2)

\* The header of a message fits, and its fields can be read again.
Readable(m) ==
  /\ m \in Messages /\ NumberFits(m)
  /\ PayloadRoom(m) \in Nat
  /\ Undelimited(m.source) /\ Undelimited(m.destination)
  /\ Undelimited(m.payload)

\* The payload and what follows.
PayloadText(m) == Written(m.payload, Written(to_string(m.origin), <<>>))

PayloadRead(m) == Cut(PayloadText(m), PayloadRoom(m))

\* The last field, and the payload with it, are texts.
LEMMA PayloadIsText ==
  ASSUME NEW m \in Messages
  PROVE  /\ m.payload \in CharVectors
         /\ Written(to_string(m.origin), <<>>) \in CharVectors
         /\ PayloadText(m) \in CharVectors
<1>1. m.payload \in CharVectors /\ m.origin \in Int
  BY DEF Messages
<1>2. to_string(m.origin) \in CharVectors
  BY <1>1, NumberText
<1>3. <<>> \in CharVectors
  BY DEF CharVectors
<1>4. Written(to_string(m.origin), <<>>) \in CharVectors
  BY <1>2, <1>3, WrittenText
<1> QED BY <1>1, <1>4, WrittenText DEF PayloadText

\* Source and destination are read as they were written.
LEMMA HeaderRead ==
  ASSUME NEW m, Readable(m), NEW r \in decode(Received(asCharVector(m)))
  PROVE  /\ r \in Messages
         /\ r.sequence = m.sequence /\ r.type = m.type
         /\ r.source = m.source /\ r.destination = m.destination
         /\ r.payload = Field(PayloadRead(m))
         /\ r.origin \in Origin(Field(AfterField(PayloadRead(m))))
<1> DEFINE z == PayloadText(m)
           y == Written(m.destination, z)
           s == BodyRead(m)
           k == BufferLength - Room(m.sequence)
           j == k - (Len(m.source) + 2)
<1>1. m \in Messages /\ NumberFits(m) /\ PayloadRoom(m) \in Nat
  BY DEF Readable
<1>2. /\ m.source \in CharVectors /\ m.destination \in CharVectors
      /\ m.payload \in CharVectors /\ m.origin \in Int
      /\ Len(m.source) \in Nat /\ Len(m.destination) \in Nat
  <2>1. /\ m.source \in CharVectors /\ m.destination \in CharVectors
        /\ m.payload \in CharVectors /\ m.origin \in Int
    BY <1>1 DEF Messages
  <2> QED BY <2>1, TextProperties
<1>3. z \in CharVectors /\ y \in CharVectors
  <2>1. z \in CharVectors
    BY <1>1, PayloadIsText
  <2> HIDE DEF z
  <2> QED BY <1>2, <2>1, WrittenText
<1>4. /\ k \in Nat /\ j \in Nat
      /\ Len(m.source) + 2 <= k
      /\ Len(m.destination) + 2 <= j
      /\ PayloadRoom(m) = j - (Len(m.destination) + 2)
  <2>1. PayloadRoom(m) = j - (Len(m.destination) + 2)
    BY DEF PayloadRoom
  <2>2. k \in Int
    <3>1. m.sequence \in Nat
      BY <1>1 DEF NumberFits
    <3>2. Len(to_string(m.sequence)) \in Nat
      BY <3>1, NumberText, TextProperties
    <3> QED BY <3>2, CodecAssumption DEF Room
  <2> DEFINE a == Len(m.source)
             b == Len(m.destination)
             p == PayloadRoom(m)
  <2>3. a \in Nat /\ b \in Nat /\ p \in Nat /\ p = k - (a + 2) - (b + 2)
    BY <1>1, <1>2, <2>1
  <2>4. j = k - (a + 2)
    OBVIOUS
  <2> HIDE DEF k, j, a, b, p
  <2>5. /\ k \in Nat /\ j \in Nat /\ a + 2 <= k /\ b + 2 <= j
        /\ p = j - (b + 2)
    BY <2>2, <2>3, <2>4
  <2> QED BY <2>5 DEF a, b, p
<1>5. s = Cut(Written(m.source, y), k)
  BY DEF BodyRead, Body, PayloadText
<1> HIDE DEF z, y, s, k
<1>6. Field(s) = m.source /\ AfterField(s) = Cut(y, j)
  BY <1>2, <1>3, <1>4, <1>5, FieldOfCut DEF Readable
<1> HIDE DEF j
<1>7. /\ Field(Cut(y, j)) = m.destination
      /\ AfterField(Cut(y, j)) = PayloadRead(m)
  <2>1. y = Written(m.destination, z)
    BY DEF y
  <2>2. /\ Field(Cut(y, j)) = m.destination
        /\ AfterField(Cut(y, j)) = Cut(z, j - (Len(m.destination) + 2))
    BY <1>2, <1>3, <1>4, <2>1, FieldOfCut DEF Readable
  <2> QED BY <1>4, <2>2 DEF PayloadRead, z
<1>8. /\ r \in Messages
      /\ r.sequence = m.sequence /\ r.type = m.type
      /\ r.source = Field(s)
      /\ r.destination = Field(AfterField(s))
      /\ r.payload = Field(AfterField(AfterField(s)))
      /\ r.origin \in Origin(Field(AfterField(AfterField(AfterField(s)))))
  BY <1>1, MessageRead DEF s
<1> QED BY <1>6, <1>7, <1>8

\* So is the payload, if it fits.
LEMMA PayloadWhole ==
  ASSUME NEW m, Readable(m), Len(m.payload) + 2 <= PayloadRoom(m)
  PROVE  /\ Field(PayloadRead(m)) = m.payload
         /\ AfterField(PayloadRead(m))
              = Cut(Written(to_string(m.origin), <<>>),
                    PayloadRoom(m) - (Len(m.payload) + 2))
<1>1. /\ m.payload \in CharVectors
      /\ Written(to_string(m.origin), <<>>) \in CharVectors
  BY PayloadIsText DEF Readable
<1>2. PayloadRoom(m) \in Nat /\ Undelimited(m.payload)
  BY DEF Readable
<1> QED BY <1>1, <1>2, FieldOfCut DEF PayloadRead, PayloadText

\* Otherwise it is cut, and at most half a delimiter is added; what is read as
\* the origin begins at its second character.
LEMMA PayloadCut ==
  ASSUME NEW m, Readable(m), ~(Len(m.payload) + 2 <= PayloadRoom(m))
  PROVE  LET s == PayloadRead(m) IN
         /\ s \in CharVectors /\ Len(s) = PayloadRoom(m)
         /\ Len(s) < Len(m.payload) + 2
         /\ \A i \in 1 .. Len(s) :
              s[i] = IF i <= Len(m.payload) THEN m.payload[i] ELSE "/"
         /\ Undelimited(s) /\ Field(s) = s /\ AfterField(s) = Without(s, 1)
<1>1. /\ m.payload \in CharVectors
      /\ Written(to_string(m.origin), <<>>) \in CharVectors
  BY PayloadIsText DEF Readable
<1>2. /\ PayloadRoom(m) \in Nat /\ Undelimited(m.payload)
      /\ PayloadRoom(m) < Len(m.payload) + 2
  <2>1. PayloadRoom(m) \in Nat /\ Undelimited(m.payload)
    BY DEF Readable
  <2>2. Len(m.payload) \in Nat
    BY <1>1, TextProperties
  <2> QED BY <2>1, <2>2
<1>3. PICK f \in CharVectors, z \in CharVectors, n \in Nat :
        /\ f = m.payload /\ z = Written(to_string(m.origin), <<>>)
        /\ n = PayloadRoom(m)
  BY <1>1, <1>2
<1> DEFINE s == Cut(Written(f, z), n)
<1>4. s = PayloadRead(m)
  BY <1>3 DEF PayloadRead, PayloadText
<1>5. /\ s \in CharVectors /\ Len(s) = n
      /\ \A i \in 1 .. n : s[i] = IF i <= Len(f) THEN f[i] ELSE "/"
      /\ Undelimited(s) /\ Field(s) = s /\ AfterField(s) = Without(s, 1)
  <2>1. Undelimited(f)
    BY <1>2, <1>3
  <2>2. n < Len(f) + 2
    BY <1>2, <1>3
  <2> QED BY <2>1, <2>2, FieldTooLong
<1> HIDE DEF s
<1> QED BY <1>2, <1>3, <1>4, <1>5

-----------------------------------------------------------------------------
(***************************************************************************)
(* Client lists.                                                           *)
(***************************************************************************)

\* Names that can be read again.
PlainNames ==
  {s \in CharVectors :
     Undelimited(s) /\ \A i \in 1 .. Len(s) : s[i] # syncIdentifierDelimiter}

\* w[k] is the text of the first k names.
Constructed(w, names) ==
  /\ w[0] = <<>>
  /\ \A k \in 1 .. Len(names) : w[k] = afterName(w[k - 1], names[k])

\* The comma is a character.
LEMMA CommaIsCharacter == syncIdentifierDelimiter \in Characters
  BY DEF syncIdentifierDelimiter, Characters

\* createServerSyncPayload adds one name after the other.
LEMMA ConstructedSteps ==
  ASSUME NEW names \in Seq(PlainNames)
  PROVE  \E w \in [0 .. Len(names) -> CharVectors] :
           /\ Constructed(w, names)
           /\ createServerSyncPayload(names) = w[Len(names)]
<1> DEFINE step == [p \in CharVectors \X PlainNames |->
                      afterName(p[1], p[2])]
           text == CHOOSE g : g = [k \in 0 .. Len(names) |->
                     IF k = 0 THEN <<>> ELSE afterName(g[k - 1], names[k])]
<1>1. Len(names) \in Nat /\ \A i \in 1 .. Len(names) : names[i] \in PlainNames
  OBVIOUS
<1>2. step \in [CharVectors \X PlainNames -> CharVectors]
  <2>1. ASSUME NEW t \in CharVectors, NEW name \in PlainNames
        PROVE  afterName(t, name) \in CharVectors
    <3>1. name \in CharVectors
      BY DEF PlainNames
    <3> QED BY <3>1, CommaIsCharacter DEF CharVectors, afterName
  <2> QED BY <2>1
<1>3. \A t \in CharVectors, name \in PlainNames :
        step[<<t, name>>] = afterName(t, name)
  OBVIOUS
<1> HIDE DEF step
<1>4. <<>> \in CharVectors
  BY DEF CharVectors
<1>5. PICK w \in [0 .. Len(names) -> CharVectors] :
        /\ w[0] = <<>>
        /\ \A k \in 1 .. Len(names) : w[k] = step[<<w[k - 1], names[k]>>]
  <2>1. \E w \in [0 .. Len(names) -> CharVectors] :
          Stepwise(w, <<>>, step, names)
    BY <1>2, <1>4, Steps
  <2> QED BY <2>1 DEF Stepwise
<1>6. ASSUME NEW k \in 1 .. Len(names)
      PROVE  w[k] = afterName(w[k - 1], names[k])
  <2>1. w[k - 1] \in CharVectors /\ names[k] \in PlainNames
    BY <1>1
  <2> QED BY <1>3, <1>5, <2>1
<1>7. w = [k \in 0 .. Len(names) |->
             IF k = 0 THEN <<>> ELSE afterName(w[k - 1], names[k])]
  BY <1>1, <1>5, <1>6
<1>8. text = [k \in 0 .. Len(names) |->
                IF k = 0 THEN <<>> ELSE afterName(text[k - 1], names[k])]
  BY <1>7
<1>9. createServerSyncPayload(names) = text[Len(names)]
  BY DEF createServerSyncPayload
<1> HIDE DEF text
<1> DEFINE P == {k \in 0 .. Len(names) : text[k] = w[k]}
<1>10. 0 \in P
  BY <1>1, <1>5, <1>8
<1>11. ASSUME NEW k \in 0 .. Len(names) - 1, k \in P
       PROVE  k + 1 \in P
  <2>1. /\ k + 1 \in 1 .. Len(names) /\ k + 1 - 1 = k
        /\ k + 1 \in 0 .. Len(names) /\ k + 1 # 0
    BY <1>1
  <2>2. text[k + 1] = afterName(text[k], names[k + 1])
    BY <1>8, <2>1
  <2>3. w[k + 1] = afterName(w[k], names[k + 1])
    BY <1>6, <2>1
  <2> QED BY <1>11, <2>1, <2>2, <2>3
<1>12. Len(names) \in P
  <2> HIDE DEF P
  <2>1. \A k \in 0 .. Len(names) : k \in P
    BY <1>1, <1>10, <1>11, UpTo
  <2> QED BY <1>1, <2>1
<1>13. Constructed(w, names)
  BY <1>5, <1>6 DEF Constructed
<1> QED BY <1>9, <1>12, <1>13

\* u is t, a name and a comma, character by character.
HasNext(u, t, name) ==
  /\ Len(u) = Len(t) + Len(name) + 1
  /\ \A i \in 1 .. Len(t) : u[i] = t[i]
  /\ \A i \in 1 .. Len(name) : u[Len(t) + i] = name[i]
  /\ u[Len(t) + Len(name) + 1] = syncIdentifierDelimiter

\* A further name and its comma.
LEMMA NextName ==
  ASSUME NEW t \in CharVectors, NEW name \in PlainNames
  PROVE  HasNext(afterName(t, name), t, name)
<1> DEFINE a == Append(name, syncIdentifierDelimiter)
<1>1. name \in CharVectors /\ Len(name) \in Nat /\ Len(t) \in Nat
  BY TextProperties DEF PlainNames
<1>2. /\ a \in CharVectors /\ Len(a) = Len(name) + 1
      /\ \A i \in 1 .. Len(name) : a[i] = name[i]
      /\ a[Len(name) + 1] = syncIdentifierDelimiter
  BY <1>1, CommaIsCharacter DEF CharVectors
<1> HIDE DEF a
<1>3. /\ t \o a \in CharVectors /\ Len(t \o a) = Len(t) + Len(a)
      /\ \A i \in 1 .. Len(t) : (t \o a)[i] = t[i]
      /\ \A i \in 1 .. Len(a) : (t \o a)[Len(t) + i] = a[i]
  BY <1>1, <1>2 DEF CharVectors
<1>4. ASSUME NEW i \in 1 .. Len(name)
      PROVE  (t \o a)[Len(t) + i] = name[i]
  <2>1. i \in 1 .. Len(a)
    BY <1>1, <1>2
  <2> QED BY <1>2, <1>3, <2>1
<1>5. (t \o a)[Len(t) + Len(name) + 1] = syncIdentifierDelimiter
  <2>1. /\ Len(name) + 1 \in 1 .. Len(a)
        /\ Len(t) + (Len(name) + 1) = Len(t) + Len(name) + 1
    BY <1>1, <1>2
  <2> QED BY <1>2, <1>3, <2>1
<1>6. Len(t \o a) = Len(t) + Len(name) + 1
  BY <1>1, <1>2, <1>3
<1> QED BY <1>3, <1>4, <1>5, <1>6 DEF a, afterName, HasNext

\* t begins with s.
Begins(s, t) ==
  Len(s) <= Len(t) /\ \A i \in 1 .. Len(s) : t[i] = s[i]

\* The text of some names begins with the text of fewer of them.
LEMMA ConstructedGrows ==
  ASSUME NEW names \in Seq(PlainNames),
         NEW w \in [0 .. Len(names) -> CharVectors], Constructed(w, names),
         NEW k \in 0 .. Len(names)
  PROVE  Begins(w[k], w[Len(names)])
<1> DEFINE P == {m \in 0 .. Len(names) :
                   \A i \in 0 .. Len(names) : i <= m => Begins(w[i], w[m])}
<1>1. Len(names) \in Nat /\ \A i \in 1 .. Len(names) : names[i] \in PlainNames
  OBVIOUS
<1>2. \A i \in 0 .. Len(names) : Len(w[i]) \in Nat
  BY TextProperties
<1>3. \A i \in 0 .. Len(names) : Begins(w[i], w[i])
  BY <1>2 DEF Begins
<1>4. 0 \in P
  <2>1. \A i \in 0 .. Len(names) : i <= 0 => i = 0
    BY <1>1
  <2>2. 0 \in 0 .. Len(names)
    BY <1>1
  <2> QED BY <1>3, <2>1, <2>2
<1>5. ASSUME NEW m \in 0 .. Len(names) - 1, m \in P
      PROVE  m + 1 \in P
  <2>1. /\ m + 1 \in 1 .. Len(names) /\ m + 1 \in 0 .. Len(names)
        /\ m \in 0 .. Len(names) /\ m + 1 - 1 = m
    BY <1>1
  <2>2. w[m + 1] = afterName(w[m], names[m + 1])
    BY <2>1 DEF Constructed
  <2>3. Begins(w[m], w[m + 1])
    <3>1. w[m] \in CharVectors /\ names[m + 1] \in PlainNames
      BY <1>1, <2>1
    <3>2. Len(names[m + 1]) \in Nat
      BY <3>1, TextProperties DEF PlainNames
    <3>3. /\ Len(w[m + 1]) = Len(w[m]) + Len(names[m + 1]) + 1
          /\ \A i \in 1 .. Len(w[m]) : w[m + 1][i] = w[m][i]
      <4>1. HasNext(w[m + 1], w[m], names[m + 1])
        BY <2>2, <3>1, NextName
      <4> QED BY <4>1 DEF HasNext
    <3>4. Len(w[m]) <= Len(w[m + 1])
      BY <1>2, <2>1, <3>2, <3>3
    <3> QED BY <3>3, <3>4 DEF Begins
  <2>4. ASSUME NEW i \in 0 .. Len(names), i <= m + 1
        PROVE  Begins(w[i], w[m + 1])
    <3>1. CASE i = m + 1
      BY <1>3, <2>1, <3>1
    <3>2. CASE i # m + 1
      <4>1. i <= m
        BY <2>4, <3>2
      <4>2. Begins(w[i], w[m])
        BY <1>5, <4>1
      <4> QED BY <1>2, <2>1, <2>3, <4>2 DEF Begins
    <3> QED BY <3>1, <3>2
  <2> QED BY <2>1, <2>4
<1>6. Len(names) \in P
  <2> HIDE DEF P
  <2>1. \A m \in 0 .. Len(names) : m \in P
    BY <1>1, <1>4, <1>5, UpTo
  <2> QED BY <1>1, <2>1
<1> QED BY <1>6

\* Where a name and its comma are in the text of all.
LEMMA NamePlaces ==
  ASSUME NEW names \in Seq(PlainNames),
         NEW w \in [0 .. Len(names) -> CharVectors], Constructed(w, names),
         NEW k \in 1 .. Len(names)
  PROVE  LET t == w[Len(names)]
             name == names[k]
         IN /\ Len(w[k]) = Len(w[k - 1]) + Len(name) + 1
            /\ Len(w[k]) <= Len(t)
            /\ \A j \in 1 .. Len(name) : t[Len(w[k - 1]) + j] = name[j]
            /\ t[Len(w[k])] = syncIdentifierDelimiter
<1> DEFINE t == w[Len(names)]
           name == names[k]
<1>1. /\ k \in 0 .. Len(names) /\ k - 1 \in 0 .. Len(names)
      /\ name \in PlainNames
  OBVIOUS
<1>2. Len(w[k - 1]) \in Nat /\ Len(name) \in Nat
  BY <1>1, TextProperties DEF PlainNames
<1>3. /\ Len(w[k]) = Len(w[k - 1]) + Len(name) + 1
      /\ \A j \in 1 .. Len(name) : w[k][Len(w[k - 1]) + j] = name[j]
      /\ w[k][Len(w[k - 1]) + Len(name) + 1] = syncIdentifierDelimiter
  <2>1. w[k] = afterName(w[k - 1], name)
    BY DEF Constructed
  <2>2. w[k - 1] \in CharVectors
    BY <1>1
  <2>3. HasNext(w[k], w[k - 1], name)
    BY <1>1, <2>1, <2>2, NextName
  <2> HIDE DEF name
  <2> QED BY <2>3 DEF HasNext
<1>4. Len(w[k]) <= Len(t) /\ \A i \in 1 .. Len(w[k]) : t[i] = w[k][i]
  BY <1>1, ConstructedGrows DEF Begins
<1> HIDE DEF t, name
<1>5. ASSUME NEW j \in 1 .. Len(name)
      PROVE  t[Len(w[k - 1]) + j] = name[j]
  <2>1. Len(w[k - 1]) + j \in 1 .. Len(w[k])
    BY <1>2, <1>3
  <2> QED BY <1>3, <1>4, <2>1
<1>6. t[Len(w[k])] = syncIdentifierDelimiter
  <2>1. Len(w[k]) \in 1 .. Len(w[k])
    BY <1>2, <1>3
  <2> QED BY <1>3, <1>4, <2>1
<1> QED BY <1>3, <1>4, <1>5, <1>6 DEF t, name

\* Name k + 1 begins behind start[k] characters of t.
Layout(start, names, t) ==
  /\ start \in [0 .. Len(names) -> Nat]
  /\ start[0] = 0 /\ start[Len(names)] = Len(t)
  /\ \A k \in 0 .. Len(names) - 1 :
       /\ start[k + 1] = start[k] + Len(names[k + 1]) + 1
       /\ start[k + 1] <= Len(t)
       /\ \A j \in 1 .. Len(names[k + 1]) :
            t[start[k] + j] = names[k + 1][j]
       /\ t[start[k + 1]] = syncIdentifierDelimiter

\* So the text of some names is laid out.
LEMMA NamesLayout ==
  ASSUME NEW names \in Seq(PlainNames)
  PROVE  \E start : Layout(start, names, createServerSyncPayload(names))
<1>1. PICK w \in [0 .. Len(names) -> CharVectors] :
        /\ Constructed(w, names)
        /\ createServerSyncPayload(names) = w[Len(names)]
  BY ConstructedSteps
<1> DEFINE t == w[Len(names)]
           start == [k \in 0 .. Len(names) |-> Len(w[k])]
<1>2. Len(names) \in Nat /\ \A k \in 0 .. Len(names) : Len(w[k]) \in Nat
  BY TextProperties
<1>3. \A k \in 0 .. Len(names) : start[k] = Len(w[k])
  OBVIOUS
<1>4. start \in [0 .. Len(names) -> Nat]
  BY <1>2
<1>5. start[0] = 0 /\ start[Len(names)] = Len(t)
  BY <1>1, <1>2 DEF Constructed
<1> HIDE DEF start
<1>6. ASSUME NEW k \in 0 .. Len(names) - 1
      PROVE  /\ start[k + 1] = start[k] + Len(names[k + 1]) + 1
             /\ start[k + 1] <= Len(t)
             /\ \A j \in 1 .. Len(names[k + 1]) :
                  t[start[k] + j] = names[k + 1][j]
             /\ t[start[k + 1]] = syncIdentifierDelimiter
  <2>1. PICK m \in 1 .. Len(names) : m = k + 1 /\ m - 1 = k
    BY <1>2
  <2>2. /\ Len(w[m]) = Len(w[m - 1]) + Len(names[m]) + 1
        /\ Len(w[m]) <= Len(t)
        /\ \A j \in 1 .. Len(names[m]) :
             t[Len(w[m - 1]) + j] = names[m][j]
        /\ t[Len(w[m])] = syncIdentifierDelimiter
    BY <1>1, NamePlaces
  <2>3. start[m] = Len(w[m]) /\ start[k] = Len(w[k])
    BY <1>2, <1>3, <2>1
  <2> HIDE DEF t
  <2> QED BY <2>1, <2>2, <2>3
<1>7. Layout(start, names, t)
  BY <1>4, <1>5, <1>6 DEF Layout
<1> QED BY <1>1, <1>7

\* The text of plain names can be read again.
LEMMA ConstructedUndelimited ==
  ASSUME NEW names \in Seq(PlainNames)
  PROVE  /\ createServerSyncPayload(names) \in CharVectors
         /\ Undelimited(createServerSyncPayload(names))
<1>1. PICK w \in [0 .. Len(names) -> CharVectors] :
        /\ Constructed(w, names)
        /\ createServerSyncPayload(names) = w[Len(names)]
  BY ConstructedSteps
<1>2. Len(names) \in Nat /\ \A i \in 1 .. Len(names) : names[i] \in PlainNames
  OBVIOUS
<1> DEFINE Good(t) == /\ Undelimited(t)
                      /\ Len(t) > 0 => t[Len(t)] = syncIdentifierDelimiter
           P == {k \in 0 .. Len(names) : Good(w[k])}
<1>3. 0 \in P
  <2>1. w[0] = <<>> /\ Len(<<>>) = 0
    BY <1>1 DEF Constructed
  <2> QED BY <1>2, <2>1 DEF Undelimited, Delimits
<1>4. ASSUME NEW t \in CharVectors, Good(t), NEW name \in PlainNames
      PROVE  Good(afterName(t, name))
  <2> DEFINE u == afterName(t, name)
  <2>1. /\ Len(u) = Len(t) + Len(name) + 1
        /\ \A i \in 1 .. Len(t) : u[i] = t[i]
        /\ \A i \in 1 .. Len(name) : u[Len(t) + i] = name[i]
        /\ u[Len(t) + Len(name) + 1] = syncIdentifierDelimiter
    BY NextName DEF HasNext
  <2>2. Len(t) \in Nat /\ Len(name) \in Nat /\ Undelimited(name)
    BY TextProperties DEF PlainNames
  <2>3. syncIdentifierDelimiter # "/" /\ syncIdentifierDelimiter # "?"
    BY DEF syncIdentifierDelimiter
  <2> HIDE DEF u
  <2>4. ASSUME NEW i, Delimits(u, i) PROVE FALSE
    <3>1. /\ i \in 1 .. Len(t) + Len(name)
          /\ u[i] = "/" /\ u[i + 1] = "?"
      BY <2>1, <2>2, <2>4 DEF Delimits
    <3>2. CASE i < Len(t)
      <4>1. i \in 1 .. Len(t) - 1 /\ i \in 1 .. Len(t) /\ i + 1 \in 1 .. Len(t)
        BY <2>2, <3>1, <3>2
      <4>2. t[i] = "/" /\ t[i + 1] = "?"
        BY <2>1, <3>1, <4>1
      <4> QED BY <1>4, <4>1, <4>2 DEF Undelimited, Delimits
    <3>3. CASE i = Len(t)
      <4>1. i \in 1 .. Len(t) /\ Len(t) > 0
        BY <2>2, <3>1, <3>3
      <4> QED BY <1>4, <2>1, <2>3, <3>1, <3>3, <4>1
    <3>4. CASE i > Len(t) /\ i < Len(t) + Len(name)
      <4>1. PICK j \in 1 .. Len(name) - 1 : i = Len(t) + j
        <5>1. i - Len(t) \in 1 .. Len(name) - 1 /\ i = Len(t) + (i - Len(t))
          BY <2>2, <3>1, <3>4
        <5> QED BY <5>1
      <4>2. /\ j \in 1 .. Len(name) /\ j + 1 \in 1 .. Len(name)
            /\ i + 1 = Len(t) + (j + 1)
        BY <2>2, <4>1
      <4>3. name[j] = "/" /\ name[j + 1] = "?"
        BY <2>1, <3>1, <4>1, <4>2
      <4> QED BY <2>2, <4>1, <4>3 DEF Undelimited, Delimits
    <3>5. CASE i = Len(t) + Len(name)
      BY <2>1, <2>3, <3>1, <3>5
    <3> QED BY <2>2, <3>1, <3>2, <3>3, <3>4, <3>5
  <2>5. u[Len(u)] = syncIdentifierDelimiter
    BY <2>1
  <2> QED BY <2>4, <2>5 DEF u, Undelimited
<1>5. ASSUME NEW k \in 0 .. Len(names) - 1, k \in P
      PROVE  k + 1 \in P
  <2>1. /\ k + 1 \in 1 .. Len(names) /\ k + 1 \in 0 .. Len(names)
        /\ k \in 0 .. Len(names) /\ k + 1 - 1 = k
    BY <1>2
  <2>2. w[k + 1] = afterName(w[k], names[k + 1])
    BY <1>1, <2>1 DEF Constructed
  <2>3. w[k] \in CharVectors /\ names[k + 1] \in PlainNames /\ Good(w[k])
    BY <1>2, <1>5, <2>1
  <2> HIDE DEF Good
  <2> QED BY <1>4, <2>1, <2>2, <2>3
<1>6. Len(names) \in P
  <2> HIDE DEF P
  <2>1. \A k \in 0 .. Len(names) : k \in P
    BY <1>2, <1>3, <1>5, UpTo
  <2> QED BY <1>2, <2>1
<1> QED BY <1>1, <1>2, <1>6

Readings == [out : Seq(CharVectors), found : CharVectors]

NothingRead == [out |-> <<>>, found |-> <<>>]

\* r[k] is what viewServerSyncPayload has after k characters.
Scanned(r, payload) ==
  /\ r[0] = NothingRead
  /\ \A k \in 1 .. Len(payload) : r[k] = afterCharacter(r[k - 1], payload[k])

\* viewServerSyncPayload takes one character after the other.
LEMMA ReadingSteps ==
  ASSUME NEW p \in CharVectors
  PROVE  \E r \in [0 .. Len(p) -> Readings] :
           /\ Scanned(r, p)
           /\ viewServerSyncPayload(p) = r[Len(p)].out
<1> DEFINE step == [x \in Readings \X Characters |->
                      afterCharacter(x[1], x[2])]
           read == CHOOSE g : g = [k \in 0 .. Len(p) |->
                     IF k = 0 THEN [out |-> <<>>, found |-> <<>>]
                              ELSE afterCharacter(g[k - 1], p[k])]
<1>1. Len(p) \in Nat /\ \A i \in 1 .. Len(p) : p[i] \in Characters
  BY TextProperties
<1>2. step \in [Readings \X Characters -> Readings]
  <2>1. ASSUME NEW x \in Readings, NEW c \in Characters
        PROVE  afterCharacter(x, c) \in Readings
    <3>1. x.out \in Seq(CharVectors) /\ x.found \in CharVectors
      BY DEF Readings
    <3>2. Append(x.out, x.found) \in Seq(CharVectors)
      BY <3>1
    <3>3. Append(x.found, c) \in CharVectors /\ <<>> \in CharVectors
      BY <3>1 DEF CharVectors
    <3> QED BY <3>1, <3>2, <3>3 DEF afterCharacter, Readings
  <2> QED BY <2>1
<1>3. \A x \in Readings, c \in Characters :
        step[<<x, c>>] = afterCharacter(x, c)
  OBVIOUS
<1> HIDE DEF step
<1>4. NothingRead \in Readings
  BY DEF NothingRead, Readings, CharVectors
<1>5. PICK r \in [0 .. Len(p) -> Readings] :
        /\ r[0] = NothingRead
        /\ \A k \in 1 .. Len(p) : r[k] = step[<<r[k - 1], p[k]>>]
  <2>1. p \in Seq(Characters)
    BY DEF CharVectors
  <2>2. \E r \in [0 .. Len(p) -> Readings] :
          Stepwise(r, NothingRead, step, p)
    BY <1>2, <1>4, <2>1, Steps
  <2> QED BY <2>2 DEF Stepwise
<1>6. ASSUME NEW k \in 1 .. Len(p)
      PROVE  r[k] = afterCharacter(r[k - 1], p[k])
  <2>1. r[k - 1] \in Readings /\ p[k] \in Characters
    BY <1>1
  <2> QED BY <1>3, <1>5, <2>1
<1>7. r = [k \in 0 .. Len(p) |->
             IF k = 0 THEN [out |-> <<>>, found |-> <<>>]
                      ELSE afterCharacter(r[k - 1], p[k])]
  BY <1>1, <1>5, <1>6 DEF NothingRead
<1>8. read = [k \in 0 .. Len(p) |->
                IF k = 0 THEN [out |-> <<>>, found |-> <<>>]
                         ELSE afterCharacter(read[k - 1], p[k])]
  BY <1>7
<1>9. viewServerSyncPayload(p) = read[Len(p)].out
  BY DEF viewServerSyncPayload, reading
<1> HIDE DEF read
<1> DEFINE P == {k \in 0 .. Len(p) : read[k] = r[k]}
<1>10. 0 \in P
  BY <1>1, <1>5, <1>8 DEF NothingRead
<1>11. ASSUME NEW k \in 0 .. Len(p) - 1, k \in P
       PROVE  k + 1 \in P
  <2>1. /\ k + 1 \in 1 .. Len(p) /\ k + 1 - 1 = k
        /\ k + 1 \in 0 .. Len(p) /\ k + 1 # 0
    BY <1>1
  <2>2. read[k + 1] = afterCharacter(read[k], p[k + 1])
    BY <1>8, <2>1
  <2>3. r[k + 1] = afterCharacter(r[k], p[k + 1])
    BY <1>6, <2>1
  <2> QED BY <1>11, <2>1, <2>2, <2>3
<1>12. Len(p) \in P
  <2> HIDE DEF P
  <2>1. \A k \in 0 .. Len(p) : k \in P
    BY <1>1, <1>10, <1>11, UpTo
  <2> QED BY <1>1, <2>1
<1>13. Scanned(r, p)
  BY <1>5, <1>6 DEF Scanned
<1> QED BY <1>9, <1>12, <1>13

\* p is what a buffer has of the text t: all of it, and half a delimiter at
\* most, or the beginning of it.
CutOff(p, t) ==
  /\ p \in CharVectors
  /\ Len(p) <= Len(t) + 1
  /\ \A i \in 1 .. Len(p) : p[i] = IF i <= Len(t) THEN t[i] ELSE "/"

\* One more element of a sequence.
LEMMA OneMore ==
  ASSUME NEW S, NEW s \in Seq(S), NEW k \in 0 .. Len(s) - 1
  PROVE  Append(SubSeq(s, 1, k), s[k + 1]) = SubSeq(s, 1, k + 1)
  OBVIOUS

\* After i characters, x has k names and j characters of the next one.
ReadUpTo(x, names, start, i, k, j) ==
  /\ i = start[k] + j
  /\ x.out = SubSeq(names, 1, k)
  /\ k < Len(names) => /\ j <= Len(names[k + 1])
                       /\ x.found = SubSeq(names[k + 1], 1, j)

\* A further character.
LEMMA ReadNext ==
  ASSUME NEW names \in Seq(PlainNames), NEW t \in CharVectors, NEW start,
         Layout(start, names, t), NEW p, CutOff(p, t),
         NEW i \in 0 .. Len(p) - 1, NEW x,
         NEW k \in 0 .. Len(names), NEW j \in Nat,
         ReadUpTo(x, names, start, i, k, j)
  PROVE  \E k2 \in 0 .. Len(names), j2 \in Nat :
           ReadUpTo(afterCharacter(x, p[i + 1]), names, start, i + 1, k2, j2)
<1> DEFINE n == Len(names)
           c == p[i + 1]
           y == afterCharacter(x, c)
           here == start[k]
<1>1. n \in Nat /\ Len(p) \in Nat /\ Len(t) \in Nat /\ here \in Nat
  BY TextProperties DEF CutOff, Layout
<1>2. i + 1 \in 1 .. Len(p)
  BY <1>1
<1>3. c = IF i + 1 <= Len(t) THEN t[i + 1] ELSE "/"
  BY <1>2 DEF CutOff
<1>4. /\ c # syncIdentifierDelimiter
           => y.out = x.out /\ y.found = Append(x.found, c)
      /\ c = syncIdentifierDelimiter
           => y.out = Append(x.out, x.found) /\ y.found = <<>>
  BY DEF afterCharacter
<1>5. i = here + j /\ x.out = SubSeq(names, 1, k)
  BY DEF ReadUpTo
<1> HIDE DEF c, y, here
<1>6. CASE k < n
  <2> DEFINE name == names[k + 1]
             next == start[k + 1]
  <2>1. /\ k \in 0 .. n - 1 /\ k + 1 \in 0 .. n
        /\ name \in PlainNames /\ name \in CharVectors
        /\ Len(name) \in Nat
    <3>1. k \in 0 .. n - 1 /\ k + 1 \in 0 .. n /\ name \in PlainNames
      BY <1>1, <1>6
    <3> HIDE DEF name
    <3> QED BY <3>1, TextProperties DEF PlainNames
  <2>2. /\ next = here + Len(name) + 1 /\ next <= Len(t)
        /\ \A m \in 1 .. Len(name) : t[here + m] = name[m]
        /\ t[next] = syncIdentifierDelimiter
    BY <2>1 DEF Layout, here
  <2>3. j <= Len(name) /\ x.found = SubSeq(name, 1, j)
    BY <1>6 DEF ReadUpTo
  <2> HIDE DEF name, next
  <2>4. CASE j < Len(name)
    <3>1. /\ j + 1 \in 1 .. Len(name) /\ i + 1 = here + (j + 1)
          /\ i + 1 <= Len(t) /\ j \in 0 .. Len(name) - 1
      BY <1>1, <1>5, <2>1, <2>2, <2>4
    <3>2. c = name[j + 1] /\ c # syncIdentifierDelimiter
      BY <1>3, <2>1, <2>2, <3>1 DEF PlainNames
    <3>3. y.out = SubSeq(names, 1, k)
      BY <1>4, <1>5, <3>2
    <3>4. y.found = SubSeq(name, 1, j + 1)
      <4>1. Append(SubSeq(name, 1, j), name[j + 1]) = SubSeq(name, 1, j + 1)
        BY <2>1, <3>1, OneMore DEF CharVectors
      <4> QED BY <1>4, <2>3, <3>2, <4>1
    <3>5. j + 1 \in Nat /\ j + 1 <= Len(name)
      BY <2>1, <3>1
    <3>6. ReadUpTo(y, names, start, i + 1, k, j + 1)
      BY <3>1, <3>3, <3>4, <3>5 DEF ReadUpTo, here, name
    <3> QED BY <3>5, <3>6 DEF y, c
  <2>5. CASE j = Len(name)
    <3>1. i + 1 = next /\ i + 1 <= Len(t)
      BY <1>1, <1>5, <2>1, <2>2, <2>5
    <3>2. c = syncIdentifierDelimiter
      BY <1>3, <2>2, <3>1
    <3>3. x.found = name
      <4>1. SubSeq(name, 1, Len(name)) = name
        BY <2>1 DEF CharVectors
      <4> QED BY <2>3, <2>5, <4>1
    <3>4. y.out = SubSeq(names, 1, k + 1) /\ y.found = <<>>
      <4>1. Append(SubSeq(names, 1, k), name) = SubSeq(names, 1, k + 1)
        BY <2>1, OneMore DEF n, name
      <4> QED BY <1>4, <1>5, <3>2, <3>3, <4>1
    <3>5. ASSUME k + 1 < n
          PROVE  /\ 0 <= Len(names[k + 1 + 1])
                 /\ SubSeq(names[k + 1 + 1], 1, 0) = <<>>
      <4>1. k + 1 + 1 \in 1 .. n
        BY <1>1, <2>1, <3>5
      <4>2. names[k + 1 + 1] \in CharVectors
        BY <4>1 DEF PlainNames
      <4> QED BY <4>2 DEF CharVectors
    <3>6. i + 1 = next + 0
      BY <1>1, <2>1, <2>2, <3>1
    <3>7. ReadUpTo(y, names, start, i + 1, k + 1, 0)
      BY <3>4, <3>5, <3>6 DEF ReadUpTo, next
    <3> QED BY <2>1, <3>7 DEF y, c
  <2> QED BY <2>1, <2>3, <2>4, <2>5
<1>7. CASE k = n
  <2>1. here = Len(t)
    BY <1>7 DEF Layout, here
  <2>2. c = "/"
    BY <1>1, <1>3, <1>5, <2>1
  <2>3. y.out = SubSeq(names, 1, k)
    BY <1>4, <1>5, <2>2 DEF syncIdentifierDelimiter
  <2>4. i + 1 = here + (j + 1) /\ j + 1 \in Nat
    BY <1>1, <1>5
  <2>5. ReadUpTo(y, names, start, i + 1, k, j + 1)
    BY <1>7, <2>3, <2>4 DEF ReadUpTo, here
  <2> QED BY <2>4, <2>5 DEF y, c
<1> QED BY <1>1, <1>6, <1>7

\* Of a text of names that was cut, the names that are whole are read; so all
\* of them, if all of it is there.
THEOREM NamesRead ==
  ASSUME NEW names \in Seq(PlainNames),
         NEW p, CutOff(p, createServerSyncPayload(names))
  PROVE  \E k \in 0 .. Len(names) :
           /\ viewServerSyncPayload(p) = SubSeq(names, 1, k)
           /\ Len(p) >= Len(createServerSyncPayload(names))
                => k = Len(names)
<1> DEFINE t == createServerSyncPayload(names)
           n == Len(names)
<1>1. t \in CharVectors
  BY ConstructedUndelimited
<1>2. PICK start : Layout(start, names, t)
  BY NamesLayout
<1>3. p \in CharVectors
  BY DEF CutOff
<1>4. PICK r \in [0 .. Len(p) -> Readings] :
        /\ Scanned(r, p)
        /\ viewServerSyncPayload(p) = r[Len(p)].out
  BY <1>3, ReadingSteps
<1>5. n \in Nat /\ Len(p) \in Nat /\ Len(t) \in Nat
  BY <1>1, <1>3, TextProperties
<1> HIDE DEF t
<1> DEFINE P == {i \in 0 .. Len(p) : \E k \in 0 .. n, j \in Nat :
                   ReadUpTo(r[i], names, start, i, k, j)}
<1>6. 0 \in P
  <2>1. r[0] = NothingRead /\ start[0] = 0
    BY <1>2, <1>4 DEF Layout, Scanned
  <2>2. SubSeq(names, 1, 0) = <<>> /\ r[0].out = <<>> /\ r[0].found = <<>>
    BY <2>1 DEF NothingRead
  <2>3. ASSUME 0 < n
        PROVE  0 <= Len(names[0 + 1]) /\ SubSeq(names[0 + 1], 1, 0) = <<>>
    <3>1. names[1] \in CharVectors
      BY <1>5, <2>3 DEF PlainNames
    <3> QED BY <3>1 DEF CharVectors
  <2>4. ReadUpTo(r[0], names, start, 0, 0, 0)
    BY <2>1, <2>2, <2>3 DEF ReadUpTo
  <2>5. 0 \in 0 .. n /\ 0 \in 0 .. Len(p)
    BY <1>5
  <2> QED BY <2>4, <2>5
<1>7. ASSUME NEW i \in 0 .. Len(p) - 1, i \in P
      PROVE  i + 1 \in P
  <2>1. PICK k \in 0 .. n, j \in Nat : ReadUpTo(r[i], names, start, i, k, j)
    BY <1>7
  <2>2. /\ i + 1 \in 1 .. Len(p) /\ i + 1 - 1 = i /\ i + 1 \in 0 .. Len(p)
    BY <1>5
  <2>3. r[i + 1] = afterCharacter(r[i], p[i + 1])
    BY <1>4, <2>2 DEF Scanned
  <2>4. CutOff(p, t)
    BY DEF t
  <2>5. \E k2 \in 0 .. n, j2 \in Nat :
          ReadUpTo(afterCharacter(r[i], p[i + 1]), names, start, i + 1, k2, j2)
    BY <1>1, <1>2, <2>1, <2>4, ReadNext
  <2> QED BY <2>2, <2>3, <2>5
<1>8. Len(p) \in P
  <2> HIDE DEF P
  <2>1. \A i \in 0 .. Len(p) : i \in P
    BY <1>5, <1>6, <1>7, UpTo
  <2> QED BY <1>5, <2>1
<1>9. PICK k \in 0 .. n, j \in Nat :
        ReadUpTo(r[Len(p)], names, start, Len(p), k, j)
  BY <1>8
<1>10. ASSUME Len(p) >= Len(t), k < n
       PROVE  FALSE
  <2>1. /\ k \in 0 .. n - 1 /\ k + 1 \in 1 .. n /\ start[k] \in Nat
    <3>1. start \in [0 .. n -> Nat]
      BY <1>2 DEF Layout
    <3>2. k \in 0 .. n - 1 /\ k + 1 \in 1 .. n
      <4> HIDE DEF n
      <4> QED BY <1>5, <1>10
    <3> QED BY <3>1, <3>2
  <2>2. /\ start[k + 1] = start[k] + Len(names[k + 1]) + 1
        /\ start[k + 1] <= Len(t)
    BY <1>2, <2>1 DEF Layout
  <2>3. Len(p) = start[k] + j /\ j <= Len(names[k + 1])
    BY <1>9, <1>10 DEF ReadUpTo
  <2>4. Len(names[k + 1]) \in Nat
    BY <2>1
  <2> QED BY <1>5, <1>10, <2>1, <2>2, <2>3, <2>4
<1>11. Len(p) >= Len(t) => k = n
  BY <1>5, <1>10
<1>12. viewServerSyncPayload(p) = SubSeq(names, 1, k)
  BY <1>4, <1>9 DEF ReadUpTo
<1> QED BY <1>11, <1>12 DEF t

\* A list of one's own has the origin 0, which is one digit.
LEMMA ZeroText ==
  LET f == to_string(0) IN
  /\ f \in CharVectors /\ Undelimited(f) /\ Len(f) = 1
  /\ f[1] \in Digits /\ digitsValue(f) = 0
<1> DEFINE f == to_string(0)
<1>1. PICK zero \in Nat : zero = 0
  OBVIOUS
<1>2. f = decimal[zero] /\ zero \in 0 .. 9
  BY <1>1, NumberText
<1>3. /\ decimal[zero] \in CharVectors
      /\ Undelimited(decimal[zero])
  BY NumberText, NumberUndelimited
<1>4. digitsValue(decimal[zero]) = zero
  BY DecimalIsNumber
<1>5. decimal[zero] = <<Numerals[zero + 1]>>
  <2>1. zero < 10 /\ decimal[zero] = DecimalOf(decimal, zero)
    BY <1>2, DecimalSteps
  <2> QED BY <2>1, Zenon DEF DecimalOf
<1>6. Len(decimal[zero]) = 1 /\ decimal[zero][1] = Numerals[zero + 1]
  BY <1>5
<1>7. Numerals[zero + 1] \in Digits
  BY <1>2, DigitValues
<1> HIDE DEF f
<1>8. /\ f \in CharVectors /\ Undelimited(f) /\ Len(f) = 1
      /\ f[1] \in Digits /\ digitsValue(f) = 0
  BY <1>1, <1>2, <1>3, <1>4, <1>6, <1>7
<1> QED BY <1>8 DEF f

\* An origin of 0 is read as 0, or, when it is not there, not at all.
LEMMA ZeroRead ==
  ASSUME NEW n \in Nat
  PROVE  stoi(Field(Cut(Written(to_string(0), <<>>), n))) \in SUBSET {0}
<1> DEFINE f == to_string(0)
           s == Cut(Written(f, <<>>), n)
<1>1. /\ f \in CharVectors /\ Undelimited(f) /\ Len(f) = 1
      /\ f[1] \in Digits /\ digitsValue(f) = 0
  BY ZeroText
<1> HIDE DEF f
<1>2. <<>> \in CharVectors
  BY DEF CharVectors
<1>3. CASE n >= 3
  <2>1. Len(f) + 2 <= n
    BY <1>1, <1>3
  <2>2. Field(s) = f
    BY <1>1, <1>2, <2>1, FieldOfCut
  <2>3. 1 \in 1 .. Len(f) /\ SubSeq(f, 1, 1) = f
    BY <1>1 DEF CharVectors
  <2>4. \A i \in 1 .. 1 : f[i] \in Digits
    BY <1>1
  <2>5. stoi(f) = {digitsValue(SubSeq(f, 1, 1))}
    BY <1>1, <2>3, <2>4, StoiReads
  <2> QED BY <1>1, <2>2, <2>3, <2>5 DEF f
<1>4. CASE n < 3
  <2>1. /\ s \in CharVectors /\ Len(s) = n
        /\ \A i \in 1 .. n : s[i] = IF i <= Len(f) THEN f[i] ELSE "/"
        /\ Field(s) = s
    <3>1. n < Len(f) + 2
      BY <1>1, <1>4
    <3> QED BY <1>1, <1>2, <3>1, FieldTooLong
  <2> HIDE DEF s
  <2>2. CASE n = 0
    <3>1. ~HasNumber(s)
      BY <2>1, <2>2 DEF HasNumber
    <3>2. stoi(s) = {}
      BY <2>1, <3>1, StoiThrows
    <3> QED BY <2>1, <3>2 DEF s, f
  <2>3. CASE n # 0
    <3>1. 1 \in 1 .. Len(s) /\ s[1] = f[1]
      BY <1>1, <2>1, <2>3
    <3>2. 1 < Len(s) => s[1 + 1] = "/"
      BY <1>1, <2>1, <1>4
    <3>3. "/" \notin Digits
      BY DigitsAreOwn
    <3>4. \A i \in 1 .. 1 : s[i] \in Digits
      BY <1>1, <3>1
    <3>5. stoi(s) = {digitsValue(SubSeq(s, 1, 1))}
      BY <2>1, <3>1, <3>2, <3>3, <3>4, StoiReads
    <3>6. SubSeq(s, 1, 1) = f
      <4>1. 1 \in 0 .. Len(s)
        BY <2>1, <2>3
      <4>2. /\ SubSeq(s, 1, 1) \in CharVectors /\ Len(SubSeq(s, 1, 1)) = 1
            /\ SubSeq(s, 1, 1)[1] = s[1]
        BY <2>1, <4>1, Beginning
      <4>3. \A i \in 1 .. 1 : SubSeq(s, 1, 1)[i] = f[i]
        BY <3>1, <4>2
      <4> QED BY <1>1, <4>2, <4>3, SameText
    <3> QED BY <1>1, <2>1, <3>5, <3>6 DEF s, f
  <2> QED BY <2>2, <2>3
<1> QED BY <1>3, <1>4

\* What is read of the payload of a message that can be read is all of it or
\* the beginning of it, with half a delimiter at most.
LEMMA PayloadCutOff ==
  ASSUME NEW m, Readable(m)
  PROVE  /\ CutOff(Field(PayloadRead(m)), m.payload)
         /\ Len(m.payload) + 2 <= PayloadRoom(m)
              => Field(PayloadRead(m)) = m.payload
<1>1. m.payload \in CharVectors
  BY DEF Readable, Messages
<1>2. Len(m.payload) \in Nat
  BY <1>1, TextProperties
<1>3. CASE Len(m.payload) + 2 <= PayloadRoom(m)
  <2>1. Field(PayloadRead(m)) = m.payload
    BY <1>3, PayloadWhole
  <2>2. \A i \in 1 .. Len(m.payload) : i <= Len(m.payload)
    BY <1>2
  <2>3. Len(m.payload) <= Len(m.payload) + 1
    BY <1>2
  <2>4. CutOff(m.payload, m.payload)
    BY <1>1, <2>2, <2>3 DEF CutOff
  <2> QED BY <2>1, <2>4
<1>4. CASE ~(Len(m.payload) + 2 <= PayloadRoom(m))
  <2> DEFINE s == PayloadRead(m)
  <2>1. /\ s \in CharVectors /\ Len(s) < Len(m.payload) + 2
        /\ \A i \in 1 .. Len(s) :
             s[i] = IF i <= Len(m.payload) THEN m.payload[i] ELSE "/"
        /\ Field(s) = s
    BY <1>4, PayloadCut
  <2>2. Len(s) <= Len(m.payload) + 1
    BY <1>2, <2>1, TextProperties
  <2> HIDE DEF s
  <2>3. CutOff(s, m.payload)
    BY <2>1, <2>2 DEF CutOff
  <2> QED BY <1>4, <2>1, <2>3 DEF s
<1> QED BY <1>3, <1>4

\* A client list that does not fit is refused, unless its text has a number
\* from the second character on; one that fits is read with its origin.
LEMMA ListOrigin ==
  ASSUME NEW m, Readable(m), m.origin = 0,
         stoi(Tail(m.payload)) = {}, m.payload # <<>>,
         NEW r \in decode(Received(asCharVector(m)))
  PROVE  r.origin = 0 /\ r.payload = m.payload
<1>1. /\ m.payload \in CharVectors /\ Len(m.payload) \in Nat \ {0}
      /\ Tail(m.payload) \in CharVectors
      /\ Len(Tail(m.payload)) = Len(m.payload) - 1
      /\ \A i \in 1 .. Len(m.payload) - 1 :
           Tail(m.payload)[i] = m.payload[i + 1]
  <2>1. m.payload \in CharVectors
    BY DEF Readable, Messages
  <2> QED BY <2>1 DEF CharVectors
<1>2. /\ r.payload = Field(PayloadRead(m))
      /\ r.origin \in Origin(Field(AfterField(PayloadRead(m))))
  BY HeaderRead
<1>3. CASE Len(m.payload) + 2 <= PayloadRoom(m)
  <2> DEFINE n == PayloadRoom(m) - (Len(m.payload) + 2)
  <2>1. /\ Field(PayloadRead(m)) = m.payload
        /\ AfterField(PayloadRead(m)) = Cut(Written(to_string(0), <<>>), n)
    BY <1>3, PayloadWhole
  <2>2. n \in Nat
    BY <1>1, <1>3 DEF Readable
  <2> HIDE DEF n
  <2>3. stoi(Field(AfterField(PayloadRead(m)))) \in SUBSET {0}
    BY <2>1, <2>2, ZeroRead
  <2>4. int8(0) = 0
    BY DEF int8
  <2> QED BY <1>2, <2>1, <2>3, <2>4 DEF Origin
<1>4. CASE ~(Len(m.payload) + 2 <= PayloadRoom(m))
  <2> DEFINE s == PayloadRead(m)
             u == AfterField(s)
  <2>1. /\ s \in CharVectors /\ Len(s) \in Nat /\ Len(s) < Len(m.payload) + 2
        /\ \A i \in 1 .. Len(s) :
             s[i] = IF i <= Len(m.payload) THEN m.payload[i] ELSE "/"
        /\ Undelimited(s) /\ u = Without(s, 1)
    BY <1>4, PayloadCut, TextProperties
  <2>2. CASE Len(s) = 0
    <3>1. u \in CharVectors /\ Len(u) = 0
      BY <2>1, <2>2 DEF Without, CharVectors
    <3>2. Field(u) = u
      BY <3>1, FieldMissing DEF Undelimited, Delimits
    <3>3. stoi(u) = {}
      BY <3>1, StoiThrows DEF HasNumber
    <3> QED BY <1>2, <3>2, <3>3 DEF Origin
  <2>3. CASE Len(s) # 0
    <3> HIDE DEF s
    <3>1. /\ u \in CharVectors /\ Len(u) = Len(s) - 1
          /\ \A i \in 1 .. Len(s) - 1 : u[i] = s[1 + i]
      <4>1. PICK n \in 0 .. Len(s) : n = 1
        BY <2>1, <2>3
      <4>2. /\ Without(s, n) \in CharVectors
            /\ Len(Without(s, n)) = Len(s) - n
            /\ \A i \in 1 .. Len(s) - n : Without(s, n)[i] = s[n + i]
        BY <2>1, Beginning
      <4> HIDE DEF u
      <4> QED BY <2>1, <4>1, <4>2
    <3> HIDE DEF u
    <3>2. Undelimited(u)
      <4> SUFFICES ASSUME NEW i, Delimits(u, i) PROVE FALSE
        BY DEF Undelimited
      <4>1. /\ i \in 1 .. Len(s) - 1 /\ i + 1 \in 1 .. Len(s) - 1
            /\ u[i] = "/" /\ u[i + 1] = "?"
        BY <2>1, <3>1 DEF Delimits
      <4>2. s[1 + i] = "/" /\ s[1 + i + 1] = "?" /\ 1 + i \in 1 .. Len(s) - 1
        BY <2>1, <3>1, <4>1
      <4> QED BY <2>1, <4>2 DEF Undelimited, Delimits
    <3>3. Field(u) = u
      BY <3>1, <3>2, FieldMissing
    <3>4. ASSUME NEW i \in 1 .. Len(u)
          PROVE  u[i] = IF i <= Len(Tail(m.payload))
                          THEN Tail(m.payload)[i] ELSE "/"
      <4>1. 1 + i \in 1 .. Len(s) /\ i \in 1 .. Len(s) - 1
        BY <2>1, <3>1
      <4>2. u[i] = IF 1 + i <= Len(m.payload) THEN m.payload[1 + i] ELSE "/"
        BY <2>1, <3>1, <4>1
      <4>3. 1 + i <= Len(m.payload) <=> i <= Len(Tail(m.payload))
        BY <1>1, <4>1
      <4>4. i <= Len(Tail(m.payload))
              => Tail(m.payload)[i] = m.payload[i + 1] /\ i + 1 = 1 + i
        BY <1>1, <4>1
      <4> QED BY <4>2, <4>3, <4>4
    <3>5. stoi(u) = {}
      <4>1. Len(u) \in Nat /\ Len(u) <= Len(Tail(m.payload)) + 1
        BY <1>1, <2>1, <2>3, <3>1
      <4>2. \A i \in 1 .. Len(u) :
              i <= Len(Tail(m.payload)) => u[i] = Tail(m.payload)[i]
        BY <3>4
      <4>3. Len(u) = Len(Tail(m.payload)) + 1 => u[Len(u)] = "/"
        BY <1>1, <3>4, <4>1
      <4>4. "/" \notin Digits
        BY DigitsAreOwn
      <4> QED BY <1>1, <3>1, <4>1, <4>2, <4>3, <4>4, NoNumberInCut
    <3> QED BY <1>2, <3>3, <3>5 DEF Origin, u, s
  <2> QED BY <2>2, <2>3
<1> QED BY <1>3, <1>4
=============================================================================
