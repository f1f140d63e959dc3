-------------------------- MODULE CanReceiver_proof --------------------------
(***************************************************************************)
(* Proofs about CanReceiver, for any number of frames of any kind, any     *)
(* place at which the session attaches and any number of lost bytes.       *)
(***************************************************************************)
EXTENDS CanReceiver, SequenceTheorems, TLAPS

\* The arithmetic of places and frames: a byte has one place in one frame, and
\* the next byte has the next place of it or the first one of the next frame.
LEMMA PlaceAndFrame ==
  ASSUME NEW n \in Nat \ {0}
  PROVE  /\ Place(n) \in 1..FrameLength /\ FrameOf(n) \in Nat \ {0}
         /\ n = (FrameOf(n) - 1) * FrameLength + Place(n)
         /\ Place(n) = FrameLength =>
              Place(n + 1) = 1 /\ FrameOf(n + 1) = FrameOf(n) + 1
         /\ Place(n) # FrameLength =>
              Place(n + 1) = Place(n) + 1 /\ FrameOf(n + 1) = FrameOf(n)
BY DEF Place, FrameOf, FrameLength

LEMMA FrameBytesAt ==
  ASSUME NEW f \in Nat \ {0}, NEW i \in 1..FrameLength
  PROVE  FrameBytes(f)[i] = (f - 1) * FrameLength + i
BY DEF FrameBytes

LEMMA BytesArePositive == \A n \in Bytes : n \in Nat \ {0}
BY BoundsAssumption DEF Bytes, FrameLength

\* One byte more: the buffer is cleared or longer by that byte.
LEMMA ExtendType ==
  ASSUME NEW b \in Seq(Bytes), Len(b) < FrameLength, NEW n \in Bytes
  PROVE  /\ Append(b, n) \in Seq(Bytes) /\ Len(Append(b, n)) = Len(b) + 1
         /\ Append(b, n)[Len(b) + 1] = n
         /\ \A i \in 1..Len(b) : Append(b, n)[i] = b[i]
         /\ Extend(b, n) \in Seq(Bytes) /\ Len(Extend(b, n)) < FrameLength
         /\ Extend(b, n) \in {<<>>, Append(b, n)}
<1>1. /\ Append(b, n) \in Seq(Bytes) /\ Len(Append(b, n)) = Len(b) + 1
      /\ Append(b, n)[Len(b) + 1] = n
      /\ \A i \in 1..Len(b) : Append(b, n)[i] = b[i]
  BY AppendProperties
<1>2. <<>> \in Seq(Bytes) /\ Len(<<>>) = 0
  BY EmptySeq
<1>3. Len(b) \in Nat
  BY LenProperties
<1>4. Extend(b, n) \in {<<>>, Append(b, n)}
  BY DEF Extend
<1>5. Len(Append(b, n)) >= FrameLength => Extend(b, n) = <<>>
  BY DEF Extend
<1>6. Extend(b, n) \in Seq(Bytes)
  BY <1>1, <1>2, <1>4
<1>7. Len(Extend(b, n)) < FrameLength
  <2>1. CASE Extend(b, n) = <<>>
    BY <1>2, <2>1 DEF FrameLength
  <2>2. CASE Extend(b, n) # <<>>
    <3>1. Extend(b, n) = Append(b, n) /\ ~(Len(Append(b, n)) >= FrameLength)
      BY <1>4, <1>5, <2>2
    <3>2. QED
      BY <3>1, <1>1, <1>3 DEF FrameLength
  <2>3. QED
    BY <2>1, <2>2
<1>8. QED
  BY <1>1, <1>4, <1>6, <1>7
LEMMA ExtendCases ==
  ASSUME NEW b \in Seq(Bytes), Len(b) < FrameLength, NEW n \in Bytes
  PROVE  /\ Len(b) = 1 => Extend(b, n) = IF Is41(b[1]) /\ Is54(n) THEN Append(b, n) ELSE <<>>
         /\ Len(b) = 16 => Extend(b, n) = <<>>
         /\ Len(b) \notin {1, 16} => Extend(b, n) = Append(b, n)
<1> DEFINE len == Len(b)
           longer == Append(b, n)
           len1 == Len(longer)
<1>. HIDE DEF len, longer, len1
<1>1. len \in Nat /\ len < 17 /\ len1 = len + 1
  BY LenProperties, ExtendType DEF len, len1, longer, FrameLength
<1>2. longer[len + 1] = n /\ \A i \in 1..len : longer[i] = b[i]
  BY ExtendType DEF len, longer
<1>3. Extend(b, n) = IF \/ len1 = 2 /\ ~(Is41(longer[1]) /\ Is54(longer[2]))
                        \/ len1 >= 17
                     THEN <<>> ELSE longer
  BY DEF Extend, len1, longer, FrameLength
<1>4. len = 1 => Extend(b, n) = IF Is41(b[1]) /\ Is54(n) THEN longer ELSE <<>>
  BY <1>1, <1>2, <1>3
<1>5. len = 16 => Extend(b, n) = <<>>
  BY <1>1, <1>3
<1>6. len \notin {1, 16} => Extend(b, n) = longer
  BY <1>1, <1>3
<1>7. QED
  BY <1>4, <1>5, <1>6 DEF len, longer
-----------------------------------------------------------------------------
LEMMA InitTypeOK == Init => TypeOK
<1> SUFFICES ASSUME Init PROVE TypeOK
  OBVIOUS
<1>1. next \in 1..(MaxFrames * FrameLength) /\ next \in Nat
  <2>1. next \in 1..FrameLength
    BY AttachAssumption DEF Init
  <2>2. QED
    BY <2>1, BoundsAssumption DEF FrameLength
<1>2. lost \subseteq Bytes
  BY <1>1, BoundsAssumption DEF Init, Bytes, FrameLength
<1>3. buffer \in Seq(Bytes) /\ Len(buffer) = 0 /\ returned \in Seq(Bytes) /\ Len(returned) = 0
  BY EmptySeq DEF Init
<1>4. losses \in 0..MaxLosses /\ missed \in Nat
  BY BoundsAssumption DEF Init
<1>5. next \in 1..(MaxFrames * FrameLength + 1)
  BY <1>1, BoundsAssumption DEF FrameLength
<1>6. kind \in [1..MaxFrames -> Kinds]
  BY DEF Init
<1>7. QED
  BY <1>2, <1>3, <1>4, <1>5, <1>6 DEF TypeOK, FrameLength

LEMMA NextTypeOK == TypeOK /\ [Next]_vars => TypeOK'
<1> SUFFICES ASSUME TypeOK, [Next]_vars PROVE TypeOK'
  OBVIOUS
<1>a. next \in Bytes => next + 1 \in 1..(MaxFrames * FrameLength + 1)
  BY BoundsAssumption DEF Bytes, FrameLength
<1>1. CASE Receive
  <2>1. buffer' \in Seq(Bytes) /\ Len(buffer') < FrameLength
    BY <1>1, ExtendType DEF Receive, TypeOK
  <2>2. returned' \in Seq(Bytes) /\ Len(returned') \in {0, FrameLength}
    <3>1. CASE Returns(buffer, next)
      <4>1. Len(buffer) \in Nat /\ Len(buffer) < FrameLength /\ Len(buffer) + 1 >= FrameLength
        BY <3>1, LenProperties DEF Returns, TypeOK
      <4>2. /\ Append(buffer, next) \in Seq(Bytes)
            /\ Len(Append(buffer, next)) = Len(buffer) + 1
        BY <1>1, ExtendType DEF Receive, TypeOK
      <4>3. QED
        BY <1>1, <3>1, <4>1, <4>2 DEF Receive, FrameLength
    <3>2. CASE ~Returns(buffer, next)
      BY <1>1, <3>2 DEF Receive, TypeOK
    <3>3. QED
      BY <3>1, <3>2
  <2>3. missed' \in Nat
    BY <1>1 DEF Receive, CountMissed, TypeOK
  <2>4. QED
    BY <1>1, <1>a, <2>1, <2>2, <2>3 DEF Receive, TypeOK
<1>2. CASE Lose
  BY <1>2, <1>a, BoundsAssumption DEF Lose, TypeOK
<1>3. CASE UNCHANGED vars
  BY <1>3 DEF vars, TypeOK
<1>4. QED
  BY <1>1, <1>2, <1>3 DEF Next

\* Whatever arrives, the parser's buffer holds less than a frame and what is
\* returned has the length of one.
THEOREM TypeCorrect == Spec => []TypeOK
BY InitTypeOK, NextTypeOK, PTL DEF Spec
-----------------------------------------------------------------------------
(***************************************************************************)
(* What the buffer holds, followed by the byte to come, is a stretch of    *)
(* the stream: only lost bytes are missing from it (l is the set of them,  *)
(* k how many the line has lost).  This is what NeverTorn rests on.        *)
(***************************************************************************)
Stretch(s, l, k) ==
  /\ \A i, j \in 1..Len(s) : i <= j => j - i <= s[j] - s[i] /\ s[j] - s[i] <= (j - i) + k
  /\ \A i \in 1..(Len(s) - 1) : \A n \in Nat : s[i] < n /\ n < s[i + 1] => n \in l

BufferIsStretch == Stretch(Append(buffer, next), lost, losses)

LEMMA StretchStarts ==
  ASSUME NEW n \in Nat, NEW l, NEW k \in Nat
  PROVE  Stretch(Append(<<>>, n), l, k)
<1>1. <<>> \in Seq(Nat) /\ Len(<<>>) = 0
  BY EmptySeq
<1>2. Len(Append(<<>>, n)) = 1 /\ Append(<<>>, n)[1] = n
  BY <1>1, AppendProperties
<1>3. QED
  BY <1>2 DEF Stretch

LEMMA OneFurther ==
  ASSUME NEW a \in Int, NEW b \in Int, NEW k \in Nat, a <= b, b <= a + k
  PROVE  /\ a + 1 <= b + 1 /\ b + 1 <= (a + 1) + k
         /\ a <= b + 1 /\ b + 1 <= a + (k + 1) /\ b <= a + (k + 1)
OBVIOUS

\* The byte to come arrives: the next one of the stream is to come.
LEMMA StretchGrows ==
  ASSUME NEW b \in Seq(Nat), NEW n \in Nat, NEW l, NEW k \in Nat,
         Stretch(Append(b, n), l, k)
  PROVE  Stretch(Append(Append(b, n), n + 1), l, k)
<1> DEFINE s == Append(b, n)
           t == Append(s, n + 1)
<1>1. /\ s \in Seq(Nat) /\ Len(s) = Len(b) + 1 /\ s[Len(b) + 1] = n
      /\ Len(b) \in Nat
  BY AppendProperties, LenProperties
<1>2. /\ Len(t) = Len(s) + 1 /\ t[Len(s) + 1] = n + 1
      /\ \A i \in 1..Len(s) : t[i] = s[i] /\ s[i] \in Nat
  BY <1>1, AppendProperties, ElementOfSeq
<1>. HIDE DEF s, t
<1>3. \A i, j \in 1..Len(s) : i <= j => j - i <= s[j] - s[i] /\ s[j] - s[i] <= (j - i) + k
  BY DEF s, Stretch
<1>4. ASSUME NEW i \in 1..Len(t), NEW j \in 1..Len(t), i <= j
      PROVE  j - i <= t[j] - t[i] /\ t[j] - t[i] <= (j - i) + k
  <2>1. CASE j <= Len(s)
    <3>1. i \in 1..Len(s) /\ j \in 1..Len(s)
      BY <1>1, <1>2, <1>4, <2>1
    <3>2. t[i] = s[i] /\ t[j] = s[j]
      BY <1>2, <3>1
    <3>3. QED
      BY <1>3, <1>4, <3>1, <3>2
  <2>2. CASE j = Len(s) + 1 /\ i <= Len(s)
    <3>1. i \in 1..Len(s) /\ Len(s) \in 1..Len(s)
      BY <1>1, <2>2
    <3>2. Len(s) - i <= s[Len(s)] - s[i] /\ s[Len(s)] - s[i] <= (Len(s) - i) + k
      BY <1>3, <3>1
    <3>3. t[i] = s[i] /\ s[i] \in Nat /\ t[j] = s[Len(s)] + 1 /\ s[Len(s)] \in Nat
      BY <1>1, <1>2, <2>2, <3>1
    <3>. HIDE DEF s, t
    <3>4. s[Len(s)] \in Int /\ t[j] \in Int /\ t[i] \in Int /\ Len(s) \in Nat
      BY SMTT(20), <1>1, <3>3
    <3>5. j - i = (Len(s) - i) + 1 /\ t[j] - t[i] = (s[Len(s)] - s[i]) + 1
      BY SMTT(20), <2>2, <3>1, <3>3, <3>4
    <3>6. Len(s) - i \in Int /\ s[Len(s)] - s[i] \in Int
      BY SMTT(20), <3>1, <3>3, <3>4
    <3>7. QED
      BY <3>2, <3>5, <3>6, OneFurther
  <2>3. CASE i = Len(s) + 1
    BY <1>1, <1>2, <1>4, <2>3
  <2>4. QED
    BY <1>1, <1>2, <1>4, <2>1, <2>2, <2>3
<1>5. ASSUME NEW i \in 1..(Len(t) - 1), NEW m \in Nat, t[i] < m, m < t[i + 1]
      PROVE  m \in l
  <2>1. i # Len(s)
    BY <1>1, <1>2, <1>5
  <2>2. i \in 1..(Len(s) - 1) /\ i \in 1..Len(s) /\ i + 1 \in 1..Len(s)
    BY <1>1, <1>2, <2>1
  <2>3. s[i] < m /\ m < s[i + 1]
    BY <1>2, <1>5, <2>2
  <2>4. \A h \in 1..(Len(s) - 1) : \A o \in Nat : s[h] < o /\ o < s[h + 1] => o \in l
    BY DEF s, Stretch
  <2>5. QED
    BY <2>2, <2>3, <2>4
<1>6. QED
  BY <1>4, <1>5 DEF Stretch, s, t

\* The byte to come is lost instead.
LEMMA StretchTears ==
  ASSUME NEW b \in Seq(Nat), NEW n \in Nat, NEW l, NEW k \in Nat,
         Stretch(Append(b, n), l, k)
  PROVE  Stretch(Append(b, n + 1), l \union {n}, k + 1)
<1> DEFINE s == Append(b, n)
           t == Append(b, n + 1)
<1>1. /\ Len(b) \in Nat
      /\ Len(s) = Len(b) + 1 /\ s[Len(b) + 1] = n
      /\ Len(t) = Len(b) + 1 /\ t[Len(b) + 1] = n + 1
      /\ \A i \in 1..Len(b) : s[i] = b[i] /\ t[i] = b[i] /\ b[i] \in Nat
  BY AppendProperties, LenProperties, ElementOfSeq
<1>. HIDE DEF s, t
<1>3. \A i, j \in 1..Len(s) : i <= j => j - i <= s[j] - s[i] /\ s[j] - s[i] <= (j - i) + k
  BY DEF s, Stretch
<1>4. ASSUME NEW i \in 1..Len(t), NEW j \in 1..Len(t), i <= j
      PROVE  j - i <= t[j] - t[i] /\ t[j] - t[i] <= (j - i) + (k + 1)
  <2>1. j - i <= s[j] - s[i] /\ s[j] - s[i] <= (j - i) + k
    BY <1>1, <1>3, <1>4
  <2>2. CASE j <= Len(b)
    <3>1. s[i] \in Nat /\ s[j] \in Nat /\ t[i] = s[i] /\ t[j] = s[j]
      BY SMTT(20), <1>1, <1>4, <2>2
    <3>2. s[j] - s[i] \in Int /\ j - i \in Int
      BY <1>1, <3>1
    <3>3. QED
      BY <2>1, <3>1, <3>2, OneFurther
  <2>3. CASE j = Len(b) + 1 /\ i <= Len(b)
    <3>1. s[i] \in Nat /\ s[j] = n /\ t[i] = s[i] /\ t[j] = n + 1
      BY <1>1, <1>4, <2>3
    <3>2. i \in Int /\ j \in Int
      BY <1>1
    <3>3. j - i <= n - s[i] /\ n - s[i] <= (j - i) + k
      BY <2>1, <3>1
    <3>4. j - i <= (n + 1) - s[i] /\ (n + 1) - s[i] <= (j - i) + (k + 1)
      <4>1. n - s[i] \in Int /\ j - i \in Int /\ (n + 1) - s[i] = (n - s[i]) + 1
        BY <3>1, <3>2
      <4>2. QED
        BY <3>3, <4>1, OneFurther
    <3>5. QED
      BY <3>1, <3>4
  <2>4. CASE i = Len(b) + 1
    <3>1. i = j /\ t[i] \in Nat
      BY <1>1, <1>4, <2>4
    <3>2. QED
      BY <3>1
  <2>5. QED
    BY <1>1, <1>4, <2>2, <2>3, <2>4
<1>5. ASSUME NEW i \in 1..(Len(t) - 1), NEW m \in Nat, t[i] < m, m < t[i + 1]
      PROVE  m \in l \union {n}
  <2>1. s[i] < m /\ (m < s[i + 1] \/ m = n)
    <3>1. i \in 1..Len(b) /\ t[i] = s[i]
      BY <1>1, <1>5
    <3>2. CASE i + 1 <= Len(b)
      BY <1>1, <1>5, <3>1, <3>2
    <3>3. CASE i = Len(b)
      BY <1>1, <1>5, <3>1, <3>3
    <3>4. QED
      BY <1>1, <3>1, <3>2, <3>3
  <2>2. \A h \in 1..(Len(s) - 1) : \A o \in Nat : s[h] < o /\ o < s[h + 1] => o \in l
    BY DEF s, Stretch
  <2>3. i \in 1..(Len(s) - 1)
    BY <1>1
  <2>4. QED
    BY <2>1, <2>2, <2>3
<1>6. QED
  BY <1>4, <1>5 DEF Stretch, s, t

LEMMA BufferIsStretchInductive ==
  TypeOK /\ BufferIsStretch /\ [Next]_vars => BufferIsStretch'
<1> SUFFICES ASSUME TypeOK, BufferIsStretch, [Next]_vars PROVE BufferIsStretch'
  OBVIOUS
<1>1. buffer \in Seq(Nat) /\ next \in Nat /\ losses \in Nat
  <2>1. Bytes \subseteq Nat
    BY BytesArePositive
  <2>2. buffer \in Seq(Bytes) /\ losses \in 0..MaxLosses /\ next \in 1..(MaxFrames * FrameLength + 1)
    BY DEF TypeOK
  <2>3. buffer \in Seq(Nat)
    BY <2>1, <2>2, SeqMonotonic
  <2>4. QED
    BY <2>2, <2>3, BoundsAssumption DEF FrameLength
<1>2. CASE Receive
  <2>1. /\ next' = next + 1 /\ UNCHANGED <<lost, losses>>
        /\ buffer' \in {<<>>, Append(buffer, next)}
    BY <1>2, ExtendType DEF Receive, TypeOK
  <2>2. CASE buffer' = <<>>
    BY <1>1, <2>1, <2>2, StretchStarts DEF BufferIsStretch
  <2>3. CASE buffer' = Append(buffer, next)
    BY <1>1, <2>1, <2>3, StretchGrows DEF BufferIsStretch
  <2>4. QED
    BY <2>1, <2>2, <2>3
<1>3. CASE Lose
  BY <1>1, <1>3, StretchTears DEF Lose, BufferIsStretch
<1>4. CASE UNCHANGED vars
  BY <1>4 DEF vars, BufferIsStretch
<1>5. QED
  BY <1>2, <1>3, <1>4 DEF Next
-----------------------------------------------------------------------------
\* What is in the buffer behind a pair began with a header, or what looks like one.
HeaderSeen == Len(buffer) >= 2 => Is41(buffer[1]) /\ Is54(buffer[2])

LEMMA HeaderSeenInductive == TypeOK /\ HeaderSeen /\ [Next]_vars => HeaderSeen'
<1> SUFFICES ASSUME TypeOK, HeaderSeen, [Next]_vars PROVE HeaderSeen'
  OBVIOUS
<1>1. kind' = kind
  BY DEF Next, Receive, Lose, vars
<1>2. HeaderSeen' <=> (Len(buffer') >= 2 => Is41(buffer'[1]) /\ Is54(buffer'[2]))
  BY <1>1 DEF HeaderSeen, Is41, Is54
<1>3. CASE Receive
  <2> DEFINE len == Len(buffer)
             longer == Append(buffer, next)
  <2>. HIDE DEF len, longer
  <2>1. /\ len = 1 => buffer' = IF Is41(buffer[1]) /\ Is54(next) THEN longer ELSE <<>>
        /\ len = 16 => buffer' = <<>>
        /\ len \notin {1, 16} => buffer' = longer
    BY <1>3, ExtendCases DEF Receive, TypeOK, len, longer
  <2>2. /\ Len(longer) = len + 1 /\ longer[len + 1] = next
        /\ \A i \in 1..len : longer[i] = buffer[i]
        /\ len \in Nat
    BY <1>3, ExtendType, LenProperties DEF Receive, TypeOK, len, longer
  <2>3. CASE buffer' = <<>>
    BY <1>2, <2>3, EmptySeq
  <2>4. CASE len = 0 /\ buffer' = longer
    <3>1. Len(buffer') = 1
      BY <2>2, <2>4
    <3>2. QED
      BY <1>2, <3>1
  <2>5. CASE len = 1 /\ buffer' = longer /\ Is41(buffer[1]) /\ Is54(next)
    BY <1>2, <2>2, <2>5
  <2>6. CASE len >= 2 /\ buffer' = longer
    <3>1. Is41(buffer[1]) /\ Is54(buffer[2])
      BY <2>6 DEF HeaderSeen, len
    <3>2. longer[1] = buffer[1] /\ longer[2] = buffer[2]
      BY <2>2, <2>6
    <3>3. QED
      BY <1>2, <2>6, <3>1, <3>2
  <2>7. QED
    BY <2>1, <2>2, <2>3, <2>4, <2>5, <2>6
<1>4. CASE ~Receive
  BY <1>2, <1>4 DEF Next, Lose, vars, HeaderSeen
<1>5. QED
  BY <1>3, <1>4

\* NeverTorn of a buffer r, with the set and the number of lost bytes.
OfOneFrame(r, l, k) ==
  LET f == FrameOf(r[7])
      displaced(i) == r[i] - FrameBytes(f)[i]
  IN  /\ k < FrameLength =>
           /\ \A i \in 1..2 :
                displaced(i) = 0 \/ (Place(r[i]) = 12 + i
                                     /\ kind[FrameOf(r[i])] = "lookalike")
           /\ \A i \in 3..7 : displaced(i) = 0
      /\ \A i \in 8..FrameLength : displaced(i) \in 0..k
      /\ (\A i \in 8..15 : FrameBytes(f)[i] \notin l) => \A i \in 8..15 : displaced(i) = 0

\* Two bytes so near each other that their places tell whether their frames are one.
LEMMA SameFrame ==
  ASSUME NEW x \in Nat, NEW y \in Nat, NEW p \in 1..7,
         7 - p <= ((x - 1) * 17 + 7) - ((y - 1) * 17 + p),
         ((x - 1) * 17 + 7) - ((y - 1) * 17 + p) < (7 - p) + 17
  PROVE  x = y
OBVIOUS

LEMMA InBetween ==
  ASSUME NEW b \in Nat, NEW x \in Nat, NEW i \in 3..7,
         i - 3 <= x - (b + 3), 7 - i <= (b + 7) - x
  PROVE  x = b + i
OBVIOUS

LEMMA StretchIsOfOneFrame ==
  ASSUME NEW r \in Seq(Bytes), Len(r) = FrameLength, NEW l, NEW k \in Nat,
         Stretch(r, l, k), Accepted(r), Is41(r[1]), Is54(r[2])
  PROVE  OfOneFrame(r, l, k)
<1> DEFINE f == FrameOf(r[7])
           base == (f - 1) * 17
<1>1. \A i \in 1..17 : r[i] \in Nat \ {0}
  BY ElementOfSeq, BytesArePositive DEF FrameLength
<1>2. Place(r[3]) = 3 /\ Place(r[7]) = 7
  BY DEF Accepted
<1>3. f \in Nat \ {0} /\ r[7] = base + 7
  <2>1. r[7] \in Nat \ {0}
    BY <1>1
  <2>2. QED
    BY <1>2, <2>1, PlaceAndFrame DEF FrameLength
<1>4. FrameOf(r[3]) \in Nat /\ r[3] = (FrameOf(r[3]) - 1) * 17 + 3
  <2>1. r[3] \in Nat \ {0}
    BY <1>1
  <2>2. QED
    BY <1>2, <2>1, PlaceAndFrame DEF FrameLength
<1>5. \A i \in 1..17 : FrameBytes(f)[i] = base + i
  BY <1>3, FrameBytesAt DEF FrameLength
<1>6. \A i, j \in 1..17 : i <= j => j - i <= r[j] - r[i] /\ r[j] - r[i] <= (j - i) + k
  BY DEF Stretch, FrameLength
<1>6a. \A i \in 1..16 : \A n \in Nat : r[i] < n /\ n < r[i + 1] => n \in l
  <2>1. Len(r) - 1 = 16
    BY DEF FrameLength
  <2>2. QED
    BY <2>1 DEF Stretch
<1>7. base \in Nat
  BY <1>3
<1>8. k < 17 => \A i \in 3..7 : r[i] = base + i
  <2> SUFFICES ASSUME k < 17, NEW i \in 3..7 PROVE r[i] = base + i
    OBVIOUS
  <2>0. i \in 1..17 /\ 3 \in 1..17 /\ 7 \in 1..17 /\ 3 <= i /\ i <= 7
    OBVIOUS
  <2>1. 4 <= r[7] - r[3] /\ r[7] - r[3] <= 4 + k
    BY <1>6
  <2>2. r[3] = base + 3
    <3>1. 4 <= r[7] - r[3] /\ r[7] - r[3] < 21
      BY <1>1, <2>1
    <3>2. f = FrameOf(r[3])
      BY <1>3, <1>4, <3>1, SameFrame
    <3>3. QED
      BY <1>4, <3>2
  <2>3. i - 3 <= r[i] - r[3] /\ 7 - i <= r[7] - r[i]
    BY <1>6, <2>0
  <2>4. r[i] \in Nat
    BY <1>1, <2>0
  <2>5. r[7] = base + 7
    BY <1>3
  <2>. HIDE DEF base, f
  <2>6. i - 3 <= r[i] - (base + 3) /\ 7 - i <= (base + 7) - r[i]
    BY <2>2, <2>3, <2>5
  <2>7. QED
    BY <1>7, <2>4, <2>6, InBetween
<1>9. ASSUME \A i \in 8..15 : FrameBytes(f)[i] \notin l
      PROVE  \A i \in 8..15 : r[i] = base + i
  <2>1. ASSUME NEW i \in 7..14, NEW j \in 8..15, j = i + 1, r[i] = base + i
        PROVE  r[j] = base + j
    <3>0. i \in 1..17 /\ j \in 1..17 /\ i \in 1..16 /\ i <= j /\ j - i = 1
      BY <2>1
    <3>1. FrameBytes(f)[j] = base + j
      BY <1>5, <3>0
    <3>2. base + j \notin l
      BY <1>9, <3>1
    <3>3. \A n \in Nat : r[i] < n /\ n < r[j] => n \in l
      BY <1>6a, <2>1, <3>0
    <3>4. 1 <= r[j] - r[i]
      BY <1>6, <3>0
    <3>5. r[i] \in Nat /\ r[j] \in Nat
      BY <1>1, <3>0
    <3>. HIDE DEF base
    <3>6. base + j \in Nat
      BY <1>7
    <3>7. ~(base + j < r[j])
      BY <1>7, <2>1, <3>2, <3>3, <3>5, <3>6
    <3>8. QED
      BY <1>7, <2>1, <3>4, <3>5, <3>6, <3>7
  <2>. HIDE DEF base
  <2>2. r[8] = base + 8
    BY <1>3, <2>1
  <2>3. r[9] = base + 9
    BY <2>2, <2>1
  <2>4. r[10] = base + 10
    BY <2>1, <2>3
  <2>5. r[11] = base + 11
    BY <2>1, <2>4
  <2>6. r[12] = base + 12
    BY <2>1, <2>5
  <2>7. r[13] = base + 13
    BY <2>1, <2>6
  <2>8. r[14] = base + 14
    BY <2>1, <2>7
  <2>9. r[15] = base + 15
    BY <2>1, <2>8
  <2>10. QED
    BY <2>2, <2>3, <2>4, <2>5, <2>6, <2>7, <2>8, <2>9
<1>10. ASSUME k < 17, NEW i \in 1..2
       PROVE  r[i] = base + i \/ (Place(r[i]) = 12 + i /\ kind[FrameOf(r[i])] = "lookalike")
  <2>0. i \in 1..17 /\ i \in 1..7 /\ 7 \in 1..17 /\ i <= 7
    OBVIOUS
  <2>1. r[i] \in Nat \ {0} /\ r[7] \in Nat \ {0}
    BY <1>1, <2>0
  <2>2. 7 - i <= r[7] - r[i] /\ r[7] - r[i] <= (7 - i) + k
    BY <1>6, <2>0
  <2>3. Place(r[i]) = i \/ (Place(r[i]) = 12 + i /\ kind[FrameOf(r[i])] = "lookalike")
    <3>1. CASE i = 1
      BY <3>1 DEF Is41
    <3>2. CASE i = 2
      BY <3>2 DEF Is54
    <3>3. QED
      BY <3>1, <3>2
  <2>4. ASSUME Place(r[i]) = i PROVE r[i] = base + i
    <3>1. FrameOf(r[i]) \in Nat /\ r[i] = (FrameOf(r[i]) - 1) * 17 + i
      BY <2>1, <2>4, PlaceAndFrame DEF FrameLength
    <3>2. r[7] = (f - 1) * 17 + 7 /\ f \in Nat
      BY <1>3
    <3>. HIDE DEF f
    <3>3. 7 - i <= r[7] - r[i] /\ r[7] - r[i] < (7 - i) + 17
      BY <1>10, <2>1, <2>2
    <3>4. f = FrameOf(r[i])
      BY <2>0, <3>1, <3>2, <3>3, SameFrame
    <3>5. QED
      BY <3>1, <3>4
  <2>5. QED
    BY <2>3, <2>4
<1>11. ASSUME NEW i \in 8..17
       PROVE  r[i] - (base + i) \in 0..k
  <2>0. i \in 1..17 /\ 7 \in 1..17 /\ 7 <= i
    OBVIOUS
  <2>1. r[i] \in Nat /\ r[7] \in Nat
    BY <1>1, <2>0
  <2>2. i - 7 <= r[i] - r[7] /\ r[i] - r[7] <= (i - 7) + k
    BY <1>6, <2>0
  <2>. HIDE DEF base
  <2>3. QED
    BY <1>3, <1>7, <2>1, <2>2
<1>. HIDE DEF base, f
<1>12. ASSUME NEW i \in 1..17
       PROVE  r[i] \in Nat /\ FrameBytes(f)[i] = base + i /\ base + i \in Nat
  <2>1. r[i] \in Nat
    BY <1>1
  <2>2. FrameBytes(f)[i] = base + i
    BY <1>5
  <2>3. QED
    BY <1>7, <2>1, <2>2
<1>13. k < 17 => /\ \A i \in 1..2 : r[i] - FrameBytes(f)[i] = 0
                                      \/ (Place(r[i]) = 12 + i /\ kind[FrameOf(r[i])] = "lookalike")
                 /\ \A i \in 3..7 : r[i] - FrameBytes(f)[i] = 0
  <2>1. \A i \in 1..7 : i \in 1..17
    OBVIOUS
  <2>2. ASSUME NEW i \in 1..17, r[i] = base + i PROVE r[i] - FrameBytes(f)[i] = 0
    <3>1. r[i] \in Nat /\ FrameBytes(f)[i] = r[i]
      BY <1>12, <2>2
    <3>2. QED
      BY <3>1
  <2>3. QED
    BY <1>8, <1>10, <2>1, <2>2
<1>14. ASSUME NEW i \in 8..17
       PROVE  r[i] - FrameBytes(f)[i] \in 0..k
  <2>1. i \in 1..17
    OBVIOUS
  <2>2. FrameBytes(f)[i] = base + i
    BY <1>12, <2>1
  <2>3. QED
    BY <1>11, <2>2
<1>15. ASSUME \A i \in 8..15 : FrameBytes(f)[i] \notin l, NEW i \in 8..15
       PROVE  r[i] - FrameBytes(f)[i] = 0
  <2>1. i \in 1..17
    OBVIOUS
  <2>2. r[i] \in Nat /\ FrameBytes(f)[i] = base + i
    BY <1>12, <2>1
  <2>3. r[i] = base + i
    BY <1>9, <1>15
  <2>4. QED
    BY <2>2, <2>3
<1>16. QED
  BY <1>13, <1>14, <1>15 DEF OfOneFrame, FrameLength, f

LEMMA NeverTornInductive ==
  TypeOK /\ BufferIsStretch /\ HeaderSeen /\ NeverTorn /\ [Next]_vars => NeverTorn'
<1> SUFFICES ASSUME TypeOK, BufferIsStretch, HeaderSeen, NeverTorn, [Next]_vars PROVE NeverTorn'
  OBVIOUS
<1>1. losses \in Nat /\ kind' = kind
  BY BoundsAssumption DEF TypeOK, Next, Receive, Lose, vars
<1>2. NeverTorn <=> (returned # <<>> => OfOneFrame(returned, lost, losses))
  BY DEF NeverTorn, OfOneFrame
<1>3. NeverTorn' <=> (returned' # <<>> => OfOneFrame(returned', lost', losses'))
  BY <1>1 DEF NeverTorn, OfOneFrame
<1>4. CASE Receive
  <2>1. CASE Returns(buffer, next)
    <3>1. /\ Append(buffer, next) \in Seq(Bytes)
          /\ Len(Append(buffer, next)) = Len(buffer) + 1
          /\ Len(buffer) \in Nat /\ Len(buffer) < FrameLength
      BY <1>4, ExtendType, LenProperties DEF Receive, TypeOK
    <3>2. Len(Append(buffer, next)) = FrameLength /\ Accepted(Append(buffer, next))
      BY <2>1, <3>1 DEF Returns, FrameLength
    <3>3. Is41(Append(buffer, next)[1]) /\ Is54(Append(buffer, next)[2])
      <4>1. Len(buffer) >= 2 /\ 1 \in 1..Len(buffer) /\ 2 \in 1..Len(buffer)
        BY <3>1, <3>2 DEF FrameLength
      <4>2. QED
        BY <1>4, <4>1, ExtendType DEF HeaderSeen, Receive, TypeOK
    <3>4. OfOneFrame(Append(buffer, next), lost, losses)
      BY <1>1, <3>1, <3>2, <3>3, StretchIsOfOneFrame DEF BufferIsStretch
    <3>5. QED
      BY <1>3, <1>4, <2>1, <3>4 DEF Receive
  <2>2. CASE ~Returns(buffer, next)
    BY <1>2, <1>3, <1>4, <2>2 DEF Receive
  <2>3. QED
    BY <2>1, <2>2
<1>5. CASE Lose
  <2>1. returned' = returned /\ lost \subseteq lost' /\ losses' = losses + 1
    BY <1>5 DEF Lose
  <2>2. OfOneFrame(returned, lost, losses) => OfOneFrame(returned, lost', losses')
    <3>1. /\ losses' < FrameLength => losses < FrameLength
          /\ \A d \in 0..losses : d \in 0..losses'
      BY <1>1, <2>1 DEF FrameLength
    <3>2. QED
      BY <2>1, <3>1 DEF OfOneFrame
  <2>3. QED
    BY <1>2, <1>3, <2>1, <2>2
<1>6. CASE UNCHANGED vars
  BY <1>2, <1>3, <1>6 DEF vars
<1>7. QED
  BY <1>4, <1>5, <1>6 DEF Next

\* Of a frame that read_serial_data returns, the identifier, the length and, but
\* for look-alikes, the header are of one frame if fewer than 17 bytes were lost;
\* the bytes after them are displaced by no more than the losses, and the data are
\* exact if no byte of them was lost: of any stream, attached anywhere.
THEOREM FramesAreNeverTorn == Spec => []NeverTorn
<1>1. Init => BufferIsStretch
  <2>1. Init => next \in Nat
    BY AttachAssumption DEF Init
  <2>2. QED
    BY <2>1, StretchStarts DEF Init, BufferIsStretch
<1>2. Init => NeverTorn /\ HeaderSeen
  BY EmptySeq DEF Init, NeverTorn, HeaderSeen
<1>3. QED
  BY <1>1, <1>2, TypeCorrect, BufferIsStretchInductive, HeaderSeenInductive,
     NeverTornInductive, PTL DEF Spec
-----------------------------------------------------------------------------
(***************************************************************************)
(* How many more whole frames the parser will miss, whatever frames come,  *)
(* if no byte is lost any more: the potential that Resynchronises rests    *)
(* on.  A search for the header that begins at place q of a frame passes   *)
(* the end of that frame unless q = 1; a frame has an odd number of bytes, *)
(* so the search meets the next header when q is even and misses one more  *)
(* frame when it is odd.  A parser that counts to 17 out of step begins to *)
(* search where it has counted to.                                         *)
(***************************************************************************)

\* w: no byte of the frame so far is lost.
SearchMisses(q, w) == IF q = 1 THEN 0 ELSE (IF w THEN 1 ELSE 0) + (q % 2)

\* h: the buffer holds the first byte of a header and the second comes next.
Misses(len, p, w, h) ==
  IF len = 0 THEN SearchMisses(p, w)
  ELSE IF len = 1 THEN
    IF h THEN 0
    ELSE IF p = FrameLength THEN (IF w THEN 1 ELSE 0) ELSE SearchMisses(p + 1, w)
  ELSE IF len = p - 1 THEN 0
  ELSE IF len < p - 1 THEN SearchMisses(p - len, TRUE)
  ELSE SearchMisses(p + FrameLength - len, w)

Untouched(n, l) == \A m \in 1..(n - 1) : n - Place(n) < m => m \notin l
HeaderBegun(b, n) == Len(b) = 1 /\ Place(b[1]) = 1 /\ Place(n) = 2
ToMiss == Misses(Len(buffer), Place(next), Untouched(next, lost), HeaderBegun(buffer, next))

NoLookalikes == \A f \in 1..MaxFrames : kind[f] # "lookalike"

\* A buffer of one byte holds the last that arrived.
FirstByteIsLatest ==
  Len(buffer) = 1 =>
    buffer[1] < next /\ \A m \in 1..(next - 1) : buffer[1] < m => m \in lost

\* Behind the frame on the line, the parser has lost a byte of it; level with a
\* frame no byte of which is lost, it holds that frame's bytes.
StepOfParser ==
  Len(buffer) >= 2 =>
    /\ Len(buffer) < Place(next) - 1 => ~Untouched(next, lost)
    /\ Len(buffer) = Place(next) - 1 /\ Untouched(next, lost) =>
         \A i \in 1..Len(buffer) : buffer[i] = (next - Place(next)) + i
    /\ losses = 0 => Len(buffer) = Place(next) - 1

MissesBounded == missed + ToMiss <= IF losses <= 1 THEN 1 ELSE 2

ResyncInv ==
  NoLookalikes =>
    /\ lost \subseteq 1..(next - 1)
    /\ FirstByteIsLatest
    /\ StepOfParser
    /\ MissesBounded

LEMMA UntouchedStep ==
  ASSUME NEW n \in Nat \ {0}, NEW l, l \subseteq 1..(n - 1)
  PROVE  /\ Place(n) = 1 => Untouched(n, l)
         /\ Place(n) = FrameLength =>
              \A k : Untouched(n + 1, k)
         /\ Place(n) # FrameLength =>
              /\ Untouched(n + 1, l) <=> Untouched(n, l)
              /\ ~Untouched(n + 1, l \union {n})
<1>1. Place(n) \in 1..FrameLength
  BY PlaceAndFrame
<1>2. Place(n) = 1 => Untouched(n, l)
  BY DEF Untouched
<1>3. ASSUME Place(n) = FrameLength PROVE \A k : Untouched(n + 1, k)
  <2>1. Place(n + 1) = 1
    BY <1>3, PlaceAndFrame
  <2>2. QED
    BY <2>1 DEF Untouched
<1>4. ASSUME Place(n) # FrameLength
      PROVE  /\ Untouched(n + 1, l) <=> Untouched(n, l)
             /\ ~Untouched(n + 1, l \union {n})
  <2>1. Place(n + 1) = Place(n) + 1
    BY <1>4, PlaceAndFrame
  <2>2. (n + 1) - Place(n + 1) = n - Place(n) /\ (n + 1) - 1 = n
    BY <1>1, <2>1 DEF FrameLength
  <2>3. n \notin l
    OBVIOUS
  <2>4. Untouched(n + 1, l) <=> Untouched(n, l)
    <3>1. \A m \in 1..n : m \in 1..(n - 1) \/ m = n
      OBVIOUS
    <3>2. \A m \in 1..(n - 1) : m \in 1..n
      OBVIOUS
    <3>3. QED
      BY <2>2, <2>3, <3>1, <3>2 DEF Untouched
  <2>5. ~Untouched(n + 1, l \union {n})
    <3>1. n \in 1..n /\ n - Place(n) < n
      BY <1>1 DEF FrameLength
    <3>2. QED
      BY <2>2, <3>1 DEF Untouched
  <2>6. QED
    BY <2>4, <2>5
<1>5. QED
  BY <1>2, <1>3, <1>4

\* What a received byte does to the arguments of Misses; new frames are missed.
ByteReceived(new, len, p, w, h, len2, p2, w2, h2) ==
  /\ len \in 0..16 /\ p \in 1..17 /\ w \in BOOLEAN /\ h \in BOOLEAN
  /\ len2 \in 0..16 /\ p2 \in 1..17 /\ w2 \in BOOLEAN /\ h2 \in BOOLEAN
  /\ new \in {0, 1} /\ (new = 1 => p = 17 /\ w /\ len # 16)
  /\ p2 = IF p = 17 THEN 1 ELSE p + 1
  /\ p = 17 => w2
  /\ p # 17 => w2 = w
  /\ h => p = 2
  /\ len = 0 => len2 = 1 /\ (h2 <=> p = 1)
  /\ len = 1 => len2 = IF h THEN 2 ELSE 0
  /\ len \in 2..15 => len2 = len + 1
  /\ len = 16 => len2 = 0
  /\ len >= 2 /\ len < p - 1 => ~w

\* It does not raise the number of frames that are or will be missed.
LEMMA MissesAfterReceive ==
  ASSUME NEW new, NEW len, NEW p, NEW w, NEW h, NEW len2, NEW p2, NEW w2, NEW h2,
         ByteReceived(new, len, p, w, h, len2, p2, w2, h2)
  PROVE  new + Misses(len2, p2, w2, h2) <= Misses(len, p, w, h)
<1>. USE DEF ByteReceived, Misses, SearchMisses, FrameLength
<1>1. CASE len = 0
  BY <1>1
<1>2. CASE len = 1
  BY <1>2
<1>3. CASE len \in 2..15
  BY <1>3
<1>4. CASE len = 16
  BY <1>4
<1>5. len = 0 \/ len = 1 \/ len \in 2..15 \/ len = 16
  OBVIOUS
<1>6. QED
  BY <1>1, <1>2, <1>3, <1>4, <1>5

\* After a lost byte one frame will be missed, or two if the parser counted out
\* of step already.
LEMMA MissesAfterLoss ==
  ASSUME NEW len \in 0..16, NEW p \in 1..17,
         NEW p2 \in 1..17, NEW w2 \in BOOLEAN, NEW h2 \in BOOLEAN,
         p2 = IF p = 17 THEN 1 ELSE p + 1,
         p = 17 <=> w2
  PROVE  Misses(len, p2, w2, h2) <= IF len >= 2 => len = p - 1 THEN 1 ELSE 2
<1>. USE DEF Misses, SearchMisses, FrameLength
<1>1. CASE len = 0
  BY <1>1
<1>2. CASE len = 1
  BY <1>2
<1>3. CASE len >= 2
  BY <1>3
<1>4. QED
  BY <1>1, <1>2, <1>3
-----------------------------------------------------------------------------
LEMMA HeaderOfPlaces ==
  ASSUME NoLookalikes, NEW m \in Bytes, NEW n \in Bytes
  PROVE  Is41(m) /\ Is54(n) <=> Place(m) = 1 /\ Place(n) = 2
<1>1. ASSUME NEW b \in Bytes PROVE FrameOf(b) \in 1..MaxFrames
  <2>1. b \in Nat \ {0}
    BY BytesArePositive
  <2>2. b <= MaxFrames * 17 /\ MaxFrames \in Nat
    BY BoundsAssumption DEF Bytes, FrameLength
  <2>3. /\ FrameOf(b) \in Nat \ {0} /\ Place(b) \in 1..17
        /\ b = (FrameOf(b) - 1) * 17 + Place(b)
    BY <2>1, PlaceAndFrame DEF FrameLength
  <2>4. FrameOf(b) <= MaxFrames
    BY <2>2, <2>3
  <2>5. QED
    BY <2>2, <2>3, <2>4
<1>2. kind[FrameOf(m)] # "lookalike" /\ kind[FrameOf(n)] # "lookalike"
  BY <1>1 DEF NoLookalikes
<1>3. QED
  BY <1>2 DEF Is41, Is54

LEMMA ResyncReceive ==
  TypeOK /\ NoLookalikes /\ ResyncInv /\ Receive => ResyncInv'
<1> SUFFICES ASSUME TypeOK, NoLookalikes, ResyncInv, Receive PROVE ResyncInv'
  OBVIOUS
<1> DEFINE len == Len(buffer)
           p == Place(next)
           w == Untouched(next, lost)
           h == HeaderBegun(buffer, next)
           longer == Append(buffer, next)
           p2 == Place(next')
           w2 == Untouched(next', lost')
           len2 == Len(buffer')
<1>. HIDE DEF len, p, w, h, longer, p2, w2, len2
<1>1. /\ next \in Bytes /\ next \in Nat \ {0} /\ next' = next + 1
      /\ buffer \in Seq(Bytes) /\ buffer' = Extend(buffer, next)
      /\ UNCHANGED <<kind, lost, losses>>
      /\ losses \in Nat /\ missed \in Nat
  BY BytesArePositive, BoundsAssumption DEF Receive, TypeOK
<1>2. lost \subseteq 1..(next - 1) /\ FirstByteIsLatest /\ StepOfParser /\ MissesBounded
  BY DEF ResyncInv
<1>3. len \in 0..16 /\ p \in 1..17
  <2>1. len \in Nat /\ len < 17
    BY LenProperties DEF FrameLength, TypeOK, len
  <2>2. p \in 1..17
    BY <1>1, PlaceAndFrame DEF FrameLength, p
  <2>3. QED
    BY <2>1, <2>2
<1>4. p2 = IF p = 17 THEN 1 ELSE p + 1
  BY <1>1, PlaceAndFrame DEF FrameLength, p, p2
<1>5. /\ p = 17 => w2
      /\ p # 17 => (w2 <=> w)
      /\ p = 1 => w
  BY <1>1, <1>2, UntouchedStep DEF FrameLength, p, w, w2
<1>6. \A i \in 1..len : buffer[i] \in Bytes /\ buffer[i] \in Nat \ {0}
  BY <1>1, ElementOfSeq, BytesArePositive DEF len
<1>7. /\ Len(longer) = len + 1
      /\ longer[len + 1] = next
      /\ \A i \in 1..len : longer[i] = buffer[i]
      /\ longer \in Seq(Bytes)
  BY <1>1, ExtendType DEF TypeOK, len, longer
<1>8. /\ len = 1 => buffer' = IF h THEN longer ELSE <<>>
      /\ len = 16 => buffer' = <<>>
      /\ len \notin {1, 16} => buffer' = longer
  <2>1. len = 1 => (Is41(buffer[1]) /\ Is54(next) <=> h)
    <3>1. len = 1 => buffer[1] \in Bytes
      BY <1>6
    <3>2. QED
      BY <1>1, <3>1, HeaderOfPlaces DEF HeaderBegun, len, h
  <2>2. QED
    BY <1>1, <2>1, ExtendCases DEF TypeOK, len, longer
<1>9. /\ len = 0 => len2 = 1 /\ buffer'[1] = next
      /\ len = 1 => len2 = IF h THEN 2 ELSE 0
      /\ len \in 2..15 => len2 = len + 1
      /\ len = 16 => len2 = 0
  <2>1. buffer' = <<>> => len2 = 0
    BY EmptySeq DEF len2
  <2>2. buffer' = longer => len2 = len + 1 /\ buffer'[len + 1] = next
    BY <1>7 DEF len2
  <2>3. QED
    BY <1>3, <1>8, <2>1, <2>2
<1>10. FirstByteIsLatest'
  <2>1. len2 = 1 => len = 0
    BY <1>3, <1>9
  <2>2. len2 = 1 => buffer'[1] = next
    BY <1>9, <2>1
  <2>3. QED
    BY <1>1, <2>2 DEF FirstByteIsLatest, len2
<1>11. StepOfParser'
  <2> SUFFICES ASSUME len2 >= 2
               PROVE  /\ len2 < p2 - 1 => ~w2
                      /\ len2 = p2 - 1 /\ w2 => \A i \in 1..len2 : buffer'[i] = (next' - p2) + i
                      /\ losses' = 0 => len2 = p2 - 1
    BY DEF StepOfParser, len2, p2, w2
  <2>1. CASE len = 1
    <3>1. h /\ p = 2 /\ buffer' = longer /\ len2 = 2
      BY <1>8, <1>9, <2>1 DEF HeaderBegun, h, p
    <3>2. p2 = 3
      BY <1>4, <3>1
    <3>3. ASSUME w2 PROVE buffer[1] = next - 1
      <4>1. next >= 2
        BY <1>1, <3>1, PlaceAndFrame DEF FrameLength, p
      <4>2. next - 1 \in 1..(next - 1) /\ next - 2 < next - 1
        BY <1>1, <4>1
      <4>3. w /\ Place(next) = 2
        BY <1>5, <3>1, <3>3 DEF p
      <4>4. next - 1 \notin lost
        BY <4>2, <4>3 DEF Untouched, w
      <4>5. buffer[1] \in Nat
        BY <1>6, <2>1
      <4>6. buffer[1] < next /\ ~(buffer[1] < next - 1)
        BY <1>2, <2>1, <4>2, <4>4 DEF FirstByteIsLatest, len
      <4>7. QED
        BY <1>1, <4>5, <4>6
    <3>4. buffer'[1] = buffer[1] /\ buffer'[2] = next
      BY <1>7, <2>1, <3>1
    <3>5. ASSUME w2, NEW i \in 1..len2 PROVE buffer'[i] = (next' - p2) + i
      <4>1. i \in {1, 2}
        BY <3>1
      <4>2. QED
        BY <1>1, <3>2, <3>3, <3>4, <3>5, <4>1
    <3>6. QED
      BY <3>1, <3>2, <3>5
  <2>2. CASE len \in 2..15
    <3>1. /\ len < p - 1 => ~w
          /\ len = p - 1 /\ w => \A i \in 1..len : buffer[i] = (next - p) + i
          /\ losses = 0 => len = p - 1
      <4>1. len >= 2
        BY <2>2
      <4>2. QED
        BY <1>2, <4>1 DEF StepOfParser, len, p, w
    <3>2. buffer' = longer /\ len2 = len + 1
      BY <1>8, <1>9, <2>2
    <3>3. CASE p = 17
      BY <1>1, <1>4, <2>2, <3>1, <3>2, <3>3
    <3>4. CASE p # 17
      <4>1. p2 = p + 1 /\ (w2 <=> w)
        BY <1>4, <1>5, <3>4
      <4>2. ASSUME len = p - 1, w, NEW i \in 1..(len + 1)
            PROVE  buffer'[i] = (next' - p2) + i
        <5>1. next' - p2 = next - p
          BY <1>1, <1>3, <4>1
        <5>2. CASE i = len + 1
          BY <1>1, <1>3, <1>7, <3>2, <4>2, <5>1, <5>2
        <5>3. CASE i # len + 1
          <6>1. i \in 1..len
            BY <1>3, <5>3
          <6>2. QED
            BY <1>7, <3>1, <3>2, <4>2, <5>1, <6>1
        <5>4. QED
          BY <5>2, <5>3
      <4>3. QED
        BY <1>1, <1>3, <3>1, <3>2, <4>1, <4>2
    <3>5. QED
      BY <3>3, <3>4
  <2>3. QED
    BY <1>3, <1>9, <2>1, <2>2
<1>12. /\ missed' \in {missed, missed + 1}
       /\ missed' = missed + 1 => p = 17 /\ w /\ len # 16
  <2> DEFINE f == FrameOf(next)
             first == (f - 1) * 17
  <2>. HIDE DEF f, first
  <2>1. first \in Nat /\ next = first + p /\ \A i \in 1..17 : FrameBytes(f)[i] = first + i
    <3>1. f \in Nat \ {0} /\ next = (f - 1) * 17 + p
      BY <1>1, PlaceAndFrame DEF FrameLength, f, p
    <3>2. \A i \in 1..17 : FrameBytes(f)[i] = (f - 1) * 17 + i
      BY <3>1, FrameBytesAt DEF FrameLength
    <3>3. QED
      BY <3>1, <3>2 DEF first
  <2>2. missed' = missed \/ /\ missed' = missed + 1 /\ p = 17 /\ Whole(f)
                            /\ kind[f] # "foreign"
                            /\ returned' # FrameBytes(f)
    BY DEF Receive, CountMissed, FrameLength, p, f
  <2>3. ASSUME p = 17, Whole(f) PROVE w
    <3>1. SUFFICES ASSUME NEW m \in 1..(next - 1), next - 17 < m PROVE m \notin lost
      BY <2>3 DEF Untouched, w, p
    <3>2. PICK i \in 1..17 : m = first + i
      <4>1. m - first \in 1..17 /\ m = first + (m - first)
        BY <1>1, <2>1, <2>3, <3>1
      <4>2. QED
        BY <4>1
    <3>3. FrameBytes(f)[i] = m
      BY <2>1, <3>2
    <3>4. QED
      BY <2>3, <3>3 DEF Whole, FrameLength
  <2>4. ASSUME p = 17, w, len = 16, kind[f] # "foreign"
        PROVE  returned' = FrameBytes(f)
    <3>1. \A i \in 1..16 : buffer[i] = first + i
      <4>1. next - p = first /\ len >= 2 /\ len = p - 1
        BY <1>1, <2>1, <2>4
      <4>2. \A i \in 1..len : buffer[i] = (next - p) + i
        BY <1>2, <2>4, <4>1 DEF StepOfParser, len, p, w
      <4>3. QED
        BY <2>4, <4>1, <4>2
    <3>2. \A i \in 1..17 : longer[i] = first + i
      <4>1. longer[17] = first + 17
        BY <1>7, <2>1, <2>4
      <4>2. \A i \in 1..16 : longer[i] = first + i
        BY <1>7, <2>4, <3>1
      <4>3. \A i \in 1..17 : i \in 1..16 \/ i = 17
        OBVIOUS
      <4>4. QED
        BY <4>1, <4>2, <4>3
    <3>3. longer = FrameBytes(f)
      <4>1. longer \in [1..17 -> Bytes]
        <5>1. Len(longer) = 17
          BY <1>7, <2>4
        <5>2. QED
          BY <1>7, <5>1, LenProperties
      <4>2. FrameBytes(f) = [i \in 1..17 |-> first + i]
        BY DEF FrameBytes, FrameLength, first
      <4>3. QED
        BY <3>2, <4>1, <4>2
    <3>4. ASSUME NEW i \in 1..17 PROVE Place(first + i) = i /\ FrameOf(first + i) = f
      <4>1. f \in Nat \ {0}
        BY <1>1, PlaceAndFrame DEF f
      <4>2. QED
        BY <4>1 DEF Place, FrameOf, FrameLength, first
    <3>5. Accepted(longer)
      <4>1. longer[3] = first + 3 /\ longer[4] = first + 4 /\ longer[7] = first + 7
        BY <3>2
      <4>2. /\ Place(first + 3) = 3 /\ FrameOf(first + 3) = f
            /\ Place(first + 4) = 4 /\ FrameOf(first + 4) = f
            /\ Place(first + 7) = 7
        BY <3>4
      <4>3. QED
        BY <2>4, <4>1, <4>2 DEF Accepted
    <3>6. Returns(buffer, next)
      BY <2>4, <3>5 DEF Returns, FrameLength, len, longer
    <3>7. QED
      BY <3>3, <3>6 DEF Receive, longer
  <2>5. QED
    BY <1>1, <2>2, <2>3, <2>4
<1>13. MissesBounded'
  <2> DEFINE h2 == HeaderBegun(buffer', next')
  <2>. HIDE DEF h2
  <2>1. h2 <=> len2 = 1 /\ Place(buffer'[1]) = 1 /\ p2 = 2
    BY DEF HeaderBegun, h2, len2, p2
  <2>2. len = 0 => (h2 <=> p = 1)
    <3>1. len = 0 => Place(buffer'[1]) = p
      BY <1>9 DEF p
    <3>2. QED
      BY <1>3, <1>4, <1>9, <2>1, <3>1
  <2>3. h => p = 2
    BY DEF HeaderBegun, h, p
  <2>4. len >= 2 /\ len < p - 1 => ~w
    BY <1>2 DEF StepOfParser, len, p, w
  <2>5. PICK new \in {0, 1} : missed' = missed + new /\ (new = 1 => p = 17 /\ w /\ len # 16)
    BY <1>1, <1>12
  <2>6. len2 \in 0..16 /\ p2 \in 1..17
    <3>1. len \in 2..15 => len2 \in 0..16
      BY <1>9
    <3>2. QED
      BY <1>3, <1>4, <1>9, <3>1
  <2>7. w \in BOOLEAN /\ h \in BOOLEAN /\ w2 \in BOOLEAN /\ h2 \in BOOLEAN
    BY DEF Untouched, HeaderBegun, w, h, w2, h2
  <2>8. p # 17 => w2 = w
    BY <1>5, <2>7
  <2>9. new + Misses(len2, p2, w2, h2) <= Misses(len, p, w, h)
    <3>1. ByteReceived(new, len, p, w, h, len2, p2, w2, h2)
      BY <1>3, <1>4, <1>5, <1>9, <2>2, <2>3, <2>4, <2>5, <2>6, <2>7, <2>8 DEF ByteReceived
    <3>2. QED
      BY <3>1, MissesAfterReceive
  <2>10. Misses(len, p, w, h) \in Int /\ Misses(len2, p2, w2, h2) \in Int
    BY <1>3, <2>6 DEF Misses, SearchMisses, FrameLength
  <2>11. missed + Misses(len, p, w, h) <= IF losses <= 1 THEN 1 ELSE 2
    BY <1>2 DEF MissesBounded, ToMiss, len, p, w, h
  <2>12. missed' + Misses(len2, p2, w2, h2) <= IF losses' <= 1 THEN 1 ELSE 2
    BY <1>1, <2>5, <2>9, <2>10, <2>11
  <2>13. QED
    BY <2>12 DEF MissesBounded, ToMiss, len2, p2, w2, h2
<1>14. lost' \subseteq 1..(next' - 1)
  BY <1>1, <1>2
<1>15. QED
  BY <1>10, <1>11, <1>13, <1>14 DEF ResyncInv

LEMMA ResyncLose ==
  TypeOK /\ ResyncInv /\ NoLookalikes /\ Lose => ResyncInv'
<1> SUFFICES ASSUME TypeOK, ResyncInv, NoLookalikes, Lose PROVE ResyncInv'
  OBVIOUS
<1> DEFINE len == Len(buffer)
           p == Place(next)
           p2 == Place(next')
           w2 == Untouched(next', lost')
           h2 == HeaderBegun(buffer', next')
<1>. HIDE DEF len, p, p2, w2, h2
<1>1. /\ next \in Nat \ {0} /\ next' = next + 1 /\ lost' = lost \union {next}
      /\ UNCHANGED <<kind, buffer>> /\ missed' = 0
      /\ losses \in Nat /\ losses' = losses + 1
  BY BytesArePositive, BoundsAssumption DEF Lose, TypeOK
<1>2. lost \subseteq 1..(next - 1) /\ FirstByteIsLatest /\ StepOfParser
  BY DEF ResyncInv
<1>3. len \in 0..16 /\ p \in 1..17
  <2>1. len \in Nat /\ len < 17
    BY LenProperties DEF FrameLength, TypeOK, len
  <2>2. p \in 1..17
    BY <1>1, PlaceAndFrame DEF FrameLength, p
  <2>3. QED
    BY <2>1, <2>2
<1>4. p2 = IF p = 17 THEN 1 ELSE p + 1
  BY <1>1, PlaceAndFrame DEF FrameLength, p, p2
<1>5. p = 17 <=> w2
  BY <1>1, <1>2, UntouchedStep DEF FrameLength, p, w2
<1>6. FirstByteIsLatest'
  <2> SUFFICES ASSUME len = 1
               PROVE  buffer[1] < next + 1 /\ \A m \in 1..next : buffer[1] < m => m \in lost'
    BY <1>1 DEF FirstByteIsLatest, len
  <2>1. buffer[1] \in Nat
    BY ElementOfSeq, BytesArePositive DEF TypeOK, len
  <2>2. buffer[1] < next /\ \A m \in 1..(next - 1) : buffer[1] < m => m \in lost
    BY <1>2 DEF FirstByteIsLatest, len
  <2>3. \A m \in 1..next : m = next \/ m \in 1..(next - 1)
    BY <1>1
  <2>4. QED
    BY <1>1, <2>1, <2>2, <2>3
<1>7. StepOfParser'
  <2>1. len >= 2 => /\ len < p2 - 1 => ~w2
                    /\ ~(len = p2 - 1 /\ w2)
                    /\ losses' # 0
    BY <1>1, <1>3, <1>4, <1>5
  <2>2. QED
    BY <1>1, <2>1 DEF StepOfParser, len, p2, w2
<1>8. MissesBounded'
  <2>1. losses <= 0 => (len >= 2 => len = p - 1)
    BY <1>1, <1>2 DEF StepOfParser, len, p
  <2>2. /\ p2 \in 1..17 /\ w2 \in BOOLEAN /\ h2 \in BOOLEAN
    BY <1>3, <1>4 DEF Untouched, HeaderBegun, w2, h2
  <2>3. Misses(len, p2, w2, h2) <= IF len >= 2 => len = p - 1 THEN 1 ELSE 2
    BY <1>3, <1>4, <1>5, <2>2, MissesAfterLoss
  <2>4. Misses(len, p2, w2, h2) \in Int
    BY <1>3, <2>2 DEF Misses, SearchMisses, FrameLength
  <2>5. 0 + Misses(len, p2, w2, h2) <= IF losses' <= 1 THEN 1 ELSE 2
    BY <1>1, <2>1, <2>3, <2>4
  <2>6. QED
    BY <1>1, <2>5 DEF MissesBounded, ToMiss, len, p2, w2, h2
<1>9. lost' \subseteq 1..(next' - 1)
  BY <1>1, <1>2
<1>10. QED
  BY <1>6, <1>7, <1>8, <1>9 DEF ResyncInv

LEMMA ResyncInit == Init => ResyncInv
<1> SUFFICES ASSUME Init PROVE ResyncInv
  OBVIOUS
<1>1. next \in 1..17 /\ lost = 1..(next - 1) /\ buffer = <<>> /\ losses = 0 /\ missed = 0
  BY AttachAssumption DEF Init, FrameLength
<1>2. Len(buffer) = 0
  BY <1>1, EmptySeq
<1>3. Place(next) = next
  BY <1>1 DEF Place, FrameLength
<1>4. Untouched(next, lost) <=> next = 1
  <2>1. CASE next = 1
    BY <2>1, <1>3 DEF Untouched
  <2>2. CASE next # 1
    <3>1. 1 \in 1..(next - 1) /\ next - Place(next) < 1
      BY <1>1, <1>3, <2>2
    <3>2. QED
      BY <1>1, <2>2, <3>1 DEF Untouched
  <2>3. QED
    BY <2>1, <2>2
<1>5. MissesBounded
  <2>1. ToMiss = SearchMisses(next, next = 1)
    BY <1>2, <1>3, <1>4 DEF ToMiss, Misses, SearchMisses
  <2>2. SearchMisses(next, next = 1) \in {0, 1}
    BY <1>1 DEF SearchMisses
  <2>3. QED
    BY <1>1, <2>1, <2>2 DEF MissesBounded
<1>6. QED
  BY <1>1, <1>2, <1>5 DEF ResyncInv, FirstByteIsLatest, StepOfParser

LEMMA ResyncInductive == TypeOK /\ ResyncInv /\ [Next]_vars => ResyncInv'
<1> SUFFICES ASSUME TypeOK, ResyncInv, [Next]_vars PROVE ResyncInv'
  OBVIOUS
<1>1. kind' = kind
  BY DEF Next, Receive, Lose, vars
<1>2. CASE ~NoLookalikes
  BY <1>1, <1>2 DEF NoLookalikes, ResyncInv
<1>3. CASE NoLookalikes /\ Receive
  BY <1>3, ResyncReceive
<1>4. CASE NoLookalikes /\ Lose
  BY <1>4, ResyncLose
<1>5. CASE UNCHANGED vars
  BY <1>5 DEF vars, ResyncInv, FirstByteIsLatest, StepOfParser, MissesBounded, ToMiss,
             NoLookalikes
<1>6. QED
  BY <1>2, <1>3, <1>4, <1>5 DEF Next

\* Where headers have no look-alikes, the search by pairs of read_serial_data is
\* back in step after at most one whole frame missed, two if bytes were lost while
\* it was out of step: for any number of frames, any losses and any place at which
\* the session attaches.
THEOREM SearchResynchronises == Spec => []Resynchronises
<1>1. TypeOK /\ ResyncInv => Resynchronises
  <2> SUFFICES ASSUME TypeOK, ResyncInv, NoLookalikes
               PROVE  missed <= IF losses <= 1 THEN 1 ELSE 2
    BY DEF Resynchronises, NoLookalikes
  <2> DEFINE len == Len(buffer)
             p == Place(next)
             h == HeaderBegun(buffer, next)
             w == Untouched(next, lost)
  <2>. HIDE DEF len, p, h, w
  <2>1. len \in Nat /\ len < 17
    BY LenProperties DEF FrameLength, TypeOK, len
  <2>2. next \in Nat \ {0} /\ missed \in Nat /\ losses \in Nat
    BY BoundsAssumption DEF TypeOK, FrameLength
  <2>3. p \in 1..17
    BY <2>2, PlaceAndFrame DEF FrameLength, p
  <2>4. Misses(len, p, w, h) \in Nat
    BY <2>1, <2>3 DEF Misses, SearchMisses, FrameLength
  <2>5. missed + Misses(len, p, w, h) <= IF losses <= 1 THEN 1 ELSE 2
    BY DEF ResyncInv, MissesBounded, ToMiss, len, p, w, h
  <2>6. QED
    BY <2>2, <2>4, <2>5
<1>2. QED
  BY <1>1, TypeCorrect, ResyncInit, ResyncInductive, PTL DEF Spec
=============================================================================
