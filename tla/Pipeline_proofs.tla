---------------------------- MODULE Pipeline_proofs ----------------------------
(***************************************************************************)
(* For any sizes of blocks and reads, any length of the audio and any      *)
(* number of hours: what of the audio may be lost between the device and   *)
(* the files, and what the status of the connection says.                  *)
(***************************************************************************)
EXTENDS Pipeline, TLAPS, FiniteSetTheorems, WellFoundedInduction

(* A set of natural numbers has a least element: of the intervals that end *)
(* in the set one is least by inclusion.                                   *)
LEMMA LeastElement ==
  ASSUME NEW S \in SUBSET Nat, S # {}
  PROVE  \E i \in S : \A j \in S : i <= j
<1> DEFINE T == {1..i : i \in S}
<1>1. T \subseteq FiniteSubsetsOf(Nat)
  <2> SUFFICES ASSUME NEW i \in S
               PROVE  1..i \in FiniteSubsetsOf(Nat)
    OBVIOUS
  <2>1. IsFiniteSet(1..i)
    BY FS_Interval
  <2> QED BY <2>1 DEF FiniteSubsetsOf
<1>2. T # {}
  OBVIOUS
<1> HIDE DEF T
<1>3. PICK x \in T : \A y \in T : ~(<<y, x>> \in StrictSubsetOrdering(Nat))
  BY <1>1, <1>2, FS_StrictSubsetOrderingWellFounded, WFMin
<1> USE DEF T
<1>4. PICK i \in S : x = 1..i
  OBVIOUS
<1>5. ASSUME NEW j \in S, ~(i <= j)
      PROVE  FALSE
  <2>1. <<1..j, 1..i>> \in StrictSubsetOrdering(Nat)
    BY <1>5 DEF StrictSubsetOrdering
  <2> QED BY <1>3, <1>4, <2>1
<1> QED BY <1>5

-----------------------------------------------------------------------------
(* Sequences of units, in order.                                           *)

\* The headers of an Ogg stream, at 0, come before anything.
Orderly(s) == \A i, j \in DOMAIN s : i < j /\ s[j] # 0 => s[i] < s[j]
Below(S, T) == \A x \in S \ {0}, y \in T \ {0} : x < y

Recorded(s) == s \in Seq(Nat) /\ Orderly(s)
Audio(s)    == Recorded(s) /\ 0 \notin ToSet(s)

\* Two sequences one after the other.
LEMMA Concatenated ==
  ASSUME NEW s, NEW t, Recorded(s), Recorded(t)
  PROVE  /\ ToSet(s \o t) = ToSet(s) \cup ToSet(t)
         /\ Below(ToSet(s), ToSet(t)) => Recorded(s \o t)
<1> DEFINE r == s \o t
           L == Len(s)
<1>1. s \in Seq(Nat) /\ t \in Seq(Nat) /\ L \in Nat /\ Len(t) \in Nat
  BY DEF Recorded
<1>2. /\ r \in Seq(Nat) /\ Len(r) = L + Len(t)
      /\ \A i \in 1..L : r[i] = s[i]
      /\ \A i \in 1..Len(t) : r[L + i] = t[i]
  BY <1>1
<1>3. \A i \in (L + 1)..Len(r) : i - L \in 1..Len(t) /\ r[i] = t[i - L]
  BY <1>1, <1>2
<1>4. DOMAIN s = 1..L /\ DOMAIN t = 1..Len(t) /\ DOMAIN r = 1..Len(r)
  BY <1>1, <1>2
<1> HIDE DEF r
<1>5. ToSet(r) = ToSet(s) \cup ToSet(t)
  <2>1. ASSUME NEW i \in 1..Len(r)
        PROVE  r[i] \in ToSet(s) \cup ToSet(t)
    <3>1. CASE i \in 1..L
      BY <1>2, <1>4, <3>1 DEF ToSet
    <3>2. CASE i \in (L + 1)..Len(r)
      BY <1>3, <1>4, <3>2 DEF ToSet
    <3> QED BY <1>1, <1>2, <3>1, <3>2
  <2>2. ASSUME NEW i \in 1..L
        PROVE  s[i] \in ToSet(r)
    <3>1. i \in 1..Len(r)
      BY <1>1, <1>2
    <3> QED BY <1>2, <1>4, <3>1 DEF ToSet
  <2>3. ASSUME NEW i \in 1..Len(t)
        PROVE  t[i] \in ToSet(r)
    <3>1. L + i \in 1..Len(r)
      BY <1>1, <1>2
    <3> QED BY <1>2, <1>4, <3>1 DEF ToSet
  <2> QED BY <1>4, <2>1, <2>2, <2>3 DEF ToSet
<1>6. ASSUME Below(ToSet(s), ToSet(t))
      PROVE  Orderly(r)
  <2> SUFFICES ASSUME NEW i \in 1..Len(r), NEW j \in 1..Len(r), i < j, r[j] # 0
               PROVE  r[i] < r[j]
    BY <1>4 DEF Orderly
  <2>1. CASE j <= L
    <3>1. i \in 1..L /\ j \in 1..L
      BY <1>1, <2>1
    <3> QED BY <1>2, <1>4, <3>1 DEF Recorded, Orderly
  <2>2. CASE i > L
    <3>1. i - L \in 1..Len(t) /\ j - L \in 1..Len(t) /\ i - L < j - L
      BY <1>1, <1>2, <2>2
    <3>2. i \in (L + 1)..Len(r) /\ j \in (L + 1)..Len(r)
      BY <1>1, <1>2, <2>2
    <3>3. r[i] = t[i - L] /\ r[j] = t[j - L]
      BY <1>3, <3>2
    <3> QED BY <1>4, <3>1, <3>3 DEF Recorded, Orderly
  <2>3. CASE i <= L /\ j > L
    <3>1. i \in 1..L /\ j \in (L + 1)..Len(r)
      BY <1>1, <1>2, <2>3
    <3>2. r[i] = s[i] /\ r[j] = t[j - L] /\ j - L \in 1..Len(t)
      BY <1>2, <1>3, <3>1
    <3>3. r[i] \in ToSet(s) /\ r[j] \in ToSet(t)
      BY <1>4, <3>1, <3>2 DEF ToSet
    <3>4. r[i] \in Nat /\ r[j] \in Nat
      BY <1>1, <3>1, <3>2, SMTT(30)
    <3>5. r[i] # 0 => r[i] < r[j]
      BY <1>6, <3>3 DEF Below
    <3> QED BY <3>4, <3>5
  <2> QED BY <1>1, <2>1, <2>2, <2>3
<1> QED BY <1>2, <1>5, <1>6 DEF Recorded, r

\* A piece of a sequence.
LEMMA Pieces ==
  ASSUME NEW s, Recorded(s), NEW a \in Nat \ {0}, NEW b \in 0..Len(s)
  PROVE  /\ Recorded(SubSeq(s, a, b))
         /\ ToSet(SubSeq(s, a, b)) = {s[i] : i \in a..b}
<1> DEFINE r == SubSeq(s, a, b)
<1>1. s \in Seq(Nat) /\ Len(s) \in Nat /\ DOMAIN s = 1..Len(s) /\ b \in Nat
  BY DEF Recorded
<1>2. CASE a > b
  <2>1. r = <<>>
    BY <1>1, <1>2
  <2>2. a..b = {}
    BY <1>1, <1>2
  <2> QED BY <2>1, <2>2 DEF Recorded, Orderly, ToSet
<1>3. CASE a <= b
  <2>1. /\ r \in Seq(Nat) /\ Len(r) = (b - a) + 1 /\ DOMAIN r = 1..((b - a) + 1)
        /\ \A i \in 1..((b - a) + 1) : r[i] = s[(a + i) - 1]
    BY <1>1, <1>3
  <2> HIDE DEF r
  <2>2. ASSUME NEW i \in a..b
        PROVE  s[i] \in ToSet(r)
    <3>1. (i - a) + 1 \in 1..((b - a) + 1) /\ (a + ((i - a) + 1)) - 1 = i
      BY <1>1, <1>3
    <3>2. r[(i - a) + 1] = s[i]
      BY <2>1, <3>1
    <3> QED BY <2>1, <3>1, <3>2 DEF ToSet
  <2>3. ASSUME NEW i \in 1..((b - a) + 1)
        PROVE  r[i] \in {s[k] : k \in a..b}
    <3>1. (a + i) - 1 \in a..b
      BY <1>1, <1>3
    <3> QED BY <2>1, <3>1
  <2>4. ToSet(r) = {s[i] : i \in a..b}
    BY <2>1, <2>2, <2>3 DEF ToSet
  <2>5. ASSUME NEW i \in DOMAIN r, NEW j \in DOMAIN r, i < j, r[j] # 0
        PROVE  r[i] < r[j]
    <3>1. i \in 1..((b - a) + 1) /\ j \in 1..((b - a) + 1)
      BY <2>1
    <3>2. /\ (a + i) - 1 \in 1..Len(s) /\ (a + j) - 1 \in 1..Len(s)
          /\ (a + i) - 1 < (a + j) - 1
      <4>1. i \in Nat /\ j \in Nat /\ i <= (b - a) + 1 /\ j <= (b - a) + 1 /\ i >= 1 /\ i < j
        BY <1>1, <1>3, <2>5, <3>1
      <4>2. b <= Len(s) /\ Len(s) \in Nat /\ a \in Nat /\ a >= 1 /\ b \in Nat
        BY <1>1
      <4> DEFINE L == Len(s)
      <4>3. b <= L /\ L \in Nat
        BY <4>2
      <4> HIDE DEF L
      <4>4. /\ (a + i) - 1 \in 1..L /\ (a + j) - 1 \in 1..L
            /\ (a + i) - 1 < (a + j) - 1
        BY ONLY <4>1, <4>2, <4>3
      <4> QED BY <4>4 DEF L
    <3>3. r[i] = s[(a + i) - 1] /\ r[j] = s[(a + j) - 1]
      BY <2>1, <3>1
    <3> QED BY <1>1, <2>5, <3>2, <3>3 DEF Recorded, Orderly
  <2> QED BY <2>1, <2>4, <2>5 DEF Recorded, Orderly, r
<1> QED BY <1>1, <1>2, <1>3

\* The positions of two pieces decide which is below.
LEMMA PositionsDecide ==
  ASSUME NEW s, Recorded(s), NEW I \in SUBSET (1..Len(s)), NEW J \in SUBSET (1..Len(s)),
         \A i \in I, j \in J : i < j
  PROVE  Below({s[i] : i \in I}, {s[j] : j \in J})
<1>1. DOMAIN s = 1..Len(s)
  BY DEF Recorded
<1> QED BY <1>1 DEF Recorded, Orderly, Below

\* What is below is not the same.
LEMMA BelowIsApart ==
  ASSUME NEW S \in SUBSET Nat, NEW T \in SUBSET Nat, Below(S, T)
  PROVE  (S \ {0}) \cap (T \ {0}) = {}
BY DEF Below

-----------------------------------------------------------------------------
(* Many sequences, one after the other.                                    *)

\* The function of FlattenSeq() for the first m sequences.
Flattens(g, f, m) ==
  g = [i \in 1..m |-> IF i = 1 THEN f[i] ELSE g[i - 1] \o f[i]]

\* There is one, however many there are: a function for all but the last one
\* is easily extended.
LEMMA Flattenings ==
  ASSUME NEW f, NEW len \in Nat
  PROVE  \E g : Flattens(g, f, len)
<1> DEFINE B == {m \in Nat : ~\E g : Flattens(g, f, m)}
<1>1. SUFFICES ASSUME B # {}
               PROVE  FALSE
  OBVIOUS
<1>2. PICK m \in B : \A k \in B : m <= k
  BY <1>1, LeastElement
<1>3. m \in Nat /\ ~\E g : Flattens(g, f, m)
  OBVIOUS
<1>4. CASE m = 0
  <2> DEFINE g == [i \in 1..0 |-> 0]
  <2>1. Flattens(g, f, m)
    BY <1>4 DEF Flattens
  <2> QED BY <1>3, <2>1
<1>5. CASE m > 0
  <2>1. m - 1 \in Nat /\ ~(m <= m - 1)
    BY <1>3, <1>5
  <2>2. \E g : Flattens(g, f, m - 1)
    BY <1>2, <2>1
  <2>3. PICK h : h = [i \in 1..(m - 1) |-> IF i = 1 THEN f[i] ELSE h[i - 1] \o f[i]]
    BY <2>2 DEF Flattens
  <2> DEFINE last == IF m = 1 THEN f[m] ELSE h[m - 1] \o f[m]
             g == [i \in 1..m |-> IF i = m THEN last ELSE h[i]]
  <2>4. ASSUME NEW i \in 1..m
        PROVE  g[i] = IF i = 1 THEN f[i] ELSE g[i - 1] \o f[i]
    <3>1. CASE i = m
      <4>1. m # 1 => m - 1 \in 1..m /\ m - 1 # m
        BY <1>3, <1>5
      <4>2. m # 1 => g[i - 1] = h[m - 1]
        BY <3>1, <4>1
      <4> QED BY <3>1, <4>2
    <3>2. CASE i # m
      <4>1. i \in 1..(m - 1) /\ (i # 1 => i - 1 \in 1..m /\ i - 1 # m)
        BY <1>3, <3>2
      <4>2. g[i] = h[i] /\ (i # 1 => g[i - 1] = h[i - 1])
        BY <3>2, <4>1
      <4>3. h[i] = IF i = 1 THEN f[i] ELSE h[i - 1] \o f[i]
        BY <2>3, <4>1
      <4> QED BY <4>2, <4>3
    <3> QED BY <3>1, <3>2
  <2> HIDE DEF g
  <2>5. Flattens(g, f, m)
    <3>1. g = [i \in 1..m |-> g[i]]
      BY DEF g
    <3> QED BY <2>4, <3>1 DEF Flattens
  <2> QED BY <1>3, <2>5
<1> QED BY <1>3, <1>4, <1>5

\* Sequences of units, each above the ones before it, are one: there is no
\* first number of them for which they are not.
LEMMA Flattened ==
  ASSUME NEW n \in Nat, NEW f \in [1..n -> Seq(Nat)],
         \A b \in 1..n : Recorded(f[b]),
         \A b, c \in 1..n : b < c => Below(ToSet(f[b]), ToSet(f[c]))
  PROVE  /\ Recorded(FlattenSeq(f))
         /\ ToSet(FlattenSeq(f)) = UNION {ToSet(f[b]) : b \in 1..n}
<1>1. Len(f) = n /\ DOMAIN f = 1..n
  OBVIOUS
<1>2. CASE n = 0
  <2>1. FlattenSeq(f) = f
    BY <1>1, <1>2 DEF FlattenSeq
  <2>2. f \in Seq(Nat) /\ ToSet(f) = {} /\ 1..n = {}
    BY <1>1, <1>2 DEF ToSet
  <2>3. Recorded(f)
    BY <1>1, <1>2, <2>2 DEF Recorded, Orderly
  <2> QED BY <2>1, <2>2, <2>3
<1>3. CASE n > 0
  <2> DEFINE g == CHOOSE g : g = [i \in 1..Len(f) |-> IF i = 1 THEN f[i]
                                                     ELSE g[i - 1] \o f[i]]
             All(m) == UNION {ToSet(f[b]) : b \in 1..m}
             B == {m \in 1..n : ~(Recorded(g[m]) /\ ToSet(g[m]) = All(m))}
  <2>1. FlattenSeq(f) = g[n]
    BY <1>1, <1>3 DEF FlattenSeq
  <2>2. g = [i \in 1..n |-> IF i = 1 THEN f[i] ELSE g[i - 1] \o f[i]]
    <3>1. \E h : Flattens(h, f, Len(f))
      BY <1>1, Flattenings
    <3>2. g = [i \in 1..Len(f) |-> IF i = 1 THEN f[i] ELSE g[i - 1] \o f[i]]
      BY <3>1 DEF Flattens
    <3> HIDE DEF g
    <3> QED BY <1>1, <3>2
  <2> HIDE DEF g
  <2>3. SUFFICES ASSUME B # {}
                 PROVE  FALSE
    <3>1. n \in 1..n
      BY <1>3
    <3>2. B = {} => Recorded(g[n]) /\ ToSet(g[n]) = All(n)
      BY <3>1
    <3> QED BY <2>1, <3>2
  <2>4. PICK m \in B : \A k \in B : m <= k
    <3>1. B \in SUBSET Nat
      OBVIOUS
    <3> HIDE DEF B
    <3> QED BY <2>3, <3>1, LeastElement
  <2>5. m \in 1..n /\ ~(Recorded(g[m]) /\ ToSet(g[m]) = All(m))
    OBVIOUS
  <2>6. CASE m = 1
    <3>1. g[m] = f[1] /\ 1..m = {1}
      BY <2>2, <2>5, <2>6
    <3>2. All(m) = ToSet(f[1])
      BY <3>1
    <3> QED BY <2>5, <2>6, <3>1, <3>2
  <2>7. CASE m > 1
    <3>1. /\ m - 1 \in 1..n /\ ~(m <= m - 1) /\ m \in 1..n
          /\ \A b \in 1..(m - 1) : b \in 1..n /\ b < m
          /\ 1..m = (1..(m - 1)) \cup {m}
      BY <2>5, <2>7
    <3>2. Recorded(g[m - 1]) /\ ToSet(g[m - 1]) = All(m - 1)
      <4>1. m - 1 \notin B
        BY <2>4, <3>1
      <4> QED BY <3>1, <4>1
    <3>3. g[m] = g[m - 1] \o f[m]
      <4>1. m \in 1..n /\ m # 1
        BY <2>5, <2>7
      <4> QED BY <2>2, <4>1
    <3>4. Below(All(m - 1), ToSet(f[m]))
      <4>1. \A b \in 1..(m - 1) : Below(ToSet(f[b]), ToSet(f[m]))
        BY <3>1
      <4> QED BY <4>1 DEF Below
    <3>5. All(m) = All(m - 1) \cup ToSet(f[m])
      BY <3>1
    <3>6. Recorded(g[m]) /\ ToSet(g[m]) = All(m)
      <4>1. Recorded(g[m - 1]) /\ Recorded(f[m])
        BY <3>1, <3>2
      <4>2. Below(ToSet(g[m - 1]), ToSet(f[m]))
        BY <3>2, <3>4
      <4> HIDE DEF All
      <4> QED BY <3>2, <3>3, <3>5, <4>1, <4>2, Concatenated
    <3> QED BY <2>5, <3>6
  <2> QED BY <2>5, <2>6, <2>7
<1> QED BY <1>2, <1>3

\* Writes are one after the other: each of units in order, above the ones of
\* the writes before it.
InOrder(ws) ==
  \E m \in Nat :
    /\ ws \in [1..m -> Seq(Nat)]
    /\ \A w \in 1..m : Recorded(ws[w])
    /\ \A v, w \in 1..m : v < w => Below(ToSet(ws[v]), ToSet(ws[w]))

Within(ws) == UNION {ToSet(ws[w]) : w \in DOMAIN ws}

LEMMA WithinNat ==
  ASSUME NEW ws, InOrder(ws)
  PROVE  Within(ws) \subseteq Nat
BY DEF InOrder, Within, Recorded, ToSet

\* A sequence cut in two.
LEMMA Cut ==
  ASSUME NEW s, Recorded(s), NEW n \in 0..Len(s)
  PROVE  LET done == SubSeq(s, 1, n)
             gone == SubSeq(s, n + 1, Len(s))
         IN  /\ Recorded(done) /\ ToSet(s) = ToSet(done) \cup ToSet(gone)
             /\ Below(ToSet(done), ToSet(gone))
<1> DEFINE done == SubSeq(s, 1, n)
           gone == SubSeq(s, n + 1, Len(s))
           At(I) == {s[i] : i \in I}
<1>1. s \in Seq(Nat) /\ Len(s) \in Nat /\ n \in Nat
  BY DEF Recorded
<1>2. /\ Recorded(done) /\ ToSet(done) = At(1..n)
      /\ ToSet(gone) = At(n + 1..Len(s))
  <2>1. n + 1 \in Nat \ {0} /\ Len(s) \in 0..Len(s) /\ 1 \in Nat \ {0}
    BY <1>1
  <2> QED BY <1>1, <2>1, Pieces
<1>3. ToSet(s) = At(1..Len(s))
  BY <1>1 DEF ToSet
<1>4. ToSet(s) = ToSet(done) \cup ToSet(gone)
  <2>1. (1..n) \cup (n + 1..Len(s)) = 1..Len(s)
    BY <1>1
  <2> QED BY <1>2, <1>3, <2>1
<1>5. Below(ToSet(done), ToSet(gone))
  <2>1. /\ 1..n \in SUBSET (1..Len(s)) /\ n + 1..Len(s) \in SUBSET (1..Len(s))
        /\ \A i \in 1..n, j \in n + 1..Len(s) : i < j
    BY <1>1
  <2>2. Below(At(1..n), At(n + 1..Len(s)))
    BY <2>1, PositionsDecide
  <2> QED BY <1>2, <2>2
<1> QED BY <1>2, <1>4, <1>5

\* However much of each write is taken, that is in order, and what is taken and
\* what is dropped are all there was and have nothing in common.
LEMMA TakenAndDropped ==
  ASSUME NEW ws, InOrder(ws), NEW n, \A w \in DOMAIN ws : n[w] \in 0..Len(ws[w])
  PROVE  /\ Recorded(Taken(ws, n))
         /\ Within(ws) = ToSet(Taken(ws, n)) \cup Dropped(ws, n)
         /\ (ToSet(Taken(ws, n)) \ {0}) \cap (Dropped(ws, n) \ {0}) = {}
<1>1. PICK m \in Nat :
        /\ ws \in [1..m -> Seq(Nat)]
        /\ \A w \in 1..m : Recorded(ws[w])
        /\ \A v, w \in 1..m : v < w => Below(ToSet(ws[v]), ToSet(ws[w]))
  BY DEF InOrder
<1> DEFINE f == [w \in DOMAIN ws |-> SubSeq(ws[w], 1, n[w])]
           g(w) == ToSet(SubSeq(ws[w], n[w] + 1, Len(ws[w])))
<1>2. DOMAIN ws = 1..m /\ Taken(ws, n) = FlattenSeq(f)
      /\ Dropped(ws, n) = UNION {g(w) : w \in 1..m}
      /\ Within(ws) = UNION {ToSet(ws[w]) : w \in 1..m}
  BY <1>1 DEF Taken, Dropped, Within
<1>3. DOMAIN f = 1..m /\ \A w \in 1..m : f[w] = SubSeq(ws[w], 1, n[w])
  BY <1>2
<1>4. ASSUME NEW w \in 1..m
      PROVE  /\ Recorded(f[w]) /\ ToSet(ws[w]) = ToSet(f[w]) \cup g(w)
             /\ Below(ToSet(f[w]), g(w))
  <2>1. Recorded(ws[w]) /\ n[w] \in 0..Len(ws[w]) /\ f[w] = SubSeq(ws[w], 1, n[w])
    BY <1>1, <1>2, <1>3
  <2> HIDE DEF f
  <2> QED BY <2>1, Cut
<1>5. f \in [1..m -> Seq(Nat)]
  <2>1. \A w \in 1..m : SubSeq(ws[w], 1, n[w]) \in Seq(Nat)
    BY <1>3, <1>4 DEF Recorded
  <2> QED BY <1>2, <2>1
<1> HIDE DEF f, g
<1>6. \A v, w \in 1..m : v < w => Below(ToSet(f[v]), ToSet(f[w]))
  BY <1>1, <1>4 DEF Below
<1>7. Recorded(FlattenSeq(f)) /\ ToSet(FlattenSeq(f)) = UNION {ToSet(f[w]) : w \in 1..m}
  BY <1>4, <1>5, <1>6, Flattened
<1>8. Within(ws) = ToSet(Taken(ws, n)) \cup Dropped(ws, n)
  BY <1>2, <1>4, <1>7
<1>9. ASSUME NEW v \in 1..m, NEW w \in 1..m, NEW x \in ToSet(f[v]) \cap g(w), x # 0
      PROVE  FALSE
  <2>1. x \in ToSet(ws[v]) /\ x \in ToSet(ws[w]) /\ v \in Int /\ w \in Int
    BY <1>4, <1>9
  <2>2. x \in Nat
    BY <1>1, <2>1 DEF Recorded, ToSet
  <2>3. CASE v = w
    BY <1>4, <1>9, <2>2, <2>3 DEF Below
  <2>4. CASE v < w
    BY <1>1, <1>9, <2>1, <2>2, <2>4 DEF Below
  <2>5. CASE w < v
    BY <1>1, <1>9, <2>1, <2>2, <2>5 DEF Below
  <2> QED BY <2>1, <2>3, <2>4, <2>5
<1>10. (ToSet(Taken(ws, n)) \ {0}) \cap (Dropped(ws, n) \ {0}) = {}
  BY <1>2, <1>7, <1>9
<1> QED BY <1>2, <1>7, <1>8, <1>10

\* Nothing of every write is nothing.
LEMMA NothingTaken ==
  ASSUME NEW ws, InOrder(ws), NEW n, \A w \in DOMAIN ws : n[w] = 0
  PROVE  ToSet(Taken(ws, n)) = {}
<1>1. PICK m \in Nat :
        /\ ws \in [1..m -> Seq(Nat)]
        /\ \A w \in 1..m : Recorded(ws[w])
  BY DEF InOrder
<1> DEFINE f == [w \in DOMAIN ws |-> SubSeq(ws[w], 1, n[w])]
<1>2. \A w \in 1..m : SubSeq(ws[w], 1, n[w]) = <<>>
  BY <1>1 DEF Recorded
<1>3. f = [w \in 1..m |-> <<>>]
  BY <1>1, <1>2
<1>4. /\ f \in [1..m -> Seq(Nat)] /\ \A w \in 1..m : Recorded(f[w]) /\ ToSet(f[w]) = {}
  BY <1>3 DEF Recorded, Orderly, ToSet
<1>5. Taken(ws, n) = FlattenSeq(f)
  BY DEF Taken
<1> HIDE DEF f
<1>6. \A v, w \in 1..m : v < w => Below(ToSet(f[v]), ToSet(f[w]))
  BY <1>4 DEF Below
<1>7. ToSet(FlattenSeq(f)) = UNION {ToSet(f[w]) : w \in 1..m}
  BY <1>4, <1>6, Flattened
<1>8. UNION {ToSet(f[w]) : w \in 1..m} = {}
  BY <1>4
<1> QED BY <1>5, <1>7, <1>8

-----------------------------------------------------------------------------
(* Blocks of a ring buffer, and what a codec makes of them.                *)

\* A number is so many times another and a remainder.
LEMMA Division ==
  ASSUME NEW m \in Nat \ {0}, NEW n \in Nat
  PROVE  /\ n \div m \in Nat /\ n % m \in 0..(m - 1)
         /\ n = ((n \div m) * m) + (n % m)
<1>1. n = (m * (n \div m)) + (n % m)
  OBVIOUS
<1>2. n \div m \in Nat /\ n % m \in 0..(m - 1)
  OBVIOUS
<1>3. m * (n \div m) = (n \div m) * m
  BY <1>2
<1> QED BY <1>1, <1>2, <1>3

\* More times is more.
LEMMA Times ==
  ASSUME NEW a \in Nat, NEW b \in Nat, NEW m \in Nat, a <= b
  PROVE  a * m \in Nat /\ b * m \in Nat /\ a * m <= b * m
<1> DEFINE d == b - a
<1>1. d \in Nat /\ b = a + d
  OBVIOUS
<1> HIDE DEF d
<1>2. a * m \in Nat /\ d * m \in Nat
  BY <1>1
<1>3. b * m = (a * m) + (d * m)
  BY <1>1
<1> QED BY <1>2, <1>3

\* The positions of a block.
Places(b, size) == (b - 1) * size + 1 .. b * size

\* Every position that a remainder does not have is in one of the blocks; they
\* follow one another.
LEMMA BlocksTile ==
  ASSUME NEW size \in Nat \ {0}, NEW len \in Nat
  PROVE  LET q == len \div size
         IN  /\ q \in Nat /\ q * size \in 0..len
             /\ \A b \in 1..q : /\ (b - 1) * size + 1 \in Nat \ {0}
                                /\ b * size \in 0..(q * size)
             /\ \A b, c \in 1..q : b < c => \A i \in Places(b, size), j \in Places(c, size) : i < j
             /\ UNION {Places(b, size) : b \in 1..q} = 1..(q * size)
<1> DEFINE q == len \div size
<1>1. q \in Nat /\ len % size \in Nat /\ len = (q * size) + (len % size)
  BY Division
<1> HIDE DEF q
<1>2. q * size \in 0..len
  <2>1. q * size \in Nat
    BY <1>1
  <2> QED BY <1>1, <2>1
<1>3. ASSUME NEW b \in 1..q
      PROVE  (b - 1) * size + 1 \in Nat \ {0} /\ b * size \in 0..(q * size)
  <2>1. b \in Nat /\ b - 1 \in Nat /\ b <= q
    BY <1>1
  <2>2. (b - 1) * size \in Nat /\ b * size <= q * size /\ b * size \in Nat
    BY <1>1, <2>1, Times
  <2> QED BY <1>2, <2>2
<1>4. ASSUME NEW b \in 1..q, NEW c \in 1..q, b < c,
             NEW i \in Places(b, size), NEW j \in Places(c, size)
      PROVE  i < j
  <2>1. b \in Nat /\ c - 1 \in Nat /\ b <= c - 1
    BY <1>1, <1>4
  <2>2. b * size \in Nat /\ (c - 1) * size \in Nat /\ b * size <= (c - 1) * size
    BY <2>1, Times
  <2>3. i \in Int /\ j \in Int /\ i <= b * size /\ (c - 1) * size + 1 <= j
    BY DEF Places
  <2> QED BY <2>2, <2>3
<1>5. ASSUME NEW i \in 1..(q * size)
      PROVE  \E b \in 1..q : i \in Places(b, size)
  <2> DEFINE d == (i - 1) \div size
             r == (i - 1) % size
  <2>1. i - 1 \in Nat
    BY <1>2
  <2>2. d \in Nat /\ r \in 0..(size - 1) /\ i - 1 = (d * size) + r
    BY <2>1, Division
  <2> HIDE DEF d, r
  <2>3. (d + 1) * size = (d * size) + size /\ d * size \in Nat /\ (d + 1) - 1 = d
    BY <2>2
  <2>4. i \in Places(d + 1, size)
    <3>1. i \in Int /\ d * size + 1 <= i /\ i <= (d * size) + size
      BY <2>2, <2>3
    <3> QED BY <2>3, <3>1 DEF Places
  <2>5. d + 1 \in 1..q
    <3>1. CASE d >= q
      <4>1. q * size <= d * size
        BY <1>1, <2>2, <3>1, Times
      <4> QED BY <1>2, <2>2, <2>3, <4>1
    <3>2. CASE d < q
      BY <1>1, <2>2, <3>2
    <3> QED BY <1>1, <2>2, <3>1, <3>2
  <2> QED BY <2>4, <2>5
<1>6. ASSUME NEW b \in 1..q, NEW i \in Places(b, size)
      PROVE  i \in 1..(q * size)
  BY <1>2, <1>3 DEF Places
<1> QED BY <1>1, <1>2, <1>3, <1>4, <1>5, <1>6 DEF q

\* The units of the blocks in S.
Blocked(ring, size, S) == UNION {ToSet(Blocks(ring, size)[b]) : b \in S}
AllBlocks(ring, size) == 1..(Len(ring) \div size)

\* Blocks are pieces of the audio in order, and the remainder is the last.
LEMMA BlocksAreAudio ==
  ASSUME NEW ring, Audio(ring), NEW size \in Nat \ {0}
  PROVE  LET All == AllBlocks(ring, size)
             blocks == Blocks(ring, size)
             rest == Remainder(ring, size)
         IN  /\ blocks \in [All -> Seq(Nat)]
             /\ \A b \in All : Audio(blocks[b])
             /\ \A b, c \in All : b < c => Below(ToSet(blocks[b]), ToSet(blocks[c]))
             /\ \A b \in All : Below(ToSet(blocks[b]), ToSet(rest))
             /\ Audio(rest)
             /\ Blocked(ring, size, All) \cup ToSet(rest) = ToSet(ring)
<1> DEFINE All == AllBlocks(ring, size)
           blocks == Blocks(ring, size)
           rest == Remainder(ring, size)
           q == Len(ring) \div size
           At(I) == {ring[i] : i \in I}
           last == (q * size) + 1 .. Len(ring)
<1>1. ring \in Seq(Nat) /\ Len(ring) \in Nat /\ Recorded(ring) /\ 0 \notin ToSet(ring)
  BY DEF Audio, Recorded
<1>2. /\ q \in Nat /\ q * size \in 0..Len(ring) /\ All = 1..q
      /\ \A b \in 1..q : /\ (b - 1) * size + 1 \in Nat \ {0}
                         /\ b * size \in 0..(q * size)
      /\ \A b, c \in 1..q : b < c => \A i \in Places(b, size), j \in Places(c, size) : i < j
      /\ UNION {Places(b, size) : b \in 1..q} = 1..(q * size)
  BY <1>1, BlocksTile DEF AllBlocks
<1>3. blocks = [b \in 1..q |-> SubSeq(ring, (b - 1) * size + 1, b * size)]
  BY DEF Blocks
<1>4. rest = SubSeq(ring, (q * size) + 1, Len(ring))
  BY DEF Remainder
<1>5. ToSet(ring) = At(1..Len(ring))
  BY <1>1 DEF ToSet
<1> HIDE DEF All, blocks, rest, q
<1>6. ASSUME NEW b \in 1..q
      PROVE  /\ Recorded(blocks[b]) /\ ToSet(blocks[b]) = At(Places(b, size))
             /\ Places(b, size) \subseteq 1..(q * size)
  <2>1. blocks[b] = SubSeq(ring, (b - 1) * size + 1, b * size)
    BY <1>3
  <2>2. b * size \in 0..Len(ring) /\ (b - 1) * size + 1 \in Nat \ {0}
    BY <1>1, <1>2
  <2>3. Places(b, size) \subseteq 1..(q * size)
    BY <1>2
  <2> DEFINE from == (b - 1) * size + 1
             to == b * size
  <2>4. from \in Nat \ {0} /\ to \in 0..Len(ring) /\ blocks[b] = SubSeq(ring, from, to)
    BY <2>1, <2>2
  <2>5. Places(b, size) = from..to
    BY DEF Places
  <2> HIDE DEF from, to
  <2>6. Recorded(blocks[b]) /\ ToSet(blocks[b]) = At(from..to)
    <3>1. Recorded(ring)
      BY <1>1
    <3>2. /\ Recorded(SubSeq(ring, from, to))
          /\ ToSet(SubSeq(ring, from, to)) = {ring[i] : i \in from..to}
      BY ONLY <2>4, <3>1, Pieces
    <3> HIDE DEF blocks
    <3> QED BY <2>4, <3>2
  <2> QED BY <2>3, <2>5, <2>6
<1>7. Recorded(rest) /\ ToSet(rest) = At(last)
  <2>1. (q * size) + 1 \in Nat \ {0} /\ Len(ring) \in 0..Len(ring)
    BY <1>1, <1>2
  <2> QED BY <1>1, <1>4, <2>1, Pieces
<1>8. /\ 1..(q * size) \subseteq 1..Len(ring) /\ last \subseteq 1..Len(ring)
      /\ (1..(q * size)) \cup last = 1..Len(ring)
      /\ \A i \in 1..(q * size), j \in last : i < j
  BY <1>1, <1>2
<1> HIDE DEF last
<1>9. \A b \in 1..q : Audio(blocks[b])
  BY <1>1, <1>5, <1>6, <1>8 DEF Audio
<1>10. Audio(rest)
  BY <1>1, <1>5, <1>7, <1>8 DEF Audio
<1>11. ASSUME NEW b \in 1..q, NEW c \in 1..q, b < c
       PROVE  Below(ToSet(blocks[b]), ToSet(blocks[c]))
  <2>1. Places(b, size) \subseteq 1..Len(ring) /\ Places(c, size) \subseteq 1..Len(ring)
    BY <1>6, <1>8
  <2>2. \A i \in Places(b, size), j \in Places(c, size) : i < j
    BY <1>2, <1>11
  <2>3. Below(At(Places(b, size)), At(Places(c, size)))
    BY <1>1, <2>1, <2>2, PositionsDecide
  <2> QED BY <1>6, <2>3
<1>12. ASSUME NEW b \in 1..q
       PROVE  Below(ToSet(blocks[b]), ToSet(rest))
  <2>1. Places(b, size) \subseteq 1..Len(ring)
    BY <1>6, <1>8
  <2>2. \A i \in Places(b, size), j \in last : i < j
    BY <1>6, <1>8
  <2>3. Below(At(Places(b, size)), At(last))
    BY <1>1, <1>8, <2>1, <2>2, PositionsDecide
  <2> QED BY <1>6, <1>7, <2>3
<1>13. Blocked(ring, size, All) \cup ToSet(rest) = ToSet(ring)
  <2>1. Blocked(ring, size, All) = UNION {At(Places(b, size)) : b \in 1..q}
    BY <1>2, <1>6 DEF Blocked, blocks
  <2>2. UNION {At(Places(b, size)) : b \in 1..q} = At(1..(q * size))
    <3> DEFINE P(b) == Places(b, size)
    <3>1. UNION {P(b) : b \in 1..q} = 1..(q * size)
      BY <1>2
    <3> HIDE DEF P
    <3>2. UNION {At(P(b)) : b \in 1..q} = At(UNION {P(b) : b \in 1..q})
      OBVIOUS
    <3> QED BY <3>1, <3>2 DEF P
  <2> QED BY <1>5, <1>7, <1>8, <2>1, <2>2
<1>14. blocks \in [All -> Seq(Nat)]
  BY <1>2, <1>3, <1>9 DEF Audio, Recorded
<1> QED BY <1>2, <1>9, <1>10, <1>11, <1>12, <1>13, <1>14 DEF All, blocks, rest

\* Some of the blocks joined are the audio of them.
LEMMA JoinedIsAudio ==
  ASSUME NEW ring, Audio(ring), NEW size \in Nat \ {0}, NEW S
  PROVE  /\ Audio(Joined(Blocks(ring, size), S))
         /\ ToSet(Joined(Blocks(ring, size), S)) =
              Blocked(ring, size, S \cap AllBlocks(ring, size))
<1> DEFINE All == AllBlocks(ring, size)
           blocks == Blocks(ring, size)
           q == Len(ring) \div size
           f == [b \in DOMAIN blocks |-> IF b \in S THEN blocks[b] ELSE <<>>]
<1>1. /\ blocks \in [All -> Seq(Nat)]
      /\ \A b \in All : Audio(blocks[b])
      /\ \A b, c \in All : b < c => Below(ToSet(blocks[b]), ToSet(blocks[c]))
  BY BlocksAreAudio
<1>2. q \in Nat /\ All = 1..q
  BY BlocksTile DEF AllBlocks, Audio, Recorded
<1>3. Joined(blocks, S) = FlattenSeq(f)
  BY DEF Joined
<1>4. Audio(<<>>) /\ ToSet(<<>>) = {}
  BY DEF Audio, Recorded, Orderly, ToSet
<1> HIDE DEF All, blocks, q
<1>5. f = [b \in 1..q |-> IF b \in S THEN blocks[b] ELSE <<>>]
  BY <1>1, <1>2
<1> HIDE DEF f
<1>6. \A b \in 1..q : f[b] = IF b \in S THEN blocks[b] ELSE <<>>
  BY <1>5
<1>7. \A b \in 1..q : Audio(f[b])
  BY <1>1, <1>2, <1>4, <1>6
<1>8. f \in [1..q -> Seq(Nat)]
  BY <1>5, <1>7 DEF Audio, Recorded
<1>9. \A b, c \in 1..q : b < c => Below(ToSet(f[b]), ToSet(f[c]))
  BY <1>1, <1>2, <1>4, <1>6 DEF Below
<1>10. /\ Audio(FlattenSeq(f))
       /\ ToSet(FlattenSeq(f)) = UNION {ToSet(f[b]) : b \in 1..q}
  <2>1. \A b \in 1..q : Recorded(f[b]) /\ 0 \notin ToSet(f[b])
    BY <1>7 DEF Audio
  <2>2. /\ Recorded(FlattenSeq(f))
        /\ ToSet(FlattenSeq(f)) = UNION {ToSet(f[b]) : b \in 1..q}
    BY <1>2, <1>8, <1>9, <2>1, Flattened
  <2> QED BY <2>1, <2>2 DEF Audio
<1>11. UNION {ToSet(f[b]) : b \in 1..q} = UNION {ToSet(blocks[b]) : b \in S \cap 1..q}
  BY <1>4, <1>6
<1> QED BY <1>2, <1>3, <1>10, <1>11 DEF Blocked, blocks, All

\* Earlier blocks are below later ones, and different blocks are apart.
LEMMA BlockedBelow ==
  ASSUME NEW ring, Audio(ring), NEW size \in Nat \ {0},
         NEW S \in SUBSET AllBlocks(ring, size), NEW T \in SUBSET AllBlocks(ring, size)
  PROVE  /\ (\A s \in S, t \in T : s < t) => Below(Blocked(ring, size, S), Blocked(ring, size, T))
         /\ S \cap T = {} => Blocked(ring, size, S) \cap Blocked(ring, size, T) = {}
<1> DEFINE All == AllBlocks(ring, size)
           u(b) == ToSet(Blocks(ring, size)[b])
<1>1. \A b, c \in All : b < c => Below(u(b), u(c))
  BY BlocksAreAudio
<1>2. \A b \in All : u(b) \subseteq Nat \ {0}
  <2> SUFFICES ASSUME NEW b \in All
               PROVE  u(b) \subseteq Nat \ {0}
    OBVIOUS
  <2>1. Audio(Blocks(ring, size)[b])
    BY BlocksAreAudio
  <2> QED BY <2>1 DEF Audio, Recorded, ToSet
<1>3. S \subseteq All /\ T \subseteq All /\ All \subseteq Int
  BY DEF AllBlocks
<1>4. /\ Blocked(ring, size, S) = UNION {u(b) : b \in S}
      /\ Blocked(ring, size, T) = UNION {u(b) : b \in T}
  BY DEF Blocked
<1> HIDE DEF u, All
<1>5. ASSUME \A s \in S, t \in T : s < t
      PROVE  Below(Blocked(ring, size, S), Blocked(ring, size, T))
  BY <1>1, <1>3, <1>4, <1>5 DEF Below
<1>6. ASSUME S \cap T = {}
      PROVE  Blocked(ring, size, S) \cap Blocked(ring, size, T) = {}
  <2> SUFFICES ASSUME NEW s \in S, NEW t \in T, NEW x \in u(s) \cap u(t)
               PROVE  FALSE
    BY <1>4
  <2>1. s # t /\ s \in Int /\ t \in Int /\ s \in All /\ t \in All
    BY <1>3, <1>6
  <2>2. x \in Nat \ {0}
    BY <1>2, <2>1
  <2>3. CASE s < t
    BY <1>1, <2>1, <2>2, <2>3 DEF Below
  <2>4. CASE t < s
    BY <1>1, <2>1, <2>2, <2>4 DEF Below
  <2> QED BY <2>1, <2>3, <2>4
<1> QED BY <1>5, <1>6

\* What a library does with blocks: it takes some of them, and is done with
\* all it has after some of those.
LEMMA EncodingsAre ==
  ASSUME NEW blocks, NEW n \in Nat, DOMAIN blocks = 1..n, Len(blocks) = n,
         NEW e \in Encodings(blocks)
  PROVE  e.good \in SUBSET (1..n) /\ e.done \in 0..n
<1>1. \/ e \in Pcm16Encodes(blocks)
      \/ e \in VorbisEncodes(blocks)
      \/ e \in OpusEncodes(blocks)
  BY DEF Encodings
<1> QED BY <1>1 DEF Pcm16Encodes, VorbisEncodes, OpusEncodes

\* What a codec hands over: the headers, what it kept, and the blocks it took up
\* to the one it is done with, in this order.
LEMMA OutputInOrder ==
  ASSUME Audio(held), NEW ring, Audio(ring), Below(ToSet(held), ToSet(ring)),
         NEW size \in Nat \ {0}, NEW e \in Encodings(Blocks(ring, size))
  PROVE  LET writes == Output(Blocks(ring, size), e)
             first == e.good \cap 1..e.done
         IN  /\ InOrder(writes)
             /\ Within(writes) \ {0} =
                  IF e.done = 0 THEN {} ELSE ToSet(held) \cup Blocked(ring, size, first)
<1> DEFINE blocks == Blocks(ring, size)
           n == Len(ring) \div size
           All == AllBlocks(ring, size)
           ws == Output(blocks, e)
           first == e.good \cap 1..e.done
           m == e.done + 2
           kept == IF e.done = 0 THEN <<>> ELSE held
<1>1. n \in Nat /\ All = 1..n
  BY BlocksTile DEF AllBlocks, Audio, Recorded
<1>2. /\ blocks \in [All -> Seq(Nat)]
      /\ \A b \in All : Audio(blocks[b])
      /\ \A b, c \in All : b < c => Below(ToSet(blocks[b]), ToSet(blocks[c]))
      /\ Blocked(ring, size, All) \subseteq ToSet(ring)
  BY BlocksAreAudio
<1>3. DOMAIN blocks = 1..n /\ Len(blocks) = n
  <2>1. blocks = [b \in 1..n |-> SubSeq(ring, (b - 1) * size + 1, b * size)]
    BY DEF Blocks
  <2> HIDE DEF blocks, n
  <2> QED BY <1>1, <2>1
<1>4. e.good \in SUBSET (1..n) /\ e.done \in 0..n
  BY <1>1, <1>3, EncodingsAre
<1>5. \A b \in All : ToSet(blocks[b]) \subseteq ToSet(ring)
  BY <1>2 DEF Blocked
<1>6. ToSet(ring) \subseteq Nat \ {0} /\ ToSet(held) \subseteq Nat \ {0}
  BY DEF Audio, Recorded, ToSet
<1>7. Recorded(Headers(blocks)) /\ ToSet(Headers(blocks)) \subseteq {0}
  BY DEF Headers, Prologue, Recorded, Orderly, ToSet
<1>8. Recorded(<<>>) /\ ToSet(<<>>) = {}
  BY DEF Recorded, Orderly, ToSet
<1>9. Recorded(kept) /\ ToSet(kept) = (IF e.done = 0 THEN {} ELSE ToSet(held))
  BY <1>8 DEF Audio
<1>10. /\ m \in Nat /\ DOMAIN ws = 1..m /\ ws[1] = Headers(blocks) /\ ws[2] = kept
       /\ \A w \in 3..m : ws[w] = IF w - 2 \in e.good THEN blocks[w - 2] ELSE <<>>
  <2>1. m \in Nat /\ 1 \in 1..m /\ 2 \in 1..m /\ \A w \in 3..m : w \in 1..m /\ w # 1 /\ w # 2
    BY <1>1, <1>4
  <2>2. ws = [w \in 1..m |-> CASE w = 1 -> Headers(blocks)
                              [] w = 2 -> kept
                              [] OTHER -> IF w - 2 \in e.good THEN blocks[w - 2] ELSE <<>>]
    BY DEF Output
  <2> HIDE DEF ws, kept, m, blocks
  <2> QED BY <2>1, <2>2
<1> HIDE DEF ws, kept, m, blocks, All
<1>11. \A w \in 1..m : w = 1 \/ w = 2 \/ w \in 3..m
  BY <1>10
<1>12. \A w \in 3..m : w - 2 \in 1..e.done /\ w - 2 \in All
  BY <1>1, <1>4 DEF m
<1>13. \A w \in 3..m :
         /\ Recorded(ws[w]) /\ ToSet(ws[w]) \subseteq ToSet(ring)
         /\ ToSet(ws[w]) = (IF w - 2 \in e.good THEN ToSet(blocks[w - 2]) ELSE {})
  BY <1>2, <1>5, <1>8, <1>10, <1>12 DEF Audio
<1>14. \A w \in 1..m : Recorded(ws[w])
  BY <1>7, <1>9, <1>10, <1>11, <1>13
<1>15. ASSUME NEW v \in 1..m, NEW w \in 1..m, v < w
       PROVE  Below(ToSet(ws[v]), ToSet(ws[w]))
  <2>1. CASE v = 1
    BY <1>7, <1>10, <2>1 DEF Below
  <2>2. CASE v = 2
    <3>1. w \in 3..m
      BY <1>15, <2>2
    <3>2. ToSet(ws[v]) \subseteq ToSet(held) /\ ToSet(ws[w]) \subseteq ToSet(ring)
      BY <1>9, <1>10, <1>13, <2>2, <3>1
    <3> QED BY <3>2 DEF Below
  <2>3. CASE v \in 3..m
    <3>1. w \in 3..m /\ v - 2 < w - 2
      BY <1>15, <2>3
    <3>2. CASE v - 2 \in e.good /\ w - 2 \in e.good
      <4>1. Below(ToSet(blocks[v - 2]), ToSet(blocks[w - 2]))
        BY <1>2, <1>12, <2>3, <3>1
      <4> QED BY <1>13, <2>3, <3>1, <3>2, <4>1
    <3>3. CASE v - 2 \notin e.good \/ w - 2 \notin e.good
      BY <1>13, <2>3, <3>1, <3>3 DEF Below
    <3> QED BY <3>2, <3>3
  <2> QED BY <1>11, <2>1, <2>2, <2>3
<1>16. InOrder(ws)
  <2>1. ws \in [1..m -> Seq(Nat)]
    <3>1. \A w \in 1..m : ws[w] \in Seq(Nat)
      BY <1>14 DEF Recorded
    <3>2. ws = [w \in 1..m |-> ws[w]]
      BY <1>10 DEF ws, Output
    <3> QED BY <3>1, <3>2
  <2> QED BY <1>10, <1>14, <1>15, <2>1 DEF InOrder
<1>17. Within(ws) = ToSet(ws[1]) \cup ToSet(ws[2]) \cup UNION {ToSet(ws[w]) : w \in 3..m}
  <2>1. 1..m = {1, 2} \cup 3..m
    BY <1>4 DEF m
  <2> QED BY <1>10, <2>1 DEF Within
<1>18. UNION {ToSet(ws[w]) : w \in 3..m} = Blocked(ring, size, first)
  <2>1. \A b \in first : b + 2 \in 3..m /\ (b + 2) - 2 = b
    BY <1>4 DEF m
  <2>2. \A w \in 3..m : w - 2 \in e.good => w - 2 \in first
    BY <1>12
  <2>3. Blocked(ring, size, first) = UNION {ToSet(blocks[b]) : b \in first}
    BY DEF Blocked, blocks
  <2>4. ASSUME NEW b \in first
        PROVE  ToSet(blocks[b]) = ToSet(ws[b + 2])
    <3>1. b + 2 \in 3..m /\ (b + 2) - 2 = b /\ b \in e.good
      BY <2>1
    <3> QED BY <1>13, <3>1
  <2> HIDE DEF first
  <2>5. UNION {ToSet(blocks[b]) : b \in first} \subseteq UNION {ToSet(ws[w]) : w \in 3..m}
    BY <2>1, <2>4
  <2>6. UNION {ToSet(ws[w]) : w \in 3..m} \subseteq UNION {ToSet(blocks[b]) : b \in first}
    BY <1>13, <2>2
  <2> QED BY <2>3, <2>5, <2>6
<1>19. Blocked(ring, size, first) \subseteq ToSet(ring) /\ (e.done = 0 => first = {})
  BY <1>4, <1>5, <1>1 DEF Blocked, blocks
<1>20. Within(ws) \ {0} =
         IF e.done = 0 THEN {} ELSE ToSet(held) \cup Blocked(ring, size, first)
  <2>1. Within(ws) \ {0} = (ToSet(kept) \cup Blocked(ring, size, first)) \ {0}
    BY <1>7, <1>10, <1>17, <1>18
  <2>2. e.done = 0 => Blocked(ring, size, first) = {}
    BY <1>19 DEF Blocked
  <2>3. 0 \notin ToSet(held) /\ 0 \notin Blocked(ring, size, first)
    BY <1>6, <1>19
  <2> HIDE DEF first
  <2> QED BY <1>9, <2>1, <2>2, <2>3
<1> QED BY <1>16, <1>20 DEF ws, blocks

\* What a codec makes of a ring buffer: what it hands over, keeps and leaves
\* is in this order; only the blocks that were refused are missing.
LEMMA Encoded ==
  ASSUME Audio(held), NEW ring, Audio(ring), Below(ToSet(held), ToSet(ring)),
         NEW size \in Nat \ {0}, NEW e \in Encodings(Blocks(ring, size))
  PROVE  LET blocks == Blocks(ring, size)
             writes == Output(blocks, e)
             data == Within(writes)
             kept == Kept(blocks, e)
             rest == Remainder(ring, size)
             refused == UNION {ToSet(blocks[b]) : b \in DOMAIN blocks \ e.good}
         IN  /\ InOrder(writes) /\ Audio(kept) /\ Audio(rest)
             /\ Below(data, ToSet(kept)) /\ Below(data, ToSet(rest))
             /\ Below(ToSet(kept), ToSet(rest))
             /\ (data \ {0}) \cup ToSet(kept) \cup ToSet(rest) \cup refused
                  = ToSet(held) \cup ToSet(ring)
             /\ refused \cap (data \cup ToSet(kept) \cup ToSet(rest)) = {}
<1> DEFINE blocks == Blocks(ring, size)
           n == Len(ring) \div size
           writes == Output(blocks, e)
           data == Within(writes)
           output == data \ {0}
           kept == Kept(blocks, e)
           rest == Remainder(ring, size)
           refused == UNION {ToSet(blocks[b]) : b \in DOMAIN blocks \ e.good}
           B(S) == Blocked(ring, size, S)
           J(S) == Joined(blocks, S)
           All == AllBlocks(ring, size)
           first == e.good \cap 1..e.done
           later == e.good \ 1..e.done
           H == ToSet(held)
           R == ToSet(rest)
<1>1. n \in Nat /\ All = 1..n /\ DOMAIN blocks = 1..n /\ Len(blocks) = n
  <2>1. Len(ring) \in Nat
    BY DEF Audio, Recorded
  <2>2. n \in Nat
    BY <2>1, BlocksTile
  <2>3. blocks = [b \in 1..n |-> SubSeq(ring, (b - 1) * size + 1, b * size)]
    BY DEF Blocks
  <2> HIDE DEF n, blocks
  <2>4. DOMAIN blocks = 1..n /\ Len(blocks) = n
    BY <2>2, <2>3
  <2> QED BY <2>2, <2>4 DEF AllBlocks, n
<1>2. e.good \in SUBSET All /\ e.done \in 0..n
  BY <1>1, EncodingsAre
<1>3. Audio(rest) /\ B(All) \cup R = ToSet(ring) /\ \A b \in All : Below(ToSet(blocks[b]), R)
  BY BlocksAreAudio
<1>4. /\ first \in SUBSET All /\ later \in SUBSET All /\ first \cup later = e.good
      /\ \A s \in first, t \in later : s < t
      /\ All \ e.good \in SUBSET All /\ (All \ e.good) \cup e.good = All
      /\ (All \ e.good) \cap e.good = {}
  BY <1>1, <1>2
<1>5. refused = B(All \ e.good)
  BY <1>1 DEF Blocked
<1>6. \A S \in SUBSET All : Audio(J(S)) /\ ToSet(J(S)) = B(S)
  <2> SUFFICES ASSUME NEW S \in SUBSET All
               PROVE  Audio(J(S)) /\ ToSet(J(S)) = B(S)
    OBVIOUS
  <2>1. S \cap All = S
    OBVIOUS
  <2> QED BY <2>1, JoinedIsAudio
<1>7. \A S \in SUBSET All : B(S) \subseteq B(All) /\ Below(B(S), R)
  BY <1>3 DEF Blocked, Below
<1>8. \A S, T \in SUBSET All : B(S \cup T) = B(S) \cup B(T)
  BY DEF Blocked
<1>9. Below(B(first), B(later)) /\ refused \cap B(e.good) = {}
  BY <1>2, <1>4, <1>5, BlockedBelow
<1>10. B(All) = B(e.good) \cup refused /\ B(e.good) = B(first) \cup B(later)
  <2>1. B((All \ e.good) \cup e.good) = B(All \ e.good) \cup B(e.good)
    BY <1>2, <1>4, <1>8
  <2>2. B(first \cup later) = B(first) \cup B(later)
    BY <1>4, <1>8
  <2> HIDE DEF B, All, first, later
  <2> QED BY <2>1, <2>2, <1>4, <1>5
<1>11. /\ H \subseteq Nat \ {0} /\ R \subseteq Nat \ {0} /\ ToSet(ring) \subseteq Nat \ {0}
  BY <1>3 DEF Audio, Recorded, ToSet
<1>12. /\ Below(H, B(first)) /\ Below(H, B(later)) /\ Below(H, B(e.good)) /\ Below(H, R)
       /\ H \cap ToSet(ring) = {}
  <2>1. H \cap ToSet(ring) = {}
    BY <1>11 DEF Below
  <2>2. B(first) \cup B(later) \cup B(e.good) \cup R \subseteq ToSet(ring)
    BY <1>3, <1>10
  <2> HIDE DEF B, H, R, first, later
  <2>3. \A T \in SUBSET ToSet(ring) : Below(H, T)
    BY DEF Below, H
  <2> QED BY <2>1, <2>2, <2>3
<1>13. Audio(<<>>) /\ ToSet(<<>>) = {}
  BY DEF Audio, Recorded, Orderly, ToSet
<1>14. /\ InOrder(writes)
       /\ output = IF e.done = 0 THEN {} ELSE H \cup B(first)
  BY OutputInOrder
<1> HIDE DEF writes, data, output
<1>15. /\ Audio(kept)
       /\ Below(output, ToSet(kept)) /\ Below(output, R)
       /\ Below(ToSet(kept), R)
       /\ output \cup ToSet(kept) = H \cup B(e.good)
  <2>1. ASSUME NEW S \in SUBSET All, Below(H, B(S))
        PROVE  Audio(held \o J(S)) /\ ToSet(held \o J(S)) = H \cup B(S)
    <3>1. Audio(J(S)) /\ ToSet(J(S)) = B(S)
      BY <1>6
    <3> HIDE DEF J, B
    <3> QED BY <2>1, <3>1, Concatenated DEF Audio
  <2>2. CASE e.done = 0
    <3>1. output = {} /\ kept = held \o J(e.good)
      BY <1>14, <2>2 DEF Kept
    <3>2. Audio(kept) /\ ToSet(kept) = H \cup B(e.good)
      BY <1>2, <1>12, <2>1, <3>1
    <3>3. Below(ToSet(kept), R)
      BY <1>2, <1>7, <1>12, <3>2 DEF Below
    <3> HIDE DEF kept
    <3> QED BY <3>1, <3>2, <3>3 DEF Below
  <2>3. CASE e.done # 0
    <3>1. output = H \cup B(first) /\ kept = J(later)
      BY <1>14, <2>3 DEF Kept
    <3>2. Audio(kept) /\ ToSet(kept) = B(later)
      BY <1>4, <1>6, <3>1
    <3> HIDE DEF kept, first, later, B
    <3>3. Below(output, ToSet(kept))
      BY <1>9, <1>12, <3>1, <3>2 DEF Below
    <3>4. Below(output, R) /\ Below(ToSet(kept), R)
      BY <1>4, <1>7, <1>12, <3>1, <3>2 DEF Below
    <3> QED BY <1>10, <3>1, <3>2, <3>3, <3>4
  <2> QED BY <2>2, <2>3
<1> HIDE DEF kept, B, refused, rest, first, later
<1>16. Below(data, ToSet(kept)) /\ Below(data, R)
  BY <1>15 DEF Below, output
<1>17. (data \ {0}) \cup ToSet(kept) \cup R \cup refused = H \cup ToSet(ring)
  BY <1>3, <1>10, <1>15 DEF output
<1>18. refused \cap (data \cup ToSet(kept) \cup R) = {}
  <2>1. refused \subseteq ToSet(ring) /\ Below(refused, R)
    BY <1>3, <1>4, <1>5, <1>7
  <2>2. refused \cap R = {}
    BY <1>11, <2>1 DEF Below
  <2>3. refused \cap (H \cup B(e.good)) = {}
    BY <1>9, <1>12, <2>1
  <2>4. data \subseteq output \cup {0} /\ 0 \notin refused
    BY <1>11, <2>1 DEF output
  <2> QED BY <1>15, <2>2, <2>3, <2>4
<1> QED BY <1>3, <1>14, <1>15, <1>16, <1>17, <1>18
       DEF data, writes, kept, rest, refused

-----------------------------------------------------------------------------
(* The invariant.                                                          *)

Starting == phase \in {"device", "codec", "connector"}

\* All that is in the files.
Written == UNION {ToSet(files[h]) : h \in Hours}

\* A file holds audio of its hour or an earlier one, in order.
FilesInv ==
  /\ files \in [Hours -> Seq(Nat)]
  /\ \A h \in Hours : Recorded(files[h])
  /\ \A h, k \in Hours : h < k => Below(ToSet(files[h]), ToSet(files[k]))

\* The hour of the last file that was opened: only it may be open, and the
\* files of later hours are empty.
LastHour == IF archiveHour = None THEN 0 ELSE archiveHour

TargetInv ==
  /\ hour \in Hours /\ archiveHour \in Hours \cup {None}
  /\ handle \in {None, LastHour} /\ LastHour <= hour
  /\ \A h \in Hours : h > LastHour => files[h] = <<>>
  /\ Starting => archiveHour = None /\ \A h \in Hours : files[h] = <<>>
  /\ rotateTimer => archiveHour # None

\* Written, held and waiting: all audio that was captured and not lost.
Order(written, kept, second, first) ==
  /\ Below(written, kept) /\ Below(written, second) /\ Below(written, first)
  /\ Below(kept, second) /\ Below(kept, first) /\ Below(second, first)

AudioInv ==
  /\ captured \in Nat /\ lost \subseteq 1..captured
  /\ Audio(held) /\ Audio(ring2) /\ Audio(ring1)
  /\ Order(Written, ToSet(held), ToSet(ring2), ToSet(ring1))
  /\ (Written \ {0}) \cup ToSet(held) \cup ToSet(ring2) \cup ToSet(ring1)
       = 1..captured \ lost

\* Without a sample rate of the device's own there is no second ring buffer,
\* and the device decides about that before anything is in it.
RateInv == ~ownRate \/ phase = "device" => ring2 = <<>>

IInv == FilesInv /\ TargetInv /\ AudioInv /\ RateInv

-----------------------------------------------------------------------------
(* What the steps do to it.                                                *)

\* Hours are numbers, and none of them is None.
LEMMA HoursAre ==
  /\ None \in Nat /\ None \notin Hours /\ 0 \in Hours
  /\ Hours \subseteq Nat /\ MaxHour \in Nat
  BY HourAssumption DEF None, Hours

\* Nothing is audio.
LEMMA NothingIsAudio == Audio(<<>>) /\ ToSet(<<>>) = {}
  BY DEF Audio, Recorded, Orderly, ToSet

\* The invariant at the start.
LEMMA InitInv == Init => IInv
<1> SUFFICES ASSUME Init
             PROVE  IInv
  OBVIOUS
<1>1. /\ hour = 0 /\ handle = None /\ archiveHour = None /\ rotateTimer = FALSE
      /\ files = [h \in Hours |-> <<>>]
      /\ held = <<>> /\ ring2 = <<>> /\ ring1 = <<>> /\ captured = 0 /\ lost = {}
  BY DEF Init, DeviceInit, CodecInit, ConnectorInit
<1>2. FilesInv
  BY <1>1, NothingIsAudio DEF FilesInv, Audio, Recorded, Below
<1>3. TargetInv
  BY <1>1, HoursAre DEF TargetInv, LastHour
<1>4. Written = {}
  BY <1>1, NothingIsAudio DEF Written
<1>5. AudioInv
  BY <1>1, <1>4, NothingIsAudio DEF AudioInv, Order, Below
<1>6. RateInv
  BY <1>1 DEF RateInv
<1> QED BY <1>2, <1>3, <1>5, <1>6 DEF IInv

\* Steps that move no audio.
LEMMA NothingMoves ==
  ASSUME IInv, UNCHANGED <<captured, ring1, lost, held, ring2, files>>,
         TargetInv', phase' = "device" => phase = "device",
         ownRate' = ownRate \/ phase = "device"
  PROVE  IInv'
<1>1. FilesInv'
  BY DEF IInv, FilesInv
<1>2. AudioInv'
  BY DEF IInv, AudioInv, Written
<1>3. RateInv'
  BY DEF IInv, RateInv
<1> QED BY <1>1, <1>2, <1>3 DEF IInv

\* Steps that leave the files alone.
LEMMA SameTarget ==
  ASSUME TargetInv, UNCHANGED <<hour, archiveHour, rotateTimer, files>>,
         handle' \in {None, handle}, phase' = phase \/ ~Starting' \/ Starting
  PROVE  TargetInv'
BY DEF TargetInv, LastHour, Starting

\* The next units of the source come last.
LEMMA DeliverKeeps ==
  ASSUME IInv, NEW n \in Nat \ {0}, Deliver(n), UNCHANGED <<held, ring2, files>>
  PROVE  AudioInv'
<1> DEFINE new == Units(captured, n)
           old == (Written \ {0}) \cup ToSet(held) \cup ToSet(ring2) \cup ToSet(ring1)
<1>1. /\ captured \in Nat /\ lost \subseteq 1..captured /\ old = 1..captured \ lost
      /\ Audio(held) /\ Audio(ring2) /\ Audio(ring1)
      /\ Order(Written, ToSet(held), ToSet(ring2), ToSet(ring1))
  BY DEF IInv, AudioInv
<1>2. /\ captured' = captured + n /\ ring1' = ring1 \o new /\ lost' = lost
      /\ Written' = Written
  BY DEF Deliver, Written
<1>3. /\ new \in Seq(Nat) /\ DOMAIN new = 1..n
      /\ \A i \in 1..n : new[i] = captured + i
  BY <1>1 DEF Units
<1>4. ToSet(new) = (captured + 1)..(captured + n)
  <2>1. ASSUME NEW x \in (captured + 1)..(captured + n)
        PROVE  x \in ToSet(new)
    <3>1. x - captured \in 1..n /\ captured + (x - captured) = x
      BY <1>1
    <3>2. new[x - captured] = x
      BY <1>3, <3>1
    <3> QED BY <1>3, <3>1, <3>2 DEF ToSet
  <2>2. ASSUME NEW i \in 1..n
        PROVE  captured + i \in (captured + 1)..(captured + n)
    BY <1>1
  <2> QED BY <1>3, <2>1, <2>2 DEF ToSet
<1>5. Audio(new)
  <2>1. Orderly(new)
    BY <1>1, <1>3 DEF Orderly
  <2>2. 0 \notin ToSet(new)
    BY <1>1, <1>4
  <2> QED BY <1>3, <2>1, <2>2 DEF Audio, Recorded
<1>6. \A S \in SUBSET (1..captured) : Below(S, ToSet(new))
  BY <1>1, <1>4 DEF Below
<1> HIDE DEF new
<1>7. /\ Below(Written, ToSet(new)) /\ Below(ToSet(held), ToSet(new))
      /\ Below(ToSet(ring2), ToSet(new)) /\ Below(ToSet(ring1), ToSet(new))
  <2>1. /\ Written \ {0} \in SUBSET (1..captured) /\ ToSet(held) \in SUBSET (1..captured)
        /\ ToSet(ring2) \in SUBSET (1..captured) /\ ToSet(ring1) \in SUBSET (1..captured)
    BY <1>1
  <2>2. Below(Written \ {0}, ToSet(new))
    BY <1>6, <2>1
  <2> QED BY <1>6, <2>1, <2>2 DEF Below
<1>8. Audio(ring1') /\ ToSet(ring1') = ToSet(ring1) \cup ToSet(new)
  BY <1>1, <1>2, <1>5, <1>7, Concatenated DEF Audio
<1>9. Order(Written', ToSet(held'), ToSet(ring2'), ToSet(ring1'))
  BY <1>1, <1>2, <1>7, <1>8 DEF Order, Below
<1>10. /\ captured' \in Nat /\ 1..captured' = (1..captured) \cup ToSet(new)
       /\ ToSet(new) \cap 1..captured = {}
  BY <1>1, <1>2, <1>4
<1>11. /\ lost' \subseteq 1..captured'
       /\ (Written' \ {0}) \cup ToSet(held') \cup ToSet(ring2') \cup ToSet(ring1')
            = 1..captured' \ lost'
  BY <1>1, <1>2, <1>8, <1>10
<1> QED BY <1>1, <1>8, <1>9, <1>10, <1>11 DEF AudioInv

\* An overrun.
LEMMA MissKeeps ==
  ASSUME IInv, NEW n \in Nat \ {0}, Miss(n), UNCHANGED <<held, ring2, files>>
  PROVE  AudioInv'
<1>1. /\ captured' = captured + n /\ ring1' = ring1
      /\ lost' = lost \cup (captured + 1)..(captured + n) /\ Written' = Written
  BY DEF Miss, Written
<1>2. captured \in Nat /\ lost \subseteq 1..captured
  BY DEF IInv, AudioInv
<1>3. /\ captured' \in Nat /\ lost' \subseteq 1..captured'
      /\ 1..captured' \ lost' = 1..captured \ lost
  BY <1>1, <1>2
<1> QED BY <1>1, <1>3 DEF IInv, AudioInv

\* What a device does keeps the invariant.
LEMMA DeviceKeeps ==
  ASSUME IInv, NEW n \in Readable, Deliver(n) \/ Miss(n),
         UNCHANGED <<codecVars, hour, serverVars, phase>>
  PROVE  IInv'
<1>1. n \in Nat \ {0}
  BY AudioAssumption DEF Readable
<1>2. UNCHANGED <<held, ring2, files, hour, archiveHour, rotateTimer, handle, phase, ownRate>>
  BY DEF codecVars, serverVars, archiveVars, deviceVars, Deliver, Miss
<1>3. AudioInv'
  BY <1>1, <1>2, DeliverKeeps, MissKeeps
<1>4. FilesInv' /\ RateInv'
  BY <1>2 DEF IInv, FilesInv, RateInv
<1>5. TargetInv'
  BY <1>2, SameTarget DEF IInv
<1> QED BY <1>3, <1>4, <1>5 DEF IInv

\* The rotation opens a file that is empty already.
LEMMA RotationKeeps ==
  ASSUME IInv, RotateFile, Starting \/ rotateTimer, UNCHANGED hour, ~Starting'
  PROVE  TargetInv' /\ files' = files
<1>1. TargetInv /\ files \in [Hours -> Seq(Nat)]
  BY DEF IInv, FilesInv
<1>2. CASE ~DidHourAdvance
  <2>1. UNCHANGED <<archiveHour, connected, handle, files>> /\ archiveHour = hour
    BY <1>2 DEF RotateFile, DidHourAdvance
  <2>2. archiveHour # None /\ ~Starting
    BY <1>1, <2>1, HoursAre DEF TargetInv
  <2> QED BY <1>1, <2>1, <2>2 DEF TargetInv, LastHour, Starting
<1>3. CASE DidHourAdvance
  <2>1. archiveHour' = hour /\ Open(hour) /\ archiveHour # hour
    BY <1>3 DEF RotateFile, DidHourAdvance
  <2>2. hour \in Hours /\ hour # None /\ LastHour' = hour /\ hour \in Nat
    BY <1>1, <2>1, HoursAre DEF TargetInv, LastHour
  <2>3. files[hour] = <<>> /\ LastHour <= hour /\ LastHour \in Nat
    <3>1. CASE Starting
      BY <1>1, <2>2, <3>1, HoursAre DEF TargetInv, LastHour
    <3>2. CASE ~Starting
      <4>1. archiveHour # None /\ archiveHour \in Nat
        BY <1>1, <3>2, HoursAre DEF TargetInv
      <4>2. hour > LastHour
        BY <1>1, <2>1, <2>2, <4>1 DEF TargetInv, LastHour
      <4> QED BY <1>1, <2>2, <4>1, <4>2 DEF TargetInv, LastHour
    <3> QED BY <3>1, <3>2
  <2>4. files' = files
    <3>1. [files EXCEPT ![hour] = <<>>] = files
      BY <1>1, <2>2, <2>3
    <3> QED BY <2>1, <3>1 DEF Open
  <2>5. handle' \in {None, LastHour'}
    BY <2>1, <2>2 DEF Open
  <2>6. \A h \in Hours : h > LastHour' => files'[h] = <<>>
    BY <1>1, <2>2, <2>3, <2>4, HoursAre DEF TargetInv
  <2> QED BY <1>1, <2>1, <2>2, <2>4, <2>5, <2>6 DEF TargetInv
<1> QED BY <1>2, <1>3

\* Writes append to the last file that holds anything.
LEMMA WriteKeeps ==
  ASSUME FilesInv, TargetInv, NEW writes, InOrder(writes), Below(Written, Within(writes)),
         NEW n \in Writable(writes), WriteData(writes, n)
  PROVE  LET taken == ToSet(Taken(writes, n))
             dropped == Dropped(writes, n)
         IN  /\ FilesInv' /\ \A h \in Hours : h > LastHour => files'[h] = <<>>
             /\ Written' = Written \cup taken
             /\ Within(writes) = taken \cup dropped
             /\ (taken \ {0}) \cap (dropped \ {0}) = {}
<1> DEFINE done == Taken(writes, n)
           gone == Dropped(writes, n)
<1>1. /\ \A w \in DOMAIN writes : n[w] \in 0..Len(writes[w])
      /\ handle = None => n = [w \in DOMAIN writes |-> 0]
  <2>1. CASE handle = None
    <3>1. n = [w \in DOMAIN writes |-> 0]
      BY <2>1 DEF Writable
    <3>2. \A w \in DOMAIN writes : Len(writes[w]) \in Nat
      BY DEF InOrder
    <3> QED BY <3>1, <3>2
  <2>2. CASE handle # None
    BY <2>2 DEF Writable
  <2> QED BY <2>1, <2>2
<1>2. /\ Recorded(done) /\ Within(writes) = ToSet(done) \cup gone
      /\ (ToSet(done) \ {0}) \cap (gone \ {0}) = {}
  BY <1>1, TakenAndDropped
<1>3. /\ files \in [Hours -> Seq(Nat)] /\ \A h \in Hours : Recorded(files[h])
      /\ \A h, k \in Hours : h < k => Below(ToSet(files[h]), ToSet(files[k]))
  BY DEF FilesInv
<1>4. CASE handle = None
  <2>1. files' = files
    BY <1>4 DEF WriteData
  <2>2. ToSet(done) = {}
    <3>1. InOrder(writes) /\ \A w \in DOMAIN writes : n[w] = 0
      BY <1>1, <1>4
    <3> QED BY <3>1, NothingTaken
  <2>3. FilesInv' /\ Written' = Written
    BY <2>1 DEF FilesInv, Written
  <2>4. \A h \in Hours : h > LastHour => files'[h] = <<>>
    BY <2>1 DEF TargetInv
  <2> HIDE DEF done, gone
  <2> QED BY <1>2, <2>2, <2>3, <2>4 DEF done, gone
<1>5. CASE handle # None
  <2> DEFINE f == files[handle]
  <2>1. handle = LastHour /\ handle \in Hours /\ files' = [files EXCEPT ![handle] = f \o done]
    BY <1>5, HoursAre DEF WriteData, TargetInv, LastHour
  <2> HIDE DEF done, gone
  <2>2. ToSet(done) \subseteq Within(writes) /\ Below(ToSet(f), ToSet(done))
    BY <1>2, <2>1 DEF Below, Written
  <2>3. Recorded(f \o done) /\ ToSet(f \o done) = ToSet(f) \cup ToSet(done)
    BY <1>2, <1>3, <2>1, <2>2, Concatenated
  <2>4. /\ files' \in [Hours -> Seq(Nat)] /\ files'[handle] = f \o done
        /\ \A h \in Hours : h # handle => files'[h] = files[h]
    BY <1>3, <2>1, <2>3 DEF Recorded
  <2>5. \A h \in Hours : Recorded(files'[h])
    BY <1>3, <2>3, <2>4
  <2>6. \A h \in Hours : h > LastHour => files'[h] = <<>>
    BY <2>1, <2>4, HoursAre DEF TargetInv
  <2>7. ASSUME NEW h \in Hours, NEW k \in Hours, h < k
        PROVE  Below(ToSet(files'[h]), ToSet(files'[k]))
    <3>1. CASE k = handle
      <4>1. files'[h] = files[h] /\ h # k
        BY <2>4, <2>7, <3>1, HoursAre
      <4>2. Below(ToSet(files[h]), ToSet(f)) /\ Below(ToSet(files[h]), ToSet(done))
        BY <1>3, <2>2, <2>7, <3>1 DEF Below, Written
      <4> QED BY <2>3, <2>4, <3>1, <4>1, <4>2 DEF Below
    <3>2. CASE h = handle
      <4>1. k > LastHour
        BY <2>1, <2>7, <3>2, HoursAre
      <4> QED BY <2>6, <4>1, NothingIsAudio DEF Below
    <3>3. CASE h # handle /\ k # handle
      BY <1>3, <2>4, <2>7, <3>3
    <3> QED BY <3>1, <3>2, <3>3
  <2>8. FilesInv'
    BY <2>4, <2>5, <2>7 DEF FilesInv
  <2>9. Written' = Written \cup ToSet(done)
    BY <2>1, <2>3, <2>4 DEF Written
  <2> QED BY <1>2, <2>6, <2>8, <2>9 DEF done, gone
<1> QED BY <1>4, <1>5

\* What becomes of the blocks of a ring buffer: of all that was in the files,
\* in the encoder and in the ring buffer, only what is lost is there no more.
LEMMA BlocksKeep ==
  ASSUME FilesInv, TargetInv, Audio(held), NEW ring, Audio(ring),
         Below(Written, ToSet(held)), Below(Written, ToSet(ring)),
         Below(ToSet(held), ToSet(ring)),
         NEW size \in Nat \ {0}, NEW dropped, EncodeBlocks(ring, size, dropped)
  PROVE  LET rest == Remainder(ring, size)
             before == (Written \ {0}) \cup ToSet(held) \cup ToSet(ring)
             after == (Written' \ {0}) \cup ToSet(held') \cup ToSet(rest)
         IN  /\ FilesInv' /\ \A h \in Hours : h > LastHour => files'[h] = <<>>
             /\ Audio(held') /\ Audio(rest)
             /\ Below(Written', ToSet(held')) /\ Below(Written', ToSet(rest))
             /\ Below(ToSet(held'), ToSet(rest))
             /\ after \subseteq before /\ lost' = lost \cup dropped \cup (before \ after)
<1> DEFINE blocks == Blocks(ring, size)
           rest == Remainder(ring, size)
           before == (Written \ {0}) \cup ToSet(held) \cup ToSet(ring)
           after == (Written' \ {0}) \cup ToSet(held') \cup ToSet(rest)
<1> DEFINE Becomes(b, e, ws, n) ==
             /\ held' = Kept(b, e)
             /\ WriteData(ws, n)
             /\ lost' = lost \cup dropped
                           \cup (UNION {ToSet(b[i]) : i \in DOMAIN b \ e.good})
                           \cup (Dropped(ws, n) \ {Prologue})
<1>1. \E b \in {blocks} : \E e \in Encodings(b) :
        \E ws \in {Output(b, e)} : \E n \in Writable(ws) : Becomes(b, e, ws, n)
  BY Zenon DEF EncodeBlocks
<1> HIDE DEF Becomes, blocks
<1>2. PICK e \in Encodings(blocks) :
        \E n \in Writable(Output(blocks, e)) : Becomes(blocks, e, Output(blocks, e), n)
  BY <1>1
<1> DEFINE writes == Output(blocks, e)
           refused == UNION {ToSet(blocks[b]) : b \in DOMAIN blocks \ e.good}
<1>3. PICK n \in Writable(writes) : Becomes(blocks, e, writes, n)
  BY <1>2
<1> DEFINE W == ToSet(Taken(writes, n))
           G == Dropped(writes, n)
           D == Within(writes)
<1>4. /\ held' = Kept(blocks, e)
      /\ WriteData(writes, n)
      /\ lost' = lost \cup dropped \cup refused \cup (G \ {0})
  <2>1. /\ held' = Kept(blocks, e)
        /\ WriteData(writes, n)
        /\ lost' = lost \cup dropped \cup refused \cup (G \ {Prologue})
    BY <1>3 DEF Becomes
  <2>2. Prologue = 0
    BY DEF Prologue
  <2> HIDE DEF writes, refused, G
  <2> QED BY <2>1, <2>2
<1> USE DEF blocks
<1>5. /\ InOrder(writes) /\ Audio(held') /\ Audio(rest)
      /\ Below(D, ToSet(held')) /\ Below(D, ToSet(rest))
      /\ Below(ToSet(held'), ToSet(rest))
      /\ (D \ {0}) \cup ToSet(held') \cup ToSet(rest) \cup refused
           = ToSet(held) \cup ToSet(ring)
      /\ refused \cap (D \cup ToSet(held') \cup ToSet(rest)) = {}
  BY <1>4, Encoded
<1> HIDE DEF writes, refused, rest
<1> DEFINE H == ToSet(held')
           R == ToSet(rest)
           A == ToSet(held) \cup ToSet(ring)
<1>6. Below(Written, A)
  BY DEF Below
<1>7. Below(Written, D) /\ Below(Written, H) /\ Below(Written, R) /\ Below(Written, refused)
  <2>1. D \ {0} \subseteq A /\ H \subseteq A /\ R \subseteq A /\ refused \subseteq A
    BY <1>5
  <2> HIDE DEF D, H, R, A
  <2> QED BY <1>6, <2>1 DEF Below
<1>8. /\ FilesInv' /\ \A h \in Hours : h > LastHour => files'[h] = <<>>
      /\ Written' = Written \cup W /\ D = W \cup G /\ (W \ {0}) \cap (G \ {0}) = {}
  BY <1>5, <1>7, <1>4, WriteKeeps
<1>9. /\ A \subseteq Nat \ {0} /\ D \subseteq Nat /\ Written \subseteq Nat
      /\ H \subseteq Nat \ {0} /\ R \subseteq Nat \ {0}
  <2>1. \A s : Audio(s) => ToSet(s) \subseteq Nat \ {0}
    BY DEF Audio, Recorded, ToSet
  <2>2. A \subseteq Nat \ {0} /\ H \subseteq Nat \ {0} /\ R \subseteq Nat \ {0}
    BY <1>5, <2>1
  <2>3. D \subseteq Nat
    BY <1>5, WithinNat
  <2>4. Written \subseteq Nat
    BY DEF FilesInv, Written, ToSet
  <2> HIDE DEF D, H, R, A
  <2> QED BY <2>2, <2>3, <2>4
<1> HIDE DEF D, H, R, A, W, G
<1>10. Below(Written', H) /\ Below(Written', R)
  BY <1>5, <1>7, <1>8 DEF Below, D, H, R
<1>11. before = (Written \ {0}) \cup A /\ after = (Written' \ {0}) \cup H \cup R
  BY DEF A, H, R
<1>12. /\ A = (D \ {0}) \cup H \cup R \cup refused
       /\ refused \cap (D \cup H \cup R) = {} /\ Below(D, H) /\ Below(D, R)
  BY <1>5 DEF D, H, R, A
<1>13. (Written \ {0}) \cap A = {} /\ (D \ {0}) \cap (H \cup R) = {}
  <2>1. H \cup R \subseteq Nat /\ A \subseteq Nat
    BY <1>9
  <2>2. Below(D, H \cup R)
    BY <1>12 DEF Below
  <2>3. /\ (Written \ {0}) \cap (A \ {0}) = {}
        /\ (D \ {0}) \cap ((H \cup R) \ {0}) = {}
    BY <1>6, <1>9, <2>1, <2>2, BelowIsApart
  <2> QED BY <1>9, <2>3
<1>14. after \subseteq before
  BY <1>8, <1>11, <1>12
<1>15. before \ after = refused \cup (G \ {0})
  <2>1. refused \cup (G \ {0}) \subseteq before
    BY <1>8, <1>11, <1>12
  <2>2. (refused \cup (G \ {0})) \cap after = {}
    <3>1. (G \ {0}) \cap ((Written \ {0}) \cup (W \ {0}) \cup H \cup R) = {}
      <4>1. G \ {0} \subseteq A /\ G \ {0} \subseteq D \ {0}
        BY <1>8, <1>12
      <4> QED BY <1>8, <1>13, <4>1
    <3>2. refused \cap ((Written \ {0}) \cup (W \ {0}) \cup H \cup R) = {}
      <4>1. refused \subseteq A /\ W \subseteq D
        BY <1>8, <1>12
      <4> QED BY <1>12, <1>13, <4>1
    <3> QED BY <1>8, <1>11, <3>1, <3>2
  <2>3. before \subseteq after \cup refused \cup (G \ {0})
    BY <1>8, <1>11, <1>12
  <2> QED BY <2>1, <2>2, <2>3
<1>16. lost' = lost \cup dropped \cup (before \ after)
  <2>1. lost' = lost \cup dropped \cup refused \cup (G \ {0})
    BY <1>4
  <2> HIDE DEF before, after
  <2> QED BY <1>15, <2>1
<1> HIDE DEF before, after
<1>17. Below(Written', ToSet(held')) /\ Below(Written', ToSet(rest))
  BY <1>10 DEF H, R
<1> QED BY <1>5, <1>8, <1>14, <1>16, <1>17 DEF before, after, rest

\* Whether a ring buffer lies between the device and the encoder or two, and
\* whatever the converter and the encoder make of their blocks.
LEMMA EncodeKeeps ==
  ASSUME IInv, Encode, UNCHANGED captured
  PROVE  /\ FilesInv' /\ (\A h \in Hours : h > LastHour => files'[h] = <<>>)
         /\ AudioInv' /\ (~ownRate => ring2' = <<>>)
<1> DEFINE W == Written \ {0}
           H == ToSet(held)
           R2 == ToSet(ring2)
           R1 == ToSet(ring1)
           rest == Remainder(ring1, SourceBlock)
           M1 == ToSet(rest)
           C == 1..captured
<1>1. /\ FilesInv /\ TargetInv /\ captured \in Nat /\ lost \subseteq C
      /\ Audio(held) /\ Audio(ring2) /\ Audio(ring1)
      /\ Below(Written, H) /\ Below(Written, R2) /\ Below(Written, R1)
      /\ Below(H, R2) /\ Below(H, R1) /\ Below(R2, R1)
      /\ W \cup H \cup R2 \cup R1 = C \ lost
      /\ SourceBlock \in Nat \ {0} /\ StreamBlock \in Nat \ {0}
  BY CodecAssumption DEF IInv, AudioInv, Order
<1>2. /\ H \subseteq Nat \ {0} /\ R2 \subseteq Nat \ {0} /\ R1 \subseteq Nat \ {0}
      /\ Written \subseteq Nat
  BY <1>1 DEF Audio, Recorded, ToSet, FilesInv, Written
<1>3. CASE ~ownRate
  <2>1. ring1' = rest /\ EncodeBlocks(ring1, SourceBlock, {}) /\ ring2' = ring2
    BY <1>3 DEF Encode
  <2>2. ring2 = <<>> /\ R2 = {}
    BY <1>3, NothingIsAudio DEF IInv, RateInv
  <2> DEFINE before == W \cup H \cup R1
             after == (Written' \ {0}) \cup ToSet(held') \cup M1
  <2>3. /\ FilesInv' /\ (\A h \in Hours : h > LastHour => files'[h] = <<>>)
        /\ Audio(held') /\ Audio(rest)
        /\ Below(Written', ToSet(held')) /\ Below(Written', M1)
        /\ Below(ToSet(held'), M1)
        /\ after \subseteq before /\ lost' = lost \cup {} \cup (before \ after)
    BY <1>1, <2>1, BlocksKeep
  <2>4. /\ lost' \subseteq C /\ after = C \ lost'
    <3>1. before = C \ lost
      BY <1>1, <2>2
    <3> HIDE DEF before, after, C
    <3> QED BY <1>1, <2>3, <3>1
  <2>5. Order(Written', ToSet(held'), ToSet(ring2'), ToSet(ring1'))
    BY <2>1, <2>2, <2>3 DEF Order, Below
  <2>6. (Written' \ {0}) \cup ToSet(held') \cup ToSet(ring2') \cup ToSet(ring1')
           = 1..captured' \ lost'
    BY <2>1, <2>2, <2>4
  <2> QED BY <1>1, <2>1, <2>2, <2>3, <2>4, <2>5, <2>6 DEF AudioInv
<1>4. CASE ownRate
  <2> DEFINE blocks == Blocks(ring1, SourceBlock)
             All == AllBlocks(ring1, SourceBlock)
  <2>1. PICK good \in SUBSET DOMAIN blocks : \E ring \in {Converted(ring1, good)} :
          /\ ring1' = Remainder(ring1, SourceBlock)
          /\ ring2' = Remainder(ring, StreamBlock)
          /\ EncodeBlocks(ring, StreamBlock,
                          UNION {ToSet(Blocks(ring1, SourceBlock)[b]) :
                                 b \in DOMAIN Blocks(ring1, SourceBlock) \ good})
    BY <1>4 DEF Encode
  <2> DEFINE ring == Converted(ring1, good)
             last == Remainder(ring, StreamBlock)
             dropped == UNION {ToSet(blocks[b]) : b \in DOMAIN blocks \ good}
             B(S) == Blocked(ring1, SourceBlock, S)
             G == B(good)
             D == B(All \ good)
  <2>2. ring1' = rest /\ ring2' = last /\ EncodeBlocks(ring, StreamBlock, dropped)
    BY <2>1
  <2>3. /\ DOMAIN blocks = All /\ Audio(rest) /\ B(All) \cup M1 = R1
        /\ \A b \in All : Below(ToSet(blocks[b]), M1)
    BY <1>1, BlocksAreAudio
  <2>4. dropped = D /\ good \in SUBSET All /\ All \ good \in SUBSET All
    BY <2>3 DEF Blocked
  <2>5. B(All) = G \cup D /\ Below(G, M1) /\ Below(D, M1)
    BY <2>3, <2>4 DEF Blocked, Below
  <2>6. G \cap D = {}
    <3>1. good \cap (All \ good) = {}
      OBVIOUS
    <3> QED BY <1>1, <2>4, <3>1, BlockedBelow
  <2>7. Audio(Joined(blocks, good)) /\ ToSet(Joined(blocks, good)) = G
    <3>1. good \cap All = good
      BY <2>4
    <3> QED BY <1>1, <3>1, JoinedIsAudio
  <2> HIDE DEF G, D, B, dropped
  <2>8. R1 = G \cup D \cup M1
    BY <2>3, <2>5
  <2>9. /\ Below(Written, G) /\ Below(H, G) /\ Below(R2, G)
        /\ Below(Written, M1) /\ Below(H, M1) /\ Below(R2, M1)
        /\ Below(Written, D) /\ Below(H, D) /\ Below(R2, D)
    BY <1>1, <2>8 DEF Below
  <2>10. Audio(ring) /\ ToSet(ring) = R2 \cup G
    <3>1. ring = ring2 \o Joined(blocks, good)
      BY DEF Converted
    <3>2. /\ Recorded(ring2) /\ Recorded(Joined(blocks, good))
          /\ 0 \notin R2 /\ 0 \notin G
      BY <1>1, <2>7 DEF Audio
    <3>3. Recorded(ring) /\ ToSet(ring) = R2 \cup G
      BY <2>7, <2>9, <3>1, <3>2, Concatenated
    <3> QED BY <3>2, <3>3 DEF Audio
  <2> HIDE DEF ring
  <2>11. Below(Written, ToSet(ring)) /\ Below(H, ToSet(ring))
    BY <1>1, <2>9, <2>10 DEF Below
  <2> DEFINE before == W \cup H \cup ToSet(ring)
             after == (Written' \ {0}) \cup ToSet(held') \cup ToSet(last)
  <2>12. /\ FilesInv' /\ (\A h \in Hours : h > LastHour => files'[h] = <<>>)
         /\ Audio(held') /\ Audio(last)
         /\ Below(Written', ToSet(held')) /\ Below(Written', ToSet(last))
         /\ Below(ToSet(held'), ToSet(last))
         /\ after \subseteq before /\ lost' = lost \cup dropped \cup (before \ after)
    BY <1>1, <2>2, <2>10, <2>11, BlocksKeep
  <2>13. before = W \cup H \cup R2 \cup G
    BY <2>10
  <2>14. D \cap (before \cup M1) = {} /\ M1 \cap before = {}
    <3>1. G \subseteq Nat \ {0} /\ D \subseteq Nat \ {0} /\ M1 \subseteq Nat \ {0} /\ W \subseteq Nat \ {0}
      BY <1>2, <2>8
    <3> HIDE DEF W, H, R2, M1, before
    <3>2. D \cap (H \cup R2 \cup M1) = {} /\ M1 \cap (H \cup R2 \cup G) = {}
      BY <1>2, <2>5, <2>9, <3>1 DEF Below
    <3>3. D \cap W = {} /\ M1 \cap W = {}
      BY <2>9, <3>1 DEF Below, W
    <3> QED BY <2>6, <2>13, <3>2, <3>3
  <2>15. Below(Written', M1) /\ Below(ToSet(held'), M1) /\ Below(ToSet(last), M1)
    <3>1. /\ Written' \ {0} \subseteq before /\ ToSet(held') \subseteq before
          /\ ToSet(last) \subseteq before
      BY <2>12
    <3>2. Below(before, M1)
      BY <2>5, <2>9, <2>13 DEF Below
    <3> HIDE DEF before, M1, last
    <3> QED BY <3>1, <3>2 DEF Below
  <2>16. lost' \subseteq C /\ after \cup M1 = C \ lost'
    <3>1. /\ before \cup D \cup M1 = C \ lost
          /\ lost' = lost \cup D \cup (before \ after) /\ after \subseteq before
      BY <1>1, <2>4, <2>8, <2>12, <2>13
    <3> HIDE DEF before, after, C, M1
    <3> QED BY <1>1, <2>14, <3>1
  <2>17. Order(Written', ToSet(held'), ToSet(ring2'), ToSet(ring1'))
    BY <2>2, <2>12, <2>15 DEF Order
  <2> HIDE DEF rest, last
  <2>18. (Written' \ {0}) \cup ToSet(held') \cup ToSet(ring2') \cup ToSet(ring1')
           = 1..captured' \ lost'
    BY <2>2, <2>16
  <2> QED BY <1>1, <1>4, <2>2, <2>3, <2>12, <2>16, <2>17, <2>18 DEF AudioInv
<1> QED BY <1>3, <1>4

\* An encoder ends the program or leaves its phase alone.
LEMMA EncoderLivesOrFails ==
  ASSUME Encode
  PROVE  phase' \in {phase, "failed"}
<1>1. \A ring, size, dropped : EncodeBlocks(ring, size, dropped) => phase' \in {phase, "failed"}
  <2> SUFFICES ASSUME NEW ring, NEW size, NEW dropped, EncodeBlocks(ring, size, dropped)
               PROVE  phase' \in {phase, "failed"}
    OBVIOUS
  <2>1. \E blocks \in {Blocks(ring, size)} : \E e \in Encodings(blocks) :
          phase' \in {phase} \cup IF MayGiveUp(blocks, e) THEN {"failed"} ELSE {}
    BY Zenon DEF EncodeBlocks
  <2> QED BY <2>1
<1>2. \E ring, size, dropped : EncodeBlocks(ring, size, dropped)
  BY Zenon DEF Encode
<1> QED BY <1>1, <1>2

\* Every step keeps the invariant.
LEMMA StepInv == IInv /\ [Next]_vars => IInv'
<1> SUFFICES ASSUME IInv, [Next]_vars
             PROVE  IInv'
  OBVIOUS
<1> USE DEF deviceVars, audioVars, codecVars, serverVars, archiveVars
<1>0. TargetInv /\ FilesInv
  BY DEF IInv
<1>1. CASE StartAudioDevice
  <2>1. UNCHANGED <<captured, ring1, lost, held, ring2, files, hour, archiveHour,
                    rotateTimer, handle>> /\ phase = "device"
    BY <1>1 DEF StartAudioDevice
  <2>2. TargetInv'
    BY <1>0, <2>1, SameTarget DEF Starting
  <2> QED BY <2>1, <2>2, NothingMoves
<1>2. CASE JackStarted
  <2>1. UNCHANGED <<captured, ring1, lost, held, ring2, files, hour, archiveHour,
                    rotateTimer, handle>> /\ phase = "device"
    BY <1>2 DEF JackStarted
  <2>2. TargetInv'
    BY <1>0, <2>1, SameTarget DEF Starting
  <2> QED BY <2>1, <2>2, NothingMoves
<1>3. CASE StartCodec
  <2>1. UNCHANGED <<captured, ring1, lost, held, ring2, files, hour, archiveHour,
                    rotateTimer, handle, ownRate>>
        /\ phase = "codec" /\ phase' \in {"connector", "failed"}
    BY <1>3 DEF StartCodec, Started
  <2>2. TargetInv'
    BY <1>0, <2>1, SameTarget DEF Starting
  <2> QED BY <2>1, <2>2, NothingMoves
<1>4. CASE StartServerConnection
  <2>1. UNCHANGED <<captured, ring1, lost, held, ring2, hour, ownRate>>
        /\ phase = "connector" /\ phase' \in {"running", "failed"}
    BY <1>4 DEF StartServerConnection
  <2>2. Starting /\ ~Starting'
    BY <2>1 DEF Starting
  <2>3. /\ archiveHour = None /\ LastHour = 0 /\ \A h \in Hours : files[h] = <<>>
    BY <1>0, <2>2 DEF TargetInv, LastHour
  <2>4. TargetInv' /\ files' = files
    <3>1. CASE FileConnect
      <4>1. [files EXCEPT ![0] = <<>>] = files
        BY <1>0, <2>3, HoursAre DEF FilesInv
      <4>2. /\ files' = files /\ handle' \in {0, None}
            /\ UNCHANGED <<archiveHour, rotateTimer>>
        BY <3>1, <4>1 DEF FileConnect, Open
      <4> QED BY <1>0, <2>1, <2>2, <2>3, <4>2 DEF TargetInv, LastHour
    <3>2. CASE IceOutConnect
      BY <1>0, <2>1, <2>2, <2>3, <3>2 DEF TargetInv, LastHour, IceOutConnect
    <3>3. CASE ArchiveConnect
      BY <2>1, <2>2, <3>3, RotationKeeps DEF ArchiveConnect
    <3>4. CASE UNCHANGED archiveVars
      BY <1>0, <2>1, <2>2, <3>4, SameTarget
    <3> QED BY <1>4, <3>1, <3>2, <3>3, <3>4 DEF StartServerConnection
  <2> QED BY <2>1, <2>4, NothingMoves
<1>5. CASE DeviceDelivers
  BY <1>5, DeviceKeeps
     DEF DeviceDelivers, AlsaPeriod, JackCallback, FileRead, AsiHpiRead
<1>6. CASE JackCallbackEarly
  <2>1. CASE \E n \in Readable : Deliver(n) /\ UNCHANGED phase
    BY <1>6, <2>1, DeviceKeeps DEF JackCallbackEarly
  <2>2. CASE phase' = "crashed" /\ UNCHANGED <<deviceVars, audioVars, lost>>
    <3>1. TargetInv'
      BY <1>0, <1>6, <2>2, SameTarget DEF JackCallbackEarly, Starting
    <3> QED BY <1>6, <2>2, <3>1, NothingMoves DEF JackCallbackEarly
  <2> QED BY <1>6, <2>1, <2>2 DEF JackCallbackEarly
<1>7. CASE DataTimer
  <2>1. UNCHANGED <<captured, hour, handle, archiveHour, rotateTimer, ownRate>>
        /\ Encode /\ phase # "device" /\ ~Starting
    BY <1>7 DEF DataTimer, InEventLoop, Starting
  <2>4. phase' # "device" /\ ~Starting'
    <3>1. phase' \in {phase, "failed"}
      BY <2>1, EncoderLivesOrFails
    <3> QED BY <2>1, <3>1 DEF Starting
  <2>2. /\ FilesInv' /\ (\A h \in Hours : h > LastHour => files'[h] = <<>>)
        /\ AudioInv' /\ (~ownRate => ring2' = <<>>)
    BY <2>1, EncodeKeeps
  <2>3. TargetInv'
    BY <1>0, <2>1, <2>2, <2>4 DEF TargetInv, LastHour
  <2> QED BY <2>1, <2>2, <2>3, <2>4 DEF IInv, RateInv
<1>8. CASE FileEnds \/ SignalHandler
  <2>1. UNCHANGED <<captured, ring1, lost, held, ring2, files, hour, archiveHour,
                    rotateTimer, handle, phase, ownRate>>
    BY <1>8 DEF FileEnds, SignalHandler, RequestExit
  <2> QED BY <1>0, <2>1, SameTarget, NothingMoves
<1>9. CASE ExitTimer
  <2>1. UNCHANGED <<captured, ring1, lost, held, ring2, files, hour, archiveHour,
                    rotateTimer, handle, ownRate>>
        /\ phase' \in {"exited", "stopping"}
    BY <1>9 DEF ExitTimer
  <2>2. TargetInv'
    BY <1>0, <2>1, SameTarget DEF Starting
  <2> QED BY <2>1, <2>2, NothingMoves
<1>10. CASE StopTimeout
  <2>1. UNCHANGED <<captured, ring1, lost, held, ring2, files, hour, archiveHour,
                    rotateTimer, ownRate>>
        /\ handle' = None /\ phase' = "exited"
    BY <1>10 DEF StopTimeout
  <2>2. TargetInv'
    BY <1>0, <2>1, SameTarget DEF Starting
  <2> QED BY <2>1, <2>2, NothingMoves
<1>11. CASE ClockTicks
  <2>1. UNCHANGED <<captured, ring1, lost, held, ring2, files, archiveHour,
                    rotateTimer, handle, phase, ownRate>>
        /\ hour' = hour + 1 /\ hour < MaxHour
    BY <1>11 DEF ClockTicks
  <2>2. hour' \in Hours /\ LastHour' <= hour'
    BY <1>0, <2>1, HoursAre DEF TargetInv, LastHour, Hours
  <2>3. TargetInv'
    BY <1>0, <2>1, <2>2 DEF TargetInv, LastHour, Starting
  <2> QED BY <2>1, <2>3, NothingMoves
<1>12. CASE ArchiveRotates
  <2>1. UNCHANGED <<captured, ring1, lost, held, ring2, hour, phase, ownRate>>
        /\ ~Starting' /\ rotateTimer /\ RotateFile
    BY <1>12 DEF ArchiveRotates, RotateTimer, InEventLoop, Starting
  <2>2. TargetInv' /\ files' = files
    BY <2>1, RotationKeeps
  <2> QED BY <2>1, <2>2, NothingMoves
<1>13. CASE UNCHANGED vars
  <2>1. UNCHANGED <<captured, ring1, lost, held, ring2, files, hour, archiveHour,
                    rotateTimer, handle, phase, ownRate>>
    BY <1>13 DEF vars
  <2> QED BY <1>0, <2>1, SameTarget, NothingMoves
<1>14. CASE AlsaErrorAsCount
  <2>1. UNCHANGED <<captured, ring1, lost, held, ring2, files, hour, archiveHour,
                    rotateTimer, handle, ownRate>>
        /\ phase' = "crashed"
    BY <1>14 DEF AlsaErrorAsCount
  <2>2. TargetInv'
    BY <1>0, <2>1, SameTarget DEF Starting
  <2> QED BY <2>1, <2>2, NothingMoves
<1> QED BY <1>1, <1>2, <1>3, <1>4, <1>5, <1>6, <1>7, <1>8, <1>9, <1>10, <1>11,
           <1>12, <1>13, <1>14 DEF Next

\* The invariant is what the property says of the parts.
LEMMA InvIsEnough == IInv => NothingElseLost
<1> SUFFICES ASSUME IInv
             PROVE  NothingElseLost
  OBVIOUS
<1> DEFINE M == MaxHour
           P == Parts
<1>1. M \in Nat /\ Hours = 0..M
  BY HourAssumption DEF Hours
<1> HIDE DEF M
<1>2. /\ DOMAIN P = 0..(M + 3)
      /\ \A p \in Hours : P[p] = files[p]
      /\ P[M + 1] = held /\ P[M + 2] = ring2 /\ P[M + 3] = ring1
  BY <1>1 DEF Parts, M
<1>3. \A p \in 0..(M + 3) : p \in Hours \/ p = M + 1 \/ p = M + 2 \/ p = M + 3
  BY <1>1
<1> HIDE DEF P
<1>4. /\ FilesInv /\ Audio(held) /\ Audio(ring2) /\ Audio(ring1)
      /\ Below(Written, ToSet(held)) /\ Below(Written, ToSet(ring2))
      /\ Below(Written, ToSet(ring1)) /\ Below(ToSet(held), ToSet(ring2))
      /\ Below(ToSet(held), ToSet(ring1)) /\ Below(ToSet(ring2), ToSet(ring1))
      /\ (Written \ {0}) \cup ToSet(held) \cup ToSet(ring2) \cup ToSet(ring1)
           = 1..captured \ lost
  BY DEF IInv, AudioInv, Order
<1>5. \A p \in 0..(M + 3) : Recorded(P[p])
  BY <1>2, <1>3, <1>4 DEF FilesInv, Audio
<1>6. \A h \in Hours : ToSet(files[h]) \subseteq Written
  BY DEF Written
<1>7. ASSUME NEW p \in 0..(M + 3), NEW q \in 0..(M + 3), p < q
      PROVE  Below(ToSet(P[p]), ToSet(P[q]))
  <2>1. CASE p \in Hours /\ q \in Hours
    BY <1>2, <1>4, <1>7, <2>1 DEF FilesInv
  <2>2. CASE p \in Hours /\ q \notin Hours
    <3>1. P[p] = files[p] /\ P[q] \in {held, ring2, ring1}
      BY <1>2, <1>3, <2>2
    <3>2. Below(Written, ToSet(P[q]))
      BY <1>4, <3>1
    <3> QED BY <1>6, <2>2, <3>1, <3>2 DEF Below
  <2>3. CASE p \notin Hours
    <3>1. \/ p = M + 1 /\ q \in {M + 2, M + 3}
          \/ p = M + 2 /\ q = M + 3
      BY <1>1, <1>7, <2>3
    <3> QED BY <1>2, <1>4, <3>1
  <2> QED BY <2>1, <2>2, <2>3
<1>8. ASSUME NEW p \in 0..(M + 3), NEW q \in 0..(M + 3),
             NEW i \in DOMAIN P[p], NEW j \in DOMAIN P[q],
             p < q \/ (p = q /\ i < j), P[q][j] # 0
      PROVE  P[p][i] < P[q][j]
  <2>1. CASE p = q
    <3>1. i < j /\ Orderly(P[q])
      BY <1>1, <1>5, <1>8, <2>1 DEF Recorded
    <3> QED BY <1>8, <2>1, <3>1 DEF Orderly
  <2>2. CASE p < q
    <3>1. /\ P[p][i] \in ToSet(P[p]) /\ P[q][j] \in ToSet(P[q])
          /\ P[p][i] \in Nat /\ P[q][j] \in Nat
      BY <1>5, SMTT(30) DEF ToSet, Recorded
    <3>2. P[p][i] # 0 => P[p][i] < P[q][j]
      BY <1>7, <1>8, <2>2, <3>1 DEF Below
    <3> QED BY <1>8, <3>1, <3>2
  <2> QED BY <1>8, <2>1, <2>2
<1>9. (UNION {ToSet(P[p]) : p \in 0..(M + 3)}) \ {0} = 1..captured \ lost
  <2>1. Hours \subseteq 0..(M + 3) /\ {M + 1, M + 2, M + 3} \subseteq 0..(M + 3)
    BY <1>1
  <2>2. UNION {ToSet(P[p]) : p \in 0..(M + 3)}
          = Written \cup ToSet(held) \cup ToSet(ring2) \cup ToSet(ring1)
    BY <1>2, <1>3, <2>1 DEF Written
  <2>3. 0 \notin ToSet(held) \cup ToSet(ring2) \cup ToSet(ring1)
    BY <1>4 DEF Audio
  <2> QED BY <1>4, <2>2, <2>3
<1> QED BY <1>2, <1>8, <1>9 DEF NothingElseLost, Prologue, P

(***************************************************************************)
(* Whatever turns the device, the rotation, the resampler, the encoder and *)
(* the disk take, and whatever the sizes of blocks, a unit of audio is     *)
(* lost only to an overrun, a block that a library refused, or a write     *)
(* that failed; all the others are, once each and in order, in the files   *)
(* of the hours, in the encoder and in the two ring buffers.               *)
(***************************************************************************)
THEOREM OnlyFailuresLoseAudio == Spec => []NothingElseLost
<1>1. Init => IInv
  BY InitInv
<1>2. IInv /\ [Next]_vars => IInv'
  BY StepInv
<1> QED BY <1>1, <1>2, InvIsEnough, PTL DEF Spec

-----------------------------------------------------------------------------
(* The status of the connection.                                           *)

\* Before the connector is started there is no file, and the status is off.
StatusInv == StatusTellsTheTruth /\ (Starting => handle = None /\ connected = FALSE)

(***************************************************************************)
(* While the program runs the status is on exactly when a file is open:    *)
(* also after hours whose file could not be opened.                        *)
(***************************************************************************)
THEOREM StatusIsTrue == Spec => []StatusTellsTheTruth
<1>1. Init => StatusInv
  BY DEF Init, ConnectorInit, StatusInv, StatusTellsTheTruth
<1>2. IInv /\ StatusInv /\ [Next]_vars => StatusInv'
  <2> SUFFICES ASSUME IInv, StatusInv, [Next]_vars
               PROVE  StatusInv'
    OBVIOUS
  <2> USE DEF StatusInv, StatusTellsTheTruth, Starting, serverVars, archiveVars
  <2>1. ASSUME NEW h \in Hours, Open(h)
        PROVE  connected' <=> handle' # None
    BY <2>1, HoursAre DEF Open
  <2>2. 0 \in Hours /\ 0 # None /\ hour \in Hours
    BY HoursAre DEF IInv, TargetInv
  <2>3. CASE StartServerConnection
    <3>1. phase = "connector" /\ handle = None /\ connected = FALSE
      BY <2>3 DEF StartServerConnection
    <3>2. phase' \in {"running", "failed"}
      BY <2>3 DEF StartServerConnection
    <3>3. phase' = "running" => (connected' <=> handle' # None)
      BY <2>1, <2>2, <2>3, <3>1
         DEF StartServerConnection, FileConnect, IceOutConnect, ArchiveConnect, RotateFile
    <3> QED BY <3>2, <3>3
  <2>4. CASE ArchiveRotates
    <3>1. phase' = phase /\ phase \in {"running", "stopping"}
      BY <2>4 DEF ArchiveRotates, InEventLoop
    <3>2. phase' = "running" => (connected' <=> handle' # None)
      BY <2>1, <2>2, <2>4, <3>1 DEF ArchiveRotates, RotateTimer, RotateFile
    <3> QED BY <3>1, <3>2
  <2>5. CASE StartAudioDevice
    BY <2>5 DEF StartAudioDevice, Started
  <2>6. CASE JackStarted
    BY <2>6 DEF JackStarted
  <2>7. CASE StartCodec
    BY <2>7 DEF StartCodec, Started
  <2>8. CASE DeviceDelivers \/ ClockTicks
    BY <2>8 DEF DeviceDelivers, ClockTicks
  <2>13. CASE DataTimer
    <3>1. UNCHANGED <<connected, handle>> /\ phase \in {"running", "stopping"} /\ Encode
      BY <2>13 DEF DataTimer, InEventLoop
    <3>2. phase' \in {phase, "failed"}
      BY <3>1, EncoderLivesOrFails
    <3> QED BY <3>1, <3>2
  <2>9. CASE JackCallbackEarly \/ AlsaErrorAsCount
    BY <2>9 DEF JackCallbackEarly, AlsaErrorAsCount
  <2>10. CASE FileEnds \/ SignalHandler
    BY <2>10 DEF FileEnds, SignalHandler, RequestExit
  <2>11. CASE ExitTimer \/ StopTimeout
    BY <2>11 DEF ExitTimer, StopTimeout
  <2>12. CASE UNCHANGED vars
    BY <2>12 DEF vars
  <2> QED BY <2>3, <2>4, <2>5, <2>6, <2>7, <2>8, <2>9, <2>10, <2>11, <2>12, <2>13
          DEF Next
<1>3. StatusInv => StatusTellsTheTruth
  BY DEF StatusInv
<1> QED BY <1>1, <1>2, <1>3, InitInv, StepInv, PTL DEF Spec

===============================================================================
