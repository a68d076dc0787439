-------------------------- MODULE HlsPublisher_proofs --------------------------
(***************************************************************************)
(* For any sizes of segments and writes and any number of segments,        *)
(* crashes and refused transfers: what the conveyor makes of the           *)
(* publishing point, and what its listeners find there.                    *)
(***************************************************************************)
EXTENDS HlsPublisher, TLAPS, SequenceTheorems, FiniteSetTheorems, WellFoundedInduction

-----------------------------------------------------------------------------
(* Numbers and sequences.                                                  *)

(* A set of natural numbers has a least element: of the intervals that end *)
(* in the set one is least by inclusion.                                   *)
LEMMA LeastElement ==
  ASSUME NEW S \in SUBSET Nat, S # {}
  PROVE  \E i \in S : \A j \in S : i <= j
<1> DEFINE T == {1..i : i \in S}
<1>1. T \subseteq FiniteSubsetsOf(Nat)
  <2> SUFFICES ASSUME NEW i \in S
               PROVE  1..i \in FiniteSubsetsOf(Nat)
    OBVIOUS
  <2>1. IsFiniteSet(1..i)
    BY FS_Interval
  <2> QED BY <2>1 DEF FiniteSubsetsOf
<1>2. T # {}
  OBVIOUS
<1> HIDE DEF T
<1>3. PICK x \in T : \A y \in T : ~(<<y, x>> \in StrictSubsetOrdering(Nat))
  BY <1>1, <1>2, FS_StrictSubsetOrderingWellFounded, WFMin
<1> USE DEF T
<1>4. PICK i \in S : x = 1..i
  OBVIOUS
<1>5. ASSUME NEW j \in S, ~(i <= j)
      PROVE  FALSE
  <2>1. <<1..j, 1..i>> \in StrictSubsetOrdering(Nat)
    BY <1>5 DEF StrictSubsetOrdering
  <2> QED BY <1>3, <1>4, <2>1
<1> QED BY <1>5

\* Ascending() has the members of its set: there is one with just i - 1 below
\* it, as the numbers below the members are all different.
LEMMA AscendingPicks ==
  ASSUME NEW S \in SUBSET Nat, IsFiniteSet(S), NEW i \in 1 .. Cardinality(S)
  PROVE  Ascending(S)[i] \in S
<1> DEFINE below(n) == {m \in S : m < n}
           c == Cardinality(S)
           rank == [n \in S |-> Cardinality(below(n))]
           R == {rank[n] : n \in S}
<1>1. c \in Nat /\ i \in 1 .. c
  BY FS_CardinalityType
<1>2. ASSUME NEW n \in S
      PROVE  /\ IsFiniteSet(below(n)) /\ rank[n] = Cardinality(below(n))
             /\ rank[n] \in 0 .. c - 1
  <2>1. IsFiniteSet(S \ {n}) /\ Cardinality(S \ {n}) = c - 1
    BY FS_RemoveElement
  <2>2. below(n) \in SUBSET (S \ {n})
    OBVIOUS
  <2>3. IsFiniteSet(below(n)) /\ Cardinality(below(n)) <= c - 1
    BY <2>1, <2>2, FS_Subset
  <2>4. Cardinality(below(n)) \in Nat
    BY <2>3, FS_CardinalityType
  <2> HIDE DEF below
  <2> QED BY <1>1, <2>3, <2>4
<1>3. ASSUME NEW n \in S, NEW k \in S, n < k
      PROVE  rank[n] < rank[k]
  <2>1. below(n) \in SUBSET (below(k) \ {n}) /\ n \in below(k)
    <3>1. n \in Nat /\ k \in Nat
      OBVIOUS
    <3>2. ASSUME NEW m \in S, m < n PROVE m < k /\ m # n
      <4>1. m \in Nat
        OBVIOUS
      <4> QED BY <1>3, <3>1, <3>2, <4>1
    <3> QED BY <1>3, <3>2
  <2>2. /\ IsFiniteSet(below(k) \ {n})
        /\ Cardinality(below(k) \ {n}) = Cardinality(below(k)) - 1
    BY <1>2, <2>1, FS_RemoveElement
  <2>3. Cardinality(below(n)) <= Cardinality(below(k)) - 1
    BY <2>1, <2>2, FS_Subset
  <2> HIDE DEF below, rank
  <2> QED BY <1>1, <1>2, <2>3
<1> HIDE DEF rank, below, c
<1>4. \A n \in S, k \in S : n # k => rank[n] # rank[k]
  BY <1>1, <1>2, <1>3
<1>5. rank \in Surjection(S, R) /\ rank \in Injection(S, R)
  <2>1. rank \in [S -> R]
    BY DEF rank
  <2>2. \A n \in S, k \in S : rank[n] = rank[k] => n = k
    BY <1>4
  <2>3. DOMAIN rank = S
    BY DEF rank
  <2> QED BY <2>1, <2>2, <2>3 DEF Surjection, Injection, IsInjective
<1>6. IsFiniteSet(R) /\ Cardinality(R) = c
  BY <1>5, FS_Surjection DEF c
<1>7. R \in SUBSET (0 .. c - 1)
  BY <1>2
<1>8. IsFiniteSet(0 .. c - 1) /\ Cardinality(0 .. c - 1) = c
  <2>1. c - 1 \in Int /\ IF 0 > c - 1 THEN c = 0 ELSE c - 1 - 0 + 1 = c
    BY <1>1
  <2> QED BY <2>1, FS_Interval
<1>9. R = 0 .. c - 1
  BY <1>6, <1>7, <1>8, FS_Subset
<1>10. i - 1 \in R
  <2>1. i - 1 \in 0 .. c - 1
    BY <1>1
  <2> HIDE DEF R
  <2> QED BY <1>9, <2>1
<1>11. \E n \in S : Cardinality({m \in S : m < n}) = i - 1
  BY <1>2, <1>10 DEF below
<1> QED BY <1>11 DEF Ascending

\* A name taken out of a list; the others stay.
LEMMA RemovedName ==
  ASSUME NEW S, NEW s \in Seq(S), NEW e
  PROVE  /\ RemoveFirst(s, e) \in Seq(S)
         /\ \A i \in DOMAIN s : s[i] # e =>
              \E j \in DOMAIN RemoveFirst(s, e) : RemoveFirst(s, e)[j] = s[i]
<1>0. Len(s) \in Nat /\ DOMAIN s = 1 .. Len(s)
  OBVIOUS
<1>1. CASE \E i \in 1 .. Len(s) : s[i] = e
  <2> DEFINE I == {i \in 1 .. Len(s) : s[i] = e}
             k == Min(I)
             s1 == SubSeq(s, 1, k - 1)
             s2 == SubSeq(s, k + 1, Len(s))
             t == s1 \o s2
  <2>1. RemoveFirst(s, e) = t
    BY <1>1 DEF RemoveFirst, RemoveAt, SelectInSeq
  <2>2. I \in SUBSET Nat /\ I # {}
    BY <1>1
  <2>3. k \in I
    BY <2>2, LeastElement DEF Min
  <2> HIDE DEF k
  <2>4. k \in 1 .. Len(s) /\ s[k] = e
    BY <2>3
  <2>5. /\ s1 \in Seq(S) /\ Len(s1) = k - 1
        /\ \A i \in 1 .. k - 1 : s1[i] = s[i]
    BY <1>0, <2>4, SubSeqProperties
  <2>6. /\ s2 \in Seq(S) /\ Len(s2) = Len(s) - k
        /\ \A i \in 1 .. Len(s) - k : s2[i] = s[k + i]
    <3>1. k + 1 \in 1 .. Len(s) + 1 /\ Len(s) \in (k + 1) - 1 .. Len(s)
      BY <1>0, <2>4
    <3>2. /\ s2 \in Seq(S)
          /\ Len(s2) = IF k + 1 <= Len(s) THEN Len(s) - (k + 1) + 1 ELSE 0
          /\ \A i \in 1 .. Len(s) - (k + 1) + 1 : s2[i] = s[(k + 1) + i - 1]
      BY <3>1, SubSeqProperties
    <3> HIDE DEF s2
    <3>3. k = Len(s) \/ k + 1 <= Len(s)
      <4>1. \A n \in Nat : \A j \in 1 .. n : j = n \/ j + 1 <= n
        OBVIOUS
      <4> QED BY <1>0, <2>4, <4>1
    <3>4. Len(s2) = Len(s) - k
      <4>1. CASE k = Len(s)
        <5>1. Len(s2) = 0
          BY <1>0, <3>2, <4>1
        <5> QED BY <1>0, <4>1, <5>1
      <4>2. CASE k + 1 <= Len(s)
        <5>1. Len(s2) = Len(s) - (k + 1) + 1
          BY <3>2, <4>2
        <5> QED BY <1>0, <2>4, <5>1
      <4> QED BY <3>3, <4>1, <4>2
    <3>5. ASSUME NEW i \in 1 .. Len(s) - k PROVE s2[i] = s[k + i]
      <4>1. i \in 1 .. Len(s) - (k + 1) + 1 /\ (k + 1) + i - 1 = k + i
        BY <1>0, <2>4
      <4> QED BY <3>2, <4>1
    <3> QED BY <3>2, <3>4, <3>5
  <2> HIDE DEF s1, s2
  <2>7. /\ t \in Seq(S) /\ Len(t) = Len(s1) + Len(s2)
        /\ \A i \in 1 .. Len(s1) + Len(s2) :
             t[i] = IF i <= Len(s1) THEN s1[i] ELSE s2[i - Len(s1)]
    BY <2>5, <2>6, ConcatProperties
  <2> HIDE DEF t
  <2>8. \A i \in 1 .. k - 1 : i \in DOMAIN t /\ t[i] = s[i]
    <3> SUFFICES ASSUME NEW i \in 1 .. k - 1 PROVE i \in DOMAIN t /\ t[i] = s[i]
      OBVIOUS
    <3>1. i \in 1 .. Len(s1) /\ i \in 1 .. Len(s1) + Len(s2)
      BY <1>0, <2>4, <2>5, <2>6
    <3>2. DOMAIN t = 1 .. Len(s1) + Len(s2) /\ i <= Len(s1)
      BY <2>7, <3>1
    <3> QED BY <2>5, <2>7, <3>1, <3>2
  <2>9. ASSUME NEW i \in k + 1 .. Len(s) PROVE i - 1 \in DOMAIN t /\ t[i - 1] = s[i]
    <3>1. /\ i - 1 \in 1 .. Len(s1) + Len(s2) /\ ~(i - 1 <= Len(s1))
          /\ i - 1 - Len(s1) = i - k /\ i - k \in 1 .. Len(s) - k
          /\ k + (i - k) = i
      BY <1>0, <2>4, <2>5, <2>6
    <3> QED BY <2>6, <2>7, <3>1
  <2>10. ASSUME NEW i \in DOMAIN s, s[i] # e
         PROVE  \E j \in DOMAIN t : t[j] = s[i]
    <3>1. i \in 1 .. k - 1 \/ i \in k + 1 .. Len(s)
      BY <1>0, <2>4, <2>10
    <3> QED BY <2>8, <2>9, <3>1
  <2> QED BY <2>1, <2>7, <2>10
<1>2. CASE ~ \E i \in 1 .. Len(s) : s[i] = e
  BY <1>2 DEF RemoveFirst
<1> QED BY <1>1, <1>2

-----------------------------------------------------------------------------
(* Types.                                                                  *)

\* The segments that have left the playlist are below its head, and once the
\* first has left, one leaves at every cut.
CountInv ==
  /\ \A n \in DOMAIN killtimes : n < seqHead
  /\ seqHead <= seqBack
  /\ seqHead > 0 => seqBack - seqHead >= MinSegments

\* The spool is the end of the log, and nothing behind its first entry has
\* been transferred.
SpoolInv ==
  /\ Len(spool) <= Len(log)
  /\ \A i \in DOMAIN spool : spool[i] = log[(Current - 1) + i]
  /\ \A i \in applied : i \in DOMAIN log /\ i <= Current /\ log[i].op # "STOP"

IsPut(e, n)    == e.op = "PUT" /\ e.name = n
IsDelete(e, n) == e.op = "DELETE" /\ e.name = n

\* What is at the publishing point was put there by the last transfer of its
\* name, and what was put there is there or was deleted since.
LastInv ==
  /\ \A n \in DOMAIN pub : \E i \in applied :
       /\ IsPut(log[i], n) /\ log[i].content = pub[n]
       /\ \A j \in applied : j > i => log[j].name # n
  /\ \A i \in applied : log[i].op = "PUT" =>
       \/ log[i].name \in DOMAIN pub
       \/ \E j \in applied : j > i /\ IsDelete(log[j], log[i].name)

\* Everything that was pushed and will be pushed by the running handler.
Entries == log \o toPush

\* While the stream runs: every segment was put, a playlist comes after the
\* segments it lists, and a segment is deleted after a playlist that, like
\* those that follow, begins two segments later.
StreamInv ==
  /\ spoolExists
  /\ \A i \in DOMAIN Entries : Entries[i].op # "STOP"
  /\ \A k \in 0 .. seqBack - 1 : \E i \in DOMAIN Entries : IsPut(Entries[i], k)
  /\ \A p \in DOMAIN Entries : IsPut(Entries[p], Playlist) =>
       \A k \in Entries[p].content :
         \E i \in DOMAIN Entries : i < p /\ IsPut(Entries[i], k)
  /\ \A j \in DOMAIN Entries : Entries[j].op = "DELETE" =>
       /\ Entries[j].name \in Nat /\ Entries[j].name + 2 <= seqHead
       /\ \E q \in DOMAIN Entries :
            /\ q < j /\ IsPut(Entries[q], Playlist)
            /\ \A p \in DOMAIN Entries : p >= q /\ IsPut(Entries[p], Playlist) =>
                 \A k \in Entries[p].content : k >= Entries[j].name + 2

\* What was put is remembered until a delete of it is pushed.
PuttedInv ==
  \A i \in DOMAIN log : log[i].op = "PUT" =>
    \/ \E x \in DOMAIN putted : putted[x] = log[i].name
    \/ \E j \in DOMAIN log : j > i /\ IsDelete(log[j], log[i].name)

\* s is the one STOP entry, and what was put before it is deleted before it.
IsStop(s) ==
  /\ s \in DOMAIN Entries /\ Entries[s].op = "STOP"
  /\ \A t \in DOMAIN Entries : Entries[t].op = "STOP" => t = s
  /\ ~NoDeletes => \A i \in DOMAIN Entries : i < s /\ Entries[i].op = "PUT" =>
       \E j \in DOMAIN Entries : i < j /\ j < s /\ IsDelete(Entries[j], Entries[i].name)

Ending == proc \in {"cleanup", "rmdir", "exiting", "exited"}

\* When glassconv has come to the STOP entry, all before it was treated and
\* nothing behind it.
EndInv ==
  /\ ~stopping => StreamInv /\ (~NoDeletes => PuttedInv) /\ ~Ending
  /\ stopping => \E s \in DOMAIN Entries :
       /\ IsStop(s)
       /\ Ending => s \in DOMAIN log /\ s <= Current /\ \A i \in applied : i < s
       /\ ~spoolExists => s \in DOMAIN log
  /\ coder = "stopped" => proc = "exited"

\* What a cut moves and what it finds to delete.
LEMMA CutFacts ==
  ASSUME TypeOK, CountInv, seqBack <= MaxSeq
  PROVE  /\ HeadAfterCut \in {seqHead, seqHead + 1} /\ HeadAfterCut \in 0 .. MaxSeq
         /\ DOMAIN KilltimesAfterCut = DOMAIN killtimes \cup (seqHead .. HeadAfterCut - 1)
         /\ \A n \in DOMAIN KilltimesAfterCut : n \in Nat /\ n < HeadAfterCut
         /\ Trash \subseteq DOMAIN killtimes
         /\ IsFiniteSet(Trash) /\ Cardinality(Trash) \in Nat
<1>1. /\ seqHead \in Nat /\ seqBack \in 0 .. MaxSeq /\ MaxSeq \in Nat
      /\ MinSegments \in Nat \ {0} /\ totalFrames \in Nat
      /\ DOMAIN killtimes \subseteq Nat
  BY HlsAssumption DEF TypeOK, Segment
<1>2. HeadAfterCut \in {seqHead, seqHead + 1} /\ HeadAfterCut \in 0 .. MaxSeq
  BY <1>1 DEF HeadAfterCut, TypeOK, Segment, CountInv
<1>3. DOMAIN KilltimesAfterCut = DOMAIN killtimes \cup (seqHead .. HeadAfterCut - 1)
  BY DEF KilltimesAfterCut
<1>4. \A n \in DOMAIN KilltimesAfterCut : n \in Nat /\ n < HeadAfterCut
  BY <1>1, <1>2, <1>3 DEF CountInv
<1>5. Trash \subseteq DOMAIN killtimes
  BY <1>1, <1>3 DEF Trash, KilltimesAfterCut
<1>6. IsFiniteSet(0 .. seqHead) /\ DOMAIN killtimes \in SUBSET (0 .. seqHead)
  BY <1>1, FS_Interval DEF CountInv
<1>7. Trash \in SUBSET (0 .. seqHead)
  BY <1>5, <1>6
<1> QED BY <1>2, <1>3, <1>4, <1>5, <1>6, <1>7, FS_Subset, FS_CardinalityType


\* The fields of an event.
LEMMA EventTyped ==
  ASSUME NEW op \in {"PUT", "DELETE", "STOP"}, NEW n \in Name, NEW c \in SUBSET Segment
  PROVE  /\ Event(op, n, c) \in EventType /\ Event(op, n, c).op = op
         /\ Event(op, n, c).name = n /\ Event(op, n, c).content = c
  BY DEF Event, EventType

\* What a cut pushes: the segment, the playlist, the segments to delete.
LEMMA CutEventsAre ==
  ASSUME TypeOK, CountInv, seqBack <= MaxSeq
  PROVE  /\ CutEvents \in Seq(EventType) /\ Len(CutEvents) = Cardinality(Trash) + 2
         /\ IsPut(CutEvents[1], seqBack)
         /\ IsPut(CutEvents[2], Playlist)
         /\ CutEvents[2].content = HeadAfterCut .. seqBack
         /\ \A i \in 3 .. Len(CutEvents) :
              CutEvents[i].op = "DELETE" /\ CutEvents[i].name \in Trash
<1>1. /\ seqBack \in Segment /\ Playlist \in Name /\ Segment \subseteq Name
      /\ {} \in SUBSET Segment /\ HeadAfterCut .. seqBack \in SUBSET Segment
      /\ Trash \in SUBSET Nat /\ IsFiniteSet(Trash) /\ Cardinality(Trash) \in Nat
      /\ Trash \subseteq Segment
  <2>1. seqBack \in Segment /\ DOMAIN killtimes \subseteq Segment /\ Segment \subseteq Nat
    BY HlsAssumption DEF TypeOK, Segment
  <2>2. HeadAfterCut .. seqBack \in SUBSET Segment
    BY <2>1, HlsAssumption, CutFacts DEF Segment
  <2> QED BY <2>1, <2>2, CutFacts DEF Name
<1> DEFINE a == Event("PUT", seqBack, {})
           b == Event("PUT", Playlist, HeadAfterCut .. seqBack)
           d == [i \in 1 .. Cardinality(Trash) |-> Event("DELETE", Ascending(Trash)[i], {})]
<1>2. a \in EventType /\ IsPut(a, seqBack)
  BY <1>1, EventTyped DEF IsPut
<1>3. b \in EventType /\ IsPut(b, Playlist) /\ b.content = HeadAfterCut .. seqBack
  <2> DEFINE c == HeadAfterCut .. seqBack
  <2>1. c \in SUBSET Segment /\ Playlist \in Name
    BY <1>1
  <2> HIDE DEF c
  <2>2. LET e == Event("PUT", Playlist, c) IN
          e \in EventType /\ IsPut(e, Playlist) /\ e.content = c
    BY <2>1, EventTyped DEF IsPut
  <2> QED BY <2>2 DEF c
<1>4. \A i \in 1 .. Cardinality(Trash) :
        d[i] \in EventType /\ d[i].op = "DELETE" /\ d[i].name \in Trash
  <2> SUFFICES ASSUME NEW i \in 1 .. Cardinality(Trash)
               PROVE  d[i] \in EventType /\ d[i].op = "DELETE" /\ d[i].name \in Trash
    OBVIOUS
  <2>1. Ascending(Trash)[i] \in Trash
    BY <1>1, AscendingPicks
  <2> DEFINE n == Ascending(Trash)[i]
  <2>2. n \in Name /\ {} \in SUBSET Segment
    BY <1>1, <2>1
  <2>3. d[i] = Event("DELETE", n, {})
    OBVIOUS
  <2> HIDE DEF n, d
  <2>4. d[i] \in EventType /\ d[i].op = "DELETE" /\ d[i].name = n
    BY <2>2, <2>3, EventTyped
  <2> QED BY <2>1, <2>4 DEF n
<1>5. CutEvents = <<a, b>> \o d
  BY DEF CutEvents, CutOrder
<1> HIDE DEF a, b
<1>6. d \in Seq(EventType) /\ Len(d) = Cardinality(Trash)
  <2>1. d \in [1 .. Cardinality(Trash) -> EventType]
    BY <1>4
  <2> QED BY <1>1, <2>1, SeqDef
<1> HIDE DEF d
<1>7. <<a, b>> \in Seq(EventType) /\ Len(<<a, b>>) = 2
  BY <1>2, <1>3
<1>8. /\ CutEvents \in Seq(EventType) /\ Len(CutEvents) = 2 + Len(d)
      /\ \A i \in 1 .. 2 + Len(d) :
           CutEvents[i] = IF i <= 2 THEN <<a, b>>[i] ELSE d[i - 2]
  BY <1>5, <1>6, <1>7, ConcatProperties
<1>9. CutEvents[1] = a /\ CutEvents[2] = b
  BY <1>1, <1>6, <1>8
<1>10. ASSUME NEW i \in 3 .. Len(CutEvents)
       PROVE  CutEvents[i].op = "DELETE" /\ CutEvents[i].name \in Trash
  <2>1. i \in 1 .. 2 + Len(d) /\ ~(i <= 2) /\ i - 2 \in 1 .. Cardinality(Trash)
    BY <1>1, <1>6, <1>8
  <2> QED BY <1>4, <1>8, <2>1
<1> QED BY <1>1, <1>2, <1>3, <1>6, <1>8, <1>9, <1>10

\* What stop() pushes: a delete for every file that is remembered, then STOP.
LEMMA StopEventsAre ==
  ASSUME TypeOK
  PROVE  /\ StopEvents \in Seq(EventType) /\ Len(StopEvents) = Len(putted) + 1
         /\ Len(putted) \in Nat
         /\ \A i \in DOMAIN putted : IsDelete(StopEvents[i], putted[i])
         /\ StopEvents[Len(putted) + 1].op = "STOP"
<1>1. putted \in Seq(Name) /\ Len(putted) \in Nat /\ DOMAIN putted = 1 .. Len(putted)
      /\ Playlist \in Name
  BY DEF TypeOK, Name
<1>2. /\ \A i \in DOMAIN putted : FinalDeletes[i] \in EventType /\ IsDelete(FinalDeletes[i], putted[i])
      /\ Event("STOP", Playlist, {}) \in EventType /\ Event("STOP", Playlist, {}).op = "STOP"
  BY <1>1, EventTyped DEF FinalDeletes, IsDelete
<1>3. FinalDeletes \in Seq(EventType) /\ Len(FinalDeletes) = Len(putted)
  <2>1. FinalDeletes \in [1 .. Len(putted) -> EventType]
    BY <1>1, <1>2 DEF FinalDeletes
  <2> QED BY <1>1, <2>1, SeqDef
<1> DEFINE z == <<Event("STOP", Playlist, {})>>
<1>4. z \in Seq(EventType) /\ Len(z) = 1 /\ z[1].op = "STOP"
  BY <1>2
<1>5. StopEvents = FinalDeletes \o z
  BY DEF StopEvents
<1> HIDE DEF z
<1>6. /\ StopEvents \in Seq(EventType) /\ Len(StopEvents) = Len(putted) + 1
      /\ \A i \in 1 .. Len(putted) + 1 :
           StopEvents[i] = IF i <= Len(putted) THEN FinalDeletes[i] ELSE z[i - Len(putted)]
  BY <1>3, <1>4, <1>5, ConcatProperties
<1>7. StopEvents[Len(putted) + 1] = z[1]
  BY <1>1, <1>6
<1>8. \A i \in 1 .. Len(putted) : StopEvents[i] = FinalDeletes[i]
  BY <1>1, <1>6
<1> QED BY <1>1, <1>2, <1>4, <1>6, <1>7, <1>8


\* A cut moves head and back together once the first segment has left.
LEMMA CutKeepsTypes ==
  ASSUME TypeOK, CountInv, NEW frames \in WriteSizes, WriteData(frames)
  PROVE  TypeOK' /\ CountInv'
<1>1. /\ frames \in Nat /\ mediaFrames' \in Nat /\ totalFrames' \in Nat
      /\ UNCHANGED <<conveyorVars, stopping>>
  BY HlsAssumption DEF WriteData, TypeOK
<1>2. CASE ~IsCut(frames)
  BY <1>1, <1>2 DEF WriteData, TypeOK, CountInv, conveyorVars
<1>3. CASE IsCut(frames)
  <2>1. seqBack <= MaxSeq /\ RotateMediaFile
    BY <1>3 DEF WriteData
  <2>2. /\ seqHead' = HeadAfterCut /\ seqBack' = seqBack + 1 /\ toPush' = CutEvents
        /\ DOMAIN killtimes' = DOMAIN KilltimesAfterCut \ Trash
        /\ DOMAIN durations' \subseteq DOMAIN durations \cup {seqBack}
    BY <2>1 DEF RotateMediaFile
  <2>3. /\ seqHead \in Nat /\ seqBack \in 0 .. MaxSeq /\ MaxSeq \in Nat
        /\ MinSegments \in Nat \ {0}
    BY <2>1, HlsAssumption DEF TypeOK, Segment
  <2>4. seqHead' \in Segment /\ seqBack' \in Segment /\ seqBack \in Segment
    BY <2>1, <2>2, <2>3, CutFacts DEF Segment
  <2>5. CutEvents \in Seq(EventType)
    BY <2>1, CutEventsAre
  <2>6. \A n \in DOMAIN KilltimesAfterCut : n \in Segment /\ n < HeadAfterCut
    <3>1. \A n \in DOMAIN KilltimesAfterCut : n \in Nat /\ n < HeadAfterCut
      BY <2>1, CutFacts
    <3> QED BY <2>2, <2>3, <2>4, <3>1 DEF Segment
  <2>7. TypeOK'
    BY <1>1, <2>2, <2>4, <2>5, <2>6 DEF TypeOK, conveyorVars
  <2>8. CountInv'
    <3>1. HeadAfterCut <= seqBack + 1
          /\ (HeadAfterCut > 0 => (seqBack + 1) - HeadAfterCut >= MinSegments)
      BY <2>3 DEF HeadAfterCut, CountInv
    <3>2. \A n \in DOMAIN killtimes' : n < seqHead'
      BY <2>2, <2>6
    <3>3. seqHead' <= seqBack' /\ (seqHead' > 0 => seqBack' - seqHead' >= MinSegments)
      BY <2>2, <3>1
    <3> QED BY <3>2, <3>3 DEF CountInv
  <2> QED BY <2>7, <2>8
<1> QED BY <1>2, <1>3

\* What a push makes of the queue.
LEMMA PushFacts ==
  ASSUME TypeOK, PushNext
  PROVE  /\ Head(toPush) \in EventType /\ toPush # <<>>
         /\ toPush' = Tail(toPush) /\ toPush' \in Seq(EventType)
         /\ \/ /\ spoolExists /\ spool' = Append(spool, Head(toPush))
               /\ log' = Append(log, Head(toPush)) /\ putted' = PuttedAfter(Head(toPush))
            \/ ~spoolExists /\ UNCHANGED <<spool, log, putted>>
         /\ UNCHANGED <<spoolExists, proc, left, pub, coder, crashes, faults, applied,
                        hlsVars, stopping>>
  BY HeadTailProperties DEF TypeOK, PushNext, Push, SpoolAfter

\* A push of the running handler keeps the types.
LEMMA PushKeepsTypes ==
  ASSUME TypeOK, CountInv, PushNext
  PROVE  TypeOK' /\ CountInv'
<1> DEFINE e == Head(toPush)
<1>1. e \in EventType /\ e.name \in Name
  BY PushFacts DEF EventType
<1>2. PuttedAfter(e) \in Seq(Name)
  <2>1. putted \in Seq(Name)
    BY DEF TypeOK
  <2>2. RemoveFirst(putted, e.name) \in Seq(Name)
    BY <2>1, RemovedName
  <2> QED BY <1>1, <2>1, <2>2 DEF PuttedAfter
<1>3. /\ spool' \in Seq(EventType) /\ log' \in Seq(EventType) /\ putted' \in Seq(Name)
      /\ toPush' \in Seq(EventType)
      /\ Len(spool) \in Nat /\ Len(spool') \in {Len(spool), Len(spool) + 1}
  <2>1. spool \in Seq(EventType) /\ log \in Seq(EventType) /\ putted \in Seq(Name)
    BY DEF TypeOK
  <2>2. toPush' \in Seq(EventType)
    BY PushFacts
  <2>3. CASE UNCHANGED <<spool, log, putted>>
    BY <2>1, <2>2, <2>3
  <2>4. CASE spool' = Append(spool, e) /\ log' = Append(log, e) /\ putted' = PuttedAfter(e)
    <3> HIDE DEF e
    <3>1. /\ spool' \in Seq(EventType) /\ log' \in Seq(EventType)
          /\ Len(spool) \in Nat /\ Len(spool') = Len(spool) + 1
      BY <1>1, <2>1, <2>4, AppendProperties
    <3> QED BY <1>2, <2>2, <2>4, <3>1
  <2> QED BY <2>3, <2>4, PushFacts
<1>4. left' \in 0 .. Len(spool')
  <2>1. left' = left /\ left \in 0 .. Len(spool)
    BY PushFacts DEF TypeOK
  <2> QED BY <1>3, <2>1
<1>5. TypeOK'
  BY <1>3, <1>4, PushFacts DEF TypeOK, hlsVars
<1>6. CountInv'
  BY PushFacts DEF CountInv, hlsVars
<1> QED BY <1>5, <1>6

\* A transfer keeps the publishing point in its type.
LEMMA EffectTyped ==
  ASSUME NEW e \in EventType, NEW P, DOMAIN P \subseteq Name,
         \A n \in DOMAIN P : P[n] \subseteq Segment
  PROVE  /\ DOMAIN Effect(P, e) \subseteq Name
         /\ \A n \in DOMAIN Effect(P, e) : Effect(P, e)[n] \subseteq Segment
<1>1. e.op \in {"PUT", "DELETE", "STOP"} /\ e.name \in Name /\ e.content \subseteq Segment
  BY DEF EventType
<1>2. CASE e.op = "PUT"
  BY <1>1, <1>2 DEF Effect
<1>3. CASE e.op = "DELETE"
  BY <1>1, <1>3 DEF Effect, Without
<1>4. CASE e.op = "STOP"
  BY <1>4 DEF Effect
<1> QED BY <1>1, <1>2, <1>3, <1>4

\* What a step of the conveyor leaves alone keeps its type.
LEMMA ConveyorTypes ==
  ASSUME TypeOK, UNCHANGED <<hlsVars, toPush, stopping, putted, log, crashes>>,
         spool' \in Seq(EventType), left' \in 0 .. Len(spool'), proc' \in ProcStates,
         proc' \in {"transfer", "unlink"} => left' > 0,
         spoolExists' \in BOOLEAN, coder' \in {"running", "stopped", "failed"},
         DOMAIN pub' \subseteq Name, \A n \in DOMAIN pub' : pub'[n] \subseteq Segment,
         faults' \in 0 .. MaxFaults
  PROVE  TypeOK'
<1>1. seqHead' = seqHead /\ seqBack' = seqBack /\ killtimes' = killtimes
      /\ durations' = durations /\ mediaFrames' = mediaFrames /\ totalFrames' = totalFrames
  BY DEF hlsVars
<1> QED BY <1>1 DEF TypeOK

\* The steps of the conveyor keep the types.
LEMMA ConveyorKeepsTypes ==
  ASSUME TypeOK, CountInv, ConveyorStep
  PROVE  TypeOK' /\ CountInv'
<1>0. CountInv'
  BY DEF ConveyorStep, CountInv, hlsVars
<1>1. UNCHANGED <<hlsVars, toPush, stopping>>
  BY DEF ConveyorStep
<1>2. /\ spool \in Seq(EventType) /\ Len(spool) \in Nat /\ left \in 0 .. Len(spool)
      /\ proc \in ProcStates
      /\ spool # <<>> => /\ Head(spool) \in EventType /\ Tail(spool) \in Seq(EventType)
                         /\ Len(Tail(spool)) = Len(spool) - 1
  BY HeadTailProperties DEF TypeOK
<1>3. left > 0 => spool # <<>>
  BY <1>2
<1>4. /\ spoolExists \in BOOLEAN /\ coder \in {"running", "stopped", "failed"}
      /\ DOMAIN pub \subseteq Name /\ \A n \in DOMAIN pub : pub[n] \subseteq Segment
      /\ faults \in 0 .. MaxFaults
      /\ proc \in {"transfer", "unlink"} => left > 0
  BY DEF TypeOK
<1>5. CASE StartConveyorProcess \/ ProcessFinished \/ CleanExit
  <2>1. /\ UNCHANGED <<spool, left, spoolExists, pub, faults, putted, log, crashes>>
        /\ coder' \in {"running", "stopped", "failed"}
        /\ proc' = proc \/ proc' \in {"booting", "waiting", "exited"}
    BY <1>4, <1>5 DEF StartConveyorProcess, ProcessFinished, CleanExit
  <2>2. proc' \in ProcStates /\ (proc' \in {"transfer", "unlink"} => left' > 0)
    BY <1>2, <1>4, <2>1 DEF ProcStates
  <2> QED BY <1>0, <1>1, <1>2, <1>4, <2>1, <2>2, ConveyorTypes
<1>6. CASE Boot \/ RemoveDir
  <2>1. /\ UNCHANGED <<spool, left, coder, faults, putted, log, crashes>>
        /\ spoolExists' \in BOOLEAN /\ proc' \in {"idle", "exiting"}
        /\ DOMAIN pub' \subseteq DOMAIN pub /\ \A n \in DOMAIN pub' : pub'[n] = pub[n]
    BY <1>4, <1>6 DEF Boot, RemoveDir
  <2>2. proc' \in ProcStates /\ proc' \notin {"transfer", "unlink"}
    BY <2>1 DEF ProcStates
  <2> QED BY <1>0, <1>1, <1>2, <1>4, <2>1, <2>2, ConveyorTypes
<1>7. CASE Scan \/ StopEntry
  <2>1. /\ left' = Len(spool) /\ proc' \in ProcStates
        /\ proc' \in {"transfer", "unlink"} => left' > 0
        /\ UNCHANGED <<spool, spoolExists, putted, pub, coder, crashes, faults, log>>
    BY <1>2, <1>7 DEF Scan, StopEntry, NextEntry, ProcStates
  <2> QED BY <1>0, <1>1, <1>2, <1>4, <2>1, ConveyorTypes
<1>8. CASE Transfer
  <2>1. /\ left > 0 /\ proc' = "unlink" /\ faults' \in 0 .. MaxFaults
        /\ UNCHANGED <<spool, spoolExists, putted, left, coder, crashes, log>>
        /\ pub' \in {pub, Effect(pub, Head(spool))}
    BY <1>4, <1>8, ConveyorAssumption DEF Transfer
  <2>2. /\ DOMAIN pub' \subseteq Name /\ \A n \in DOMAIN pub' : pub'[n] \subseteq Segment
    BY <1>2, <1>3, <1>4, <2>1, EffectTyped
  <2>3. proc' \in ProcStates
    BY <2>1 DEF ProcStates
  <2> QED BY <1>0, <1>1, <1>2, <1>4, <2>1, <2>2, <2>3, ConveyorTypes
<1>9. CASE Unlink \/ CleanupFile
  <2>1. /\ spool' \in Seq(EventType) /\ left' \in 0 .. Len(spool') /\ proc' \in ProcStates
        /\ proc' \in {"transfer", "unlink"} => left' > 0
    <3>1. CASE UNCHANGED <<spool, left>> /\ proc' = "rmdir"
      BY <1>2, <3>1 DEF ProcStates
    <3>2. CASE /\ left > 0 /\ spool' = Tail(spool) /\ left' = left - 1
               /\ proc' \in {proc, NextEntry(left - 1)} /\ proc' \notin {"unlink"}
               /\ proc' = "transfer" => left - 1 > 0
      BY <1>2, <1>3, <3>2 DEF NextEntry, ProcStates
    <3>3. Unlink => left > 0
      BY <1>4 DEF Unlink
    <3>4. CleanupFile => left = 0 \/ left > 0
      BY <1>2
    <3> QED BY <1>2, <1>9, <3>1, <3>2, <3>3, <3>4 DEF Unlink, CleanupFile, NextEntry
  <2>2. UNCHANGED <<spoolExists, putted, pub, coder, crashes, faults, log>>
    BY <1>9 DEF Unlink, CleanupFile
  <2> QED BY <1>0, <1>1, <1>4, <2>1, <2>2, ConveyorTypes
<1> QED BY <1>5, <1>6, <1>7, <1>8, <1>9 DEF ConveyorStep, Conveyor

\* Every step keeps the types.
LEMMA TypesNext ==
  ASSUME TypeOK, CountInv, [Next]_vars
  PROVE  TypeOK' /\ CountInv'
<1>1. CASE Stop
  <2>1. toPush' \in Seq(EventType)
    BY <1>1, StopEventsAre DEF Stop
  <2> QED BY <1>1, <2>1 DEF Stop, TypeOK, CountInv, conveyorVars, hlsVars
<1>2. CASE ConveyorCrash
  <2>1. Len(spool) \in Nat /\ crashes' \in 0 .. MaxCrashes
    BY <1>2, ConveyorAssumption DEF ConveyorCrash, Crash, TypeOK
  <2> QED BY <1>2, <2>1 DEF ConveyorCrash, Crash, TypeOK, CountInv, hlsVars, ProcStates
<1>3. CASE UNCHANGED vars
  BY <1>3 DEF vars, conveyorVars, hlsVars, TypeOK, CountInv
<1> QED BY <1>1, <1>2, <1>3, CutKeepsTypes, PushKeepsTypes, ConveyorKeepsTypes DEF Next

\* The types at the start.
LEMMA InitTypes ==
  ASSUME Init
  PROVE  TypeOK /\ CountInv
<1>1. /\ spool = <<>> /\ log = <<>> /\ toPush = <<>> /\ putted = <<>>
      /\ left = 0 /\ proc = "waiting" /\ coder = "running"
      /\ crashes = 0 /\ faults = 0 /\ seqHead = 0 /\ seqBack = 0
      /\ spoolExists = TRUE /\ stopping = FALSE
      /\ mediaFrames = 0 /\ totalFrames = SegFrames
      /\ DOMAIN pub = {} /\ DOMAIN killtimes = {} /\ DOMAIN durations = {}
  BY DEF Init, ConveyorInit
<1>2. 0 \in Segment /\ 0 \in 0 .. MaxCrashes /\ 0 \in 0 .. MaxFaults /\ SegFrames \in Nat
  BY HlsAssumption, ConveyorAssumption DEF Segment
<1>3. Len(spool) = 0 /\ 0 \in 0 .. 0 /\ proc \in ProcStates /\ proc \notin {"transfer", "unlink"}
  BY <1>1 DEF ProcStates
<1>4. /\ spool \in Seq(EventType) /\ log \in Seq(EventType)
      /\ toPush \in Seq(EventType) /\ putted \in Seq(Name)
  BY <1>1
<1>5. TypeOK
  BY <1>1, <1>2, <1>3, <1>4 DEF TypeOK
<1>6. CountInv
  BY <1>1 DEF CountInv
<1> QED BY <1>5, <1>6

(***************************************************************************)
(* Every variable of the output and of its conveyor keeps its type.        *)
(***************************************************************************)
THEOREM TypeCorrect == Spec => [](TypeOK /\ CountInv)
<1>1. Init => TypeOK /\ CountInv
  BY InitTypes
<1>2. TypeOK /\ CountInv /\ [Next]_vars => TypeOK' /\ CountInv'
  BY TypesNext
<1> QED BY <1>1, <1>2, PTL DEF Spec

-----------------------------------------------------------------------------
(* The queue and the publishing point.                                     *)

\* The entry that is being treated is the first of the spool.
LEMMA CurrentEntry ==
  ASSUME TypeOK, SpoolInv
  PROVE  /\ Len(log) \in Nat /\ DOMAIN log = 1 .. Len(log)
         /\ Len(spool) \in Nat /\ DOMAIN spool = 1 .. Len(spool)
         /\ Current \in 1 .. Len(log) + 1
         /\ spool # <<>> => /\ Current \in DOMAIN log /\ Head(spool) = log[Current]
                            /\ Head(spool) \in EventType
<1>1. /\ Len(log) \in Nat /\ DOMAIN log = 1 .. Len(log)
      /\ Len(spool) \in Nat /\ DOMAIN spool = 1 .. Len(spool)
      /\ spool \in Seq(EventType) /\ Len(spool) <= Len(log)
  BY DEF TypeOK, SpoolInv
<1>2. Current \in 1 .. Len(log) + 1
  BY <1>1 DEF Current
<1>3. ASSUME spool # <<>>
      PROVE  /\ Current \in DOMAIN log /\ Head(spool) = log[Current]
             /\ Head(spool) \in EventType
  <2>1. Head(spool) = spool[1] /\ Head(spool) \in EventType /\ Len(spool) > 0
        /\ 1 \in DOMAIN spool
    BY <1>1, <1>3, EmptySeq
  <2>2. Current \in 1 .. Len(log) /\ (Current - 1) + 1 = Current
    BY <1>1, <2>1 DEF Current
  <2> QED BY <1>1, <2>1, <2>2 DEF SpoolInv
<1> QED BY <1>1, <1>2, <1>3

\* What the steps do to the queue and to the publishing point.
SameQueue  == UNCHANGED <<log, spool, applied, pub>>
Pushed(e)  == /\ log' = Append(log, e) /\ spool' = Append(spool, e)
              /\ UNCHANGED <<applied, pub>>
Done       == /\ spool # <<>> /\ Head(spool).op # "STOP"
              /\ pub' = Effect(pub, Head(spool)) /\ applied' = applied \cup {Current}
              /\ UNCHANGED <<log, spool>>
Popped     == spool # <<>> /\ spool' = Tail(spool) /\ UNCHANGED <<log, applied, pub>>

\* Every step does one of these four things to them.
LEMMA QueueSteps ==
  ASSUME ~Preclean, TypeOK, [Next]_vars
  PROVE  SameQueue \/ (\E e \in EventType : Pushed(e)) \/ Done \/ Popped
<1>0. /\ proc \in {"transfer", "unlink"} => left > 0
      /\ spool \in Seq(EventType) /\ left \in 0 .. Len(spool)
  BY DEF TypeOK
<1>1. left > 0 => spool # <<>>
  BY <1>0
<1>2. CASE PushNext
  BY <1>2, PushFacts DEF SameQueue, Pushed
<1>3. CASE Stop \/ ConveyorCrash \/ (\E frames \in WriteSizes : WriteData(frames))
           \/ UNCHANGED vars
  BY <1>3 DEF Stop, ConveyorCrash, Crash, WriteData, vars, conveyorVars, SameQueue
<1>4. CASE StartConveyorProcess \/ ProcessFinished \/ Boot \/ Scan \/ StopEntry
           \/ RemoveDir \/ CleanExit
  BY <1>4 DEF StartConveyorProcess, ProcessFinished, Boot, Scan, StopEntry, RemoveDir,
              CleanExit, SameQueue
<1>5. CASE Transfer
  BY <1>0, <1>1, <1>5 DEF Transfer, Done, SameQueue
<1>6. CASE Unlink \/ CleanupFile
  <2>1. left = 0 \/ left > 0
    BY <1>0
  <2> QED BY <1>0, <1>1, <1>6, <2>1 DEF Unlink, CleanupFile, Popped, SameQueue
<1> QED BY <1>2, <1>3, <1>4, <1>5, <1>6 DEF Next, ConveyorStep, Conveyor

\* How the position of the entry that is treated moves.
LEMMA CurrentMoves ==
  ASSUME TypeOK, SpoolInv
  PROVE  /\ SameQueue \/ Done => Current' = Current
         /\ \A e \in EventType : Pushed(e) =>
              /\ Current' = Current /\ Len(log') = Len(log) + 1
              /\ DOMAIN log' = DOMAIN log \cup {Len(log) + 1}
              /\ \A i \in DOMAIN log : log'[i] = log[i]
              /\ log'[Len(log) + 1] = e
         /\ Popped => Current' = Current + 1
<1>1. /\ Len(log) \in Nat /\ DOMAIN log = 1 .. Len(log) /\ log \in Seq(EventType)
      /\ Len(spool) \in Nat /\ spool \in Seq(EventType)
  BY DEF TypeOK
<1>2. SameQueue \/ Done => Current' = Current
  BY DEF SameQueue, Done, Current
<1>3. ASSUME NEW e \in EventType, Pushed(e)
      PROVE  /\ Current' = Current /\ Len(log') = Len(log) + 1
             /\ DOMAIN log' = DOMAIN log \cup {Len(log) + 1}
             /\ \A i \in DOMAIN log : log'[i] = log[i]
             /\ log'[Len(log) + 1] = e
  <2>1. /\ Len(log') = Len(log) + 1 /\ Len(spool') = Len(spool) + 1
        /\ log' \in Seq(EventType)
        /\ \A i \in 1 .. Len(log) : log'[i] = log[i]
        /\ log'[Len(log) + 1] = e
    BY <1>1, <1>3, AppendProperties DEF Pushed
  <2>2. Current' = Current
    BY <1>1, <2>1 DEF Current
  <2>3. DOMAIN log' = 1 .. Len(log) + 1
    BY <1>1, <2>1
  <2> QED BY <1>1, <2>1, <2>2, <2>3
<1>4. ASSUME Popped PROVE Current' = Current + 1
  <2>1. Len(spool') = Len(spool) - 1 /\ log' = log
    BY <1>1, <1>4, HeadTailProperties DEF Popped
  <2> QED BY <1>1, <2>1 DEF Current
<1> QED BY <1>2, <1>3, <1>4

\* The spool stays the end of the log.
LEMMA SpoolNext ==
  ASSUME ~Preclean, TypeOK, SpoolInv, [Next]_vars
  PROVE  SpoolInv'
<1>1. /\ Len(log) \in Nat /\ DOMAIN log = 1 .. Len(log)
      /\ Len(spool) \in Nat /\ DOMAIN spool = 1 .. Len(spool)
      /\ spool \in Seq(EventType) /\ Len(spool) <= Len(log)
      /\ Current \in 1 .. Len(log) + 1
  BY CurrentEntry DEF SpoolInv, TypeOK
<1>2. CASE SameQueue
  BY <1>2 DEF SameQueue, SpoolInv, Current
<1>3. ASSUME NEW e \in EventType, Pushed(e) PROVE SpoolInv'
  <2>1. /\ Len(spool') = Len(spool) + 1 /\ DOMAIN spool' = 1 .. Len(spool) + 1
        /\ \A i \in 1 .. Len(spool) : spool'[i] = spool[i]
        /\ spool'[Len(spool) + 1] = e /\ applied' = applied
    <3>1. /\ Len(spool') = Len(spool) + 1 /\ spool' \in Seq(EventType)
          /\ \A i \in 1 .. Len(spool) : spool'[i] = spool[i]
          /\ spool'[Len(spool) + 1] = e /\ applied' = applied
      BY <1>1, <1>3, AppendProperties DEF Pushed
    <3> QED BY <1>1, <3>1
  <2>2. /\ Current' = Current /\ Len(log') = Len(log) + 1
        /\ DOMAIN log' = DOMAIN log \cup {Len(log) + 1}
        /\ \A i \in DOMAIN log : log'[i] = log[i]
        /\ log'[Len(log) + 1] = e
    BY <1>3, CurrentMoves
  <2>3. ASSUME NEW i \in 1 .. Len(spool) + 1
        PROVE  spool'[i] = log'[(Current - 1) + i]
    <3>1. CASE i \in 1 .. Len(spool)
      <4>1. (Current - 1) + i \in DOMAIN log
        BY <1>1, <3>1 DEF Current
      <4> QED BY <1>1, <2>1, <2>2, <3>1, <4>1 DEF SpoolInv
    <3>2. CASE i = Len(spool) + 1
      <4>1. (Current - 1) + i = Len(log) + 1
        BY <1>1, <3>2 DEF Current
      <4> QED BY <2>1, <2>2, <3>2, <4>1
    <3> QED BY <1>1, <3>1, <3>2
  <2>4. \A i \in applied' : i \in DOMAIN log' /\ i <= Current' /\ log'[i].op # "STOP"
    BY <2>1, <2>2 DEF SpoolInv
  <2>5. \A i \in DOMAIN spool' : spool'[i] = log'[(Current' - 1) + i]
    BY <2>1, <2>2, <2>3
  <2>6. Len(spool') <= Len(log')
    BY <1>1, <2>1, <2>2
  <2> QED BY <2>4, <2>5, <2>6 DEF SpoolInv
<1>4. CASE Done
  <2>1. /\ Current' = Current /\ Current \in DOMAIN log /\ log[Current].op # "STOP"
        /\ UNCHANGED <<log, spool>> /\ applied' = applied \cup {Current}
    BY <1>4, CurrentEntry, CurrentMoves DEF Done
  <2> QED BY <1>1, <2>1 DEF SpoolInv
<1>5. CASE Popped
  <2>1. /\ Current' = Current + 1 /\ UNCHANGED <<log, applied>>
        /\ Len(spool') = Len(spool) - 1 /\ DOMAIN spool' = 1 .. Len(spool) - 1
        /\ \A i \in 1 .. Len(spool) - 1 : spool'[i] = spool[i + 1]
        /\ Len(spool) > 0
    <3>1. /\ spool # <<>> /\ spool' = Tail(spool)
          /\ Len(spool') = Len(spool) - 1 /\ spool' \in Seq(EventType)
          /\ \A i \in 1 .. Len(spool) - 1 : spool'[i] = spool[i + 1]
          /\ UNCHANGED <<log, applied>>
      BY <1>1, <1>5, HeadTailProperties DEF Popped
    <3>2. DOMAIN spool' = 1 .. Len(spool) - 1 /\ Len(spool) > 0
      BY <1>1, <3>1, EmptySeq
    <3> QED BY <1>5, <3>1, <3>2, CurrentMoves
  <2>2. ASSUME NEW i \in 1 .. Len(spool) - 1
        PROVE  spool'[i] = log[(Current' - 1) + i]
    <3>1. i + 1 \in DOMAIN spool /\ (Current - 1) + (i + 1) = (Current' - 1) + i
      BY <1>1, <2>1
    <3> QED BY <2>1, <3>1 DEF SpoolInv
  <2>3. \A i \in applied : i \in DOMAIN log /\ i <= Current' /\ log[i].op # "STOP"
    BY <1>1, <2>1 DEF SpoolInv
  <2> QED BY <1>1, <2>1, <2>2, <2>3 DEF SpoolInv
<1> QED BY <1>2, <1>3, <1>4, <1>5, QueueSteps

\* A transfer makes its name the last one transferred.
LEMMA LastNext ==
  ASSUME ~Preclean, TypeOK, SpoolInv, LastInv, [Next]_vars
  PROVE  LastInv'
<1>1. CASE SameQueue
  BY <1>1 DEF SameQueue, LastInv
<1>2. CASE Popped
  BY <1>2 DEF Popped, LastInv
<1>3. ASSUME NEW e \in EventType, Pushed(e) PROVE LastInv'
  <2>1. /\ \A i \in DOMAIN log : log'[i] = log[i]
        /\ applied' = applied /\ pub' = pub
    BY <1>3, CurrentMoves DEF Pushed
  <2>2. applied \subseteq DOMAIN log
    BY DEF SpoolInv
  <2>3. \A i \in applied : log'[i] = log[i]
    BY <2>1, <2>2
  <2> QED BY <2>1, <2>3 DEF LastInv
<1>4. CASE Done
  <2> DEFINE e == log[Current]
  <2>1. /\ Current \in Nat /\ e = Head(spool) /\ e.op \in {"PUT", "DELETE"}
        /\ log' = log /\ applied' = applied \cup {Current} /\ pub' = Effect(pub, e)
    BY <1>4, CurrentEntry DEF Done, EventType
  <2>2. \A i \in applied : i \in Nat /\ i <= Current
    BY CurrentEntry DEF SpoolInv
  <2>3. \A n \in DOMAIN pub' : \E i \in applied' :
          /\ IsPut(log[i], n) /\ log[i].content = pub'[n]
          /\ \A j \in applied' : j > i => log[j].name # n
    <3> SUFFICES ASSUME NEW n \in DOMAIN pub'
                 PROVE  \E i \in applied' :
                          /\ IsPut(log[i], n) /\ log[i].content = pub'[n]
                          /\ \A j \in applied' : j > i => log[j].name # n
      OBVIOUS
    <3>1. CASE n = e.name
      <4>1. e.op = "PUT" /\ pub'[n] = e.content
        BY <2>1, <3>1 DEF Effect, Without
      <4>2. \A j \in applied' : ~(j > Current)
        BY <2>1, <2>2
      <4> QED BY <2>1, <3>1, <4>1, <4>2 DEF IsPut
    <3>2. CASE n # e.name
      <4>1. n \in DOMAIN pub /\ pub'[n] = pub[n]
        BY <2>1, <3>2 DEF Effect, Without
      <4>2. PICK i \in applied :
              /\ IsPut(log[i], n) /\ log[i].content = pub[n]
              /\ \A j \in applied : j > i => log[j].name # n
        BY <4>1 DEF LastInv
      <4> QED BY <2>1, <3>2, <4>1, <4>2
    <3> QED BY <3>1, <3>2
  <2>4. \A i \in applied' : log[i].op = "PUT" =>
          \/ log[i].name \in DOMAIN pub'
          \/ \E j \in applied' : j > i /\ IsDelete(log[j], log[i].name)
    <3> SUFFICES ASSUME NEW i \in applied', log[i].op = "PUT"
                 PROVE  \/ log[i].name \in DOMAIN pub'
                        \/ \E j \in applied' : j > i /\ IsDelete(log[j], log[i].name)
      OBVIOUS
    <3>1. CASE i = Current
      BY <2>1, <3>1 DEF Effect
    <3>2. CASE i # Current
      <4>1. i \in applied /\ i < Current
        BY <2>1, <2>2, <3>2
      <4>2. CASE IsDelete(e, log[i].name)
        BY <2>1, <4>1, <4>2
      <4>3. CASE ~IsDelete(e, log[i].name) /\ log[i].name \in DOMAIN pub
        BY <2>1, <4>3 DEF Effect, Without, IsDelete
      <4>4. CASE log[i].name \notin DOMAIN pub
        BY <2>1, <4>1, <4>4 DEF LastInv
      <4> QED BY <4>2, <4>3, <4>4
    <3> QED BY <3>1, <3>2
  <2> QED BY <2>1, <2>3, <2>4 DEF LastInv
<1> QED BY <1>1, <1>2, <1>3, <1>4, QueueSteps

\* The effects of the first events of the log one after the other, those that
\* were not transferred left out.
Folds(g, events, done) ==
  g = [n \in 0 .. Len(events) |->
         IF n = 0 THEN [m \in {} |-> {}]
         ELSE IF n \in done THEN Effect(g[n - 1], events[n])
         ELSE g[n - 1]]

\* Behind the entry that is treated nothing has had an effect yet.
FoldInv ==
  \E g : /\ Folds(g, log, applied)
         /\ \A n \in 0 .. Len(log) :
              n >= Current \/ (n = Current - 1 /\ Current \notin applied) => g[n] = pub

\* What is done twice counts once.
LEMMA EffectTwice ==
  ASSUME NEW P, NEW e, e.op \in {"PUT", "DELETE"}
  PROVE  Effect(Effect(P, e), e) = Effect(P, e)
<1>1. CASE e.op = "PUT"
  <2> DEFINE Q == Effect(P, e)
  <2>1. Q = [n \in DOMAIN P \cup {e.name} |-> IF n = e.name THEN e.content ELSE P[n]]
    BY <1>1 DEF Effect
  <2> HIDE DEF Q
  <2>2. Effect(Q, e) = [n \in DOMAIN Q \cup {e.name} |-> IF n = e.name THEN e.content ELSE Q[n]]
    BY <1>1 DEF Effect
  <2>3. DOMAIN Q \cup {e.name} = DOMAIN P \cup {e.name}
    BY <2>1
  <2>4. \A n \in DOMAIN P \cup {e.name} :
          (IF n = e.name THEN e.content ELSE Q[n]) = IF n = e.name THEN e.content ELSE P[n]
    BY <2>1
  <2>5. Effect(Q, e) = Q
    BY <2>1, <2>2, <2>3, <2>4
  <2> QED BY <2>5 DEF Q
<1>2. CASE e.op = "DELETE"
  <2> DEFINE Q == Effect(P, e)
  <2>1. Q = [n \in DOMAIN P \ {e.name} |-> P[n]]
    BY <1>2 DEF Effect, Without
  <2> HIDE DEF Q
  <2>2. Effect(Q, e) = [n \in DOMAIN Q \ {e.name} |-> Q[n]]
    BY <1>2 DEF Effect, Without
  <2>3. DOMAIN Q \ {e.name} = DOMAIN P \ {e.name}
    BY <2>1
  <2>4. Effect(Q, e) = Q
    BY <2>1, <2>2, <2>3
  <2> QED BY <2>4 DEF Q
<1> QED BY <1>1, <1>2

\* Each of the four things keeps such a function.
LEMMA FoldNext ==
  ASSUME ~Preclean, TypeOK, SpoolInv, FoldInv, [Next]_vars
  PROVE  FoldInv'
<1> DEFINE empty == [m \in {} |-> {}]
           L == Len(log)
<1>1. PICK g : /\ Folds(g, log, applied)
               /\ \A n \in 0 .. Len(log) :
                    n >= Current \/ (n = Current - 1 /\ Current \notin applied)
                      => g[n] = pub
  BY DEF FoldInv
<1>2. /\ L \in Nat /\ Current \in 1 .. L + 1 /\ DOMAIN log = 1 .. L
      /\ \A i \in applied : i \in 1 .. L /\ i <= Current
  BY CurrentEntry DEF SpoolInv
<1>3. CASE SameQueue
  <2>1. Current' = Current
    BY <1>3, CurrentMoves
  <2> QED BY <1>1, <1>3, <2>1 DEF SameQueue, Folds, FoldInv
<1>4. ASSUME NEW e \in EventType, Pushed(e) PROVE FoldInv'
  <2>1. /\ Current' = Current /\ Len(log') = L + 1 /\ \A i \in 1 .. L : log'[i] = log[i]
        /\ applied' = applied /\ pub' = pub
    BY <1>2, <1>4, CurrentMoves DEF Pushed
  <2> DEFINE h == [n \in 0 .. L + 1 |-> IF n = L + 1 THEN g[L] ELSE g[n]]
  <2>2. g[L] = pub
    <3>1. L >= Current \/ (L = Current - 1 /\ Current \notin applied)
      BY <1>2
    <3> QED BY <1>1, <1>2, <3>1
  <2>3. ASSUME NEW n \in 0 .. L + 1
        PROVE  h[n] = IF n = 0 THEN empty
                      ELSE IF n \in applied' THEN Effect(h[n - 1], log'[n])
                      ELSE h[n - 1]
    <3>1. CASE n = L + 1
      <4>1. n \notin applied' /\ n # 0 /\ n - 1 = L /\ L \in 0 .. L + 1 /\ L # L + 1
        <5>1. \A i \in applied' : i # L + 1
          BY <1>2, <2>1
        <5>2. n \notin applied'
          BY <3>1, <5>1
        <5>3. L \in Nat
          BY <1>2
        <5> HIDE DEF L
        <5>4. n # 0 /\ n - 1 = L /\ L \in 0 .. L + 1 /\ L # L + 1
          BY <3>1, <5>3
        <5> QED BY <5>2, <5>4
      <4> QED BY <3>1, <4>1
    <3>2. CASE n = 0
      <4>1. 0 # L + 1 /\ 0 \in 0 .. L
        BY <1>2
      <4>2. g[0] = empty
        BY <1>1, <4>1 DEF Folds
      <4> QED BY <3>2, <4>1, <4>2
    <3>3. CASE n \in 1 .. L
      <4>1. n # 0 /\ n \in 0 .. L /\ n # L + 1 /\ n - 1 \in 0 .. L + 1 /\ n - 1 # L + 1
        BY <1>2, <3>3
      <4>2. g[n] = IF n \in applied THEN Effect(g[n - 1], log[n]) ELSE g[n - 1]
        BY <1>1, <4>1 DEF Folds
      <4>3. h[n] = g[n] /\ h[n - 1] = g[n - 1] /\ log'[n] = log[n]
        BY <2>1, <3>3, <4>1
      <4> HIDE DEF h
      <4> QED BY <2>1, <4>1, <4>2, <4>3
    <3> QED BY <1>2, <3>1, <3>2, <3>3
  <2>4. h = [n \in 0 .. L + 1 |->
               IF n = 0 THEN empty
               ELSE IF n \in applied' THEN Effect(h[n - 1], log'[n])
               ELSE h[n - 1]]
    BY <2>3
  <2>5. ASSUME NEW n \in 0 .. L + 1,
               n >= Current \/ (n = Current - 1 /\ Current \notin applied)
        PROVE  h[n] = pub
    BY <1>1, <1>2, <2>2, <2>5
  <2> HIDE DEF h
  <2>6. Folds(h, log', applied')
    BY <2>1, <2>4 DEF Folds
  <2>7. \A n \in 0 .. Len(log') :
          n >= Current' \/ (n = Current' - 1 /\ Current' \notin applied') => h[n] = pub'
    BY <2>1, <2>5
  <2> QED BY <2>6, <2>7 DEF FoldInv
<1>5. CASE Done
  <2> DEFINE e == log[Current]
  <2>1. /\ Current' = Current /\ Current \in 1 .. L
        /\ e.op \in {"PUT", "DELETE"} /\ log' = log
        /\ applied' = applied \cup {Current} /\ pub' = Effect(pub, e)
    BY <1>2, <1>5, CurrentEntry, CurrentMoves DEF Done, EventType
  <2>2. \A n \in 0 .. L : n # 0 =>
          g[n] = IF n \in applied THEN Effect(g[n - 1], log[n]) ELSE g[n - 1]
    BY <1>1 DEF Folds
  <2>3. CASE Current \in applied
    <3>1. g[Current] = Effect(g[Current - 1], e) /\ g[Current] = pub
      BY <1>1, <1>2, <2>1, <2>2, <2>3
    <3>2. pub' = pub /\ applied' = applied
      <4>1. Effect(Effect(g[Current - 1], e), e) = Effect(g[Current - 1], e)
        BY <2>1, EffectTwice
      <4> QED BY <2>1, <2>3, <3>1, <4>1
    <3> QED BY <1>1, <2>1, <3>2 DEF Folds, FoldInv
  <2>4. CASE Current \notin applied
    <3> DEFINE h == [n \in 0 .. L |-> IF n < Current THEN g[n] ELSE pub']
    <3>1. Current - 1 \in 0 .. L /\ g[Current - 1] = pub
      BY <1>1, <1>2, <2>1, <2>4
    <3>2. ASSUME NEW n \in 0 .. L
          PROVE  h[n] = IF n = 0 THEN empty
                        ELSE IF n \in applied' THEN Effect(h[n - 1], log[n])
                        ELSE h[n - 1]
      <4>1. CASE n = 0
        <5>1. 0 < Current /\ g[0] = empty
          BY <1>1, <1>2, <2>1, <4>1 DEF Folds
        <5> QED BY <4>1, <5>1
      <4>2. CASE n # 0 /\ n < Current
        <5>1. n - 1 \in 0 .. L /\ n - 1 < Current /\ n # Current
          BY <1>2, <2>1, <4>2
        <5>2. h[n] = g[n] /\ h[n - 1] = g[n - 1]
          BY <4>2, <5>1
        <5> HIDE DEF h
        <5> QED BY <2>1, <2>2, <4>2, <5>1, <5>2
      <4>3. CASE n = Current
        <5>1. ~(n < Current) /\ n - 1 \in 0 .. L /\ n - 1 < Current /\ n # 0
          BY <1>2, <2>1, <4>3
        <5>2. h[n] = pub' /\ h[n - 1] = pub
          BY <3>1, <4>3, <5>1
        <5> HIDE DEF h
        <5> QED BY <2>1, <4>3, <5>1, <5>2
      <4>4. CASE n > Current
        <5>1. ~(n < Current) /\ n - 1 \in 0 .. L /\ ~(n - 1 < Current) /\ n # 0
          BY <1>2, <2>1, <4>4
        <5>2. h[n] = pub' /\ h[n - 1] = pub'
          BY <5>1
        <5>3. n \notin applied'
          BY <1>2, <2>1, <4>4
        <5> HIDE DEF h
        <5> QED BY <5>1, <5>2, <5>3
      <4> QED BY <1>2, <2>1, <4>1, <4>2, <4>3, <4>4
    <3>3. h = [n \in 0 .. L |->
                 IF n = 0 THEN empty
                 ELSE IF n \in applied' THEN Effect(h[n - 1], log[n])
                 ELSE h[n - 1]]
      BY <3>2
    <3>4. \A n \in 0 .. L : n >= Current => h[n] = pub'
      BY <1>2, <2>1
    <3> HIDE DEF h
    <3>5. Folds(h, log', applied')
      BY <2>1, <3>3 DEF Folds
    <3>6. Current \in applied'
      BY <2>1
    <3> QED BY <2>1, <3>4, <3>5, <3>6 DEF FoldInv
  <2> QED BY <2>3, <2>4
<1>6. CASE Popped
  <2>1. Current' = Current + 1 /\ UNCHANGED <<log, applied, pub>>
    BY <1>6, CurrentMoves DEF Popped
  <2>2. \A n \in 0 .. L : n >= Current' \/ (n = Current' - 1 /\ Current' \notin applied)
          => g[n] = pub
    BY <1>1, <1>2, <2>1
  <2> HIDE DEF L
  <2> QED BY <1>1, <2>1, <2>2 DEF Folds, FoldInv, L
<1> QED BY <1>3, <1>4, <1>5, <1>6, QueueSteps

\* There is one such function.
LEMMA OneFold ==
  ASSUME TypeOK, NEW f, NEW g, Folds(f, log, applied), Folds(g, log, applied)
  PROVE  f = g
<1> DEFINE L == Len(log)
           D == {n \in 0 .. L : f[n] # g[n]}
<1>1. L \in Nat
  BY DEF TypeOK
<1>2. ASSUME NEW n \in 0 .. L, n \notin D \/ f[n] = g[n] PROVE f[n] = g[n]
  BY <1>2
<1>3. D = {}
  <2> SUFFICES ASSUME D # {} PROVE FALSE
    OBVIOUS
  <2>1. PICK n \in D : \A m \in D : n <= m
    <3>1. D \in SUBSET Nat
      BY <1>1
    <3> HIDE DEF D
    <3> QED BY <3>1, LeastElement
  <2>2. n \in 0 .. L /\ f[n] # g[n]
    OBVIOUS
  <2>3. n # 0
    BY <2>2 DEF Folds
  <2>4. n - 1 \in 0 .. L /\ n - 1 < n
    BY <1>1, <2>2, <2>3
  <2>5. f[n - 1] = g[n - 1]
    <3>1. \A m \in 0 .. L : f[m] # g[m] => n <= m
      BY <2>1
    <3>2. ~(n <= n - 1)
      BY <2>2
    <3> QED BY <2>4, <3>1, <3>2
  <2>6. f[n] = IF n \in applied THEN Effect(f[n - 1], log[n]) ELSE f[n - 1]
    BY <2>2, <2>3 DEF Folds
  <2>7. g[n] = IF n \in applied THEN Effect(g[n - 1], log[n]) ELSE g[n - 1]
    BY <2>2, <2>3 DEF Folds
  <2> QED BY <2>2, <2>5, <2>6, <2>7
<1>4. \A n \in 0 .. L : f[n] = g[n]
  BY <1>3
<1>5. /\ f = [n \in 0 .. L |-> f[n]]
      /\ g = [n \in 0 .. L |-> g[n]]
  BY DEF Folds
<1> QED BY <1>4, <1>5

\* The function that the property defines is the one the invariant has.
LEMMA FoldInvIsEnough ==
  ASSUME TypeOK, SpoolInv, FoldInv
  PROVE  PublishedInOrder
<1> DEFINE after[n \in 0 .. Len(log)] ==
             IF n = 0 THEN [m \in {} |-> {}]
             ELSE IF n \in applied THEN Effect(after[n - 1], log[n])
             ELSE after[n - 1]
<1>1. PICK g : /\ Folds(g, log, applied)
               /\ \A n \in 0 .. Len(log) :
                    n >= Current \/ (n = Current - 1 /\ Current \notin applied)
                      => g[n] = pub
  BY DEF FoldInv
<1>2. Folds(after, log, applied)
  BY <1>1 DEF Folds
<1> HIDE DEF after
<1>3. after = g
  BY <1>1, <1>2, OneFold
<1>4. g[Len(log)] = pub
  <2>1. /\ Len(log) \in Nat /\ Current \in 1 .. Len(log) + 1
        /\ \A i \in applied : i \in 1 .. Len(log)
    BY CurrentEntry DEF SpoolInv
  <2>2. Len(log) >= Current \/ (Len(log) = Current - 1 /\ Current \notin applied)
    BY <2>1
  <2> QED BY <1>1, <2>1, <2>2
<1>5. \A i \in applied : i <= Current
  BY DEF SpoolInv
<1>6. pub = after[Len(log)]
  BY <1>3, <1>4
<1> QED BY <1>5, <1>6 DEF PublishedInOrder, after

QueueInv == TypeOK /\ CountInv /\ SpoolInv /\ LastInv /\ FoldInv

\* The invariant of the queue holds.
LEMMA QueueInvariant ==
  ASSUME ~Preclean
  PROVE  Spec => []QueueInv
<1>1. Init => QueueInv
  <2> SUFFICES ASSUME Init PROVE QueueInv
    OBVIOUS
  <2>1. /\ spool = <<>> /\ log = <<>> /\ applied = {} /\ pub = [n \in {} |-> {}]
        /\ Len(log) = 0 /\ Len(spool) = 0 /\ Current = 1
    BY DEF Init, ConveyorInit, Current
  <2>2. SpoolInv
    BY <2>1 DEF SpoolInv
  <2>3. LastInv
    BY <2>1 DEF LastInv
  <2>4. FoldInv
    <3> DEFINE g == [n \in 0 .. 0 |-> [m \in {} |-> {}]]
    <3>1. Folds(g, log, applied)
      <4>1. \A n \in 0 .. 0 : n = 0
        OBVIOUS
      <4> QED BY <2>1, <4>1 DEF Folds
    <3>2. \A n \in 0 .. 0 : g[n] = pub
      BY <2>1
    <3> HIDE DEF g
    <3> QED BY <2>1, <3>1, <3>2 DEF FoldInv
  <2> QED BY <2>2, <2>3, <2>4, InitTypes DEF QueueInv
<1>2. QueueInv /\ [Next]_vars => QueueInv'
  BY TypesNext, SpoolNext, LastNext, FoldNext DEF QueueInv
<1> QED BY <1>1, <1>2, PTL DEF Spec

(***************************************************************************)
(* Unless the publishing point is cleared at every start of glassconv:     *)
(* what is published is what the pushed events make of it one after the    *)
(* other, whatever crashed between a transfer and its unlink, and          *)
(* whichever transfers were refused.                                       *)
(***************************************************************************)
THEOREM NothingOvertakes ==
  ASSUME ~Preclean
  PROVE  Spec => []PublishedInOrder
<1>1. QueueInv => PublishedInOrder
  BY FoldInvIsEnough DEF QueueInv
<1> QED BY <1>1, QueueInvariant, PTL

-----------------------------------------------------------------------------
(* What is pushed, in which order.                                         *)

\* The places of two sequences put one behind the other.
LEMMA Joined ==
  ASSUME NEW S, NEW a \in Seq(S), NEW b \in Seq(S)
  PROVE  /\ a \o b \in Seq(S) /\ Len(a) \in Nat /\ Len(b) \in Nat
         /\ DOMAIN a = 1 .. Len(a) /\ DOMAIN b = 1 .. Len(b)
         /\ DOMAIN (a \o b) = 1 .. Len(a) + Len(b)
         /\ Len(a \o b) = Len(a) + Len(b)
         /\ \A i \in DOMAIN a : i \in DOMAIN (a \o b) /\ (a \o b)[i] = a[i]
         /\ \A i \in DOMAIN b : /\ Len(a) + i \in DOMAIN (a \o b)
                                /\ (a \o b)[Len(a) + i] = b[i]
         /\ \A j \in DOMAIN (a \o b) : j > Len(a) =>
              j - Len(a) \in DOMAIN b /\ (a \o b)[j] = b[j - Len(a)]
<1> DEFINE E == a \o b
<1>1. /\ Len(a) \in Nat /\ Len(b) \in Nat
      /\ DOMAIN a = 1 .. Len(a) /\ DOMAIN b = 1 .. Len(b)
  OBVIOUS
<1>2. /\ E \in Seq(S) /\ Len(E) = Len(a) + Len(b)
      /\ \A i \in 1 .. Len(a) + Len(b) :
           E[i] = IF i <= Len(a) THEN a[i] ELSE b[i - Len(a)]
  BY <1>1, ConcatProperties
<1> HIDE DEF E
<1>3. DOMAIN E = 1 .. Len(a) + Len(b)
  BY <1>1, <1>2
<1>4. \A i \in DOMAIN a : i \in DOMAIN E /\ E[i] = a[i]
  BY <1>1, <1>2, <1>3
<1>5. ASSUME NEW i \in DOMAIN b
      PROVE  Len(a) + i \in DOMAIN E /\ E[Len(a) + i] = b[i]
  <2>1. /\ Len(a) + i \in 1 .. Len(a) + Len(b)
        /\ ~(Len(a) + i <= Len(a)) /\ (Len(a) + i) - Len(a) = i
    BY <1>1
  <2> QED BY <1>2, <1>3, <2>1
<1>6. ASSUME NEW j \in DOMAIN E, j > Len(a)
      PROVE  j - Len(a) \in DOMAIN b /\ E[j] = b[j - Len(a)]
  BY <1>1, <1>2, <1>3, <1>6
<1> QED BY <1>1, <1>2, <1>3, <1>4, <1>5, <1>6 DEF E

\* The places of the log and of what is still to be pushed.
LEMMA EntriesAre ==
  ASSUME TypeOK
  PROVE  /\ Entries \in Seq(EventType) /\ Len(log) \in Nat /\ Len(toPush) \in Nat
         /\ DOMAIN log = 1 .. Len(log) /\ DOMAIN toPush = 1 .. Len(toPush)
         /\ DOMAIN Entries = 1 .. Len(log) + Len(toPush)
         /\ Len(Entries) = Len(log) + Len(toPush)
         /\ \A i \in DOMAIN log : i \in DOMAIN Entries /\ Entries[i] = log[i]
         /\ \A i \in DOMAIN toPush : /\ Len(log) + i \in DOMAIN Entries
                                     /\ Entries[Len(log) + i] = toPush[i]
         /\ \A j \in DOMAIN Entries : j > Len(log) =>
              j - Len(log) \in DOMAIN toPush /\ Entries[j] = toPush[j - Len(log)]
<1>1. log \in Seq(EventType) /\ toPush \in Seq(EventType)
  BY DEF TypeOK
<1> QED BY <1>1, Joined DEF Entries

\* A push moves an event from one part of the entries to the other.
LEMMA PushedStaysEntry ==
  ASSUME TypeOK, CountInv, PushNext, spoolExists
  PROVE  Entries' = Entries
<1> DEFINE e == Head(toPush)
<1>1. /\ TypeOK' /\ toPush # <<>> /\ e \in EventType
      /\ toPush \in Seq(EventType) /\ log \in Seq(EventType)
      /\ log' = Append(log, e) /\ toPush' = Tail(toPush)
  BY PushFacts, PushKeepsTypes DEF TypeOK
<1> DEFINE N == Len(log)
           M == Len(toPush)
<1>2. /\ Len(log') = N + 1 /\ \A i \in 1 .. N : log'[i] = log[i]
      /\ log'[N + 1] = e /\ N \in Nat
  BY <1>1, AppendProperties
<1>3. /\ e = toPush[1] /\ Len(toPush') = M - 1 /\ M \in Nat /\ M > 0
      /\ \A i \in 1 .. M - 1 : toPush'[i] = toPush[i + 1]
  BY <1>1, HeadTailProperties, EmptySeq
<1>4. /\ Entries' \in Seq(EventType) /\ DOMAIN log' = 1 .. Len(log')
      /\ Len(Entries') = Len(log') + Len(toPush')
      /\ \A i \in DOMAIN log' : Entries'[i] = log'[i]
      /\ \A i \in DOMAIN toPush' : Entries'[Len(log') + i] = toPush'[i]
      /\ DOMAIN toPush' = 1 .. Len(toPush')
  <2>1. log' \in Seq(EventType) /\ toPush' \in Seq(EventType)
    BY <1>1 DEF TypeOK
  <2> QED BY <2>1, Joined DEF Entries
<1>5. /\ Entries \in Seq(EventType) /\ Len(Entries) = N + M
      /\ \A i \in 1 .. N : Entries[i] = log[i]
      /\ \A i \in 1 .. M : Entries[N + i] = toPush[i]
  BY EntriesAre
<1> HIDE DEF e, N, M
<1>6. Len(Entries') = Len(Entries)
  BY <1>2, <1>3, <1>4, <1>5
<1>7. ASSUME NEW i \in 1 .. N + M
      PROVE  Entries'[i] = Entries[i]
  <2>1. CASE i \in 1 .. N
    BY <1>2, <1>4, <1>5, <2>1
  <2>2. CASE i = N + 1
    <3>1. i \in DOMAIN log' /\ 1 \in 1 .. M
      BY <1>2, <1>3, <1>4, <2>2
    <3> QED BY <1>2, <1>3, <1>4, <1>5, <2>2, <3>1
  <2>3. CASE i > N + 1
    <3> DEFINE k == i - (N + 1)
    <3>1. /\ k \in 1 .. M - 1 /\ k + 1 \in 1 .. M
          /\ (N + 1) + k = i /\ N + (k + 1) = i
      BY <1>2, <1>3, <2>3
    <3> HIDE DEF k
    <3>2. Entries'[(N + 1) + k] = toPush'[k]
      BY <1>2, <1>3, <1>4, <3>1
    <3>3. Entries[N + (k + 1)] = toPush[k + 1]
      BY <1>5, <3>1
    <3> QED BY <1>3, <3>1, <3>2, <3>3
  <2> QED BY <1>2, <1>3, <2>1, <2>2, <2>3
<1>8. \A i \in 1 .. Len(Entries) : Entries'[i] = Entries[i]
  BY <1>5, <1>7
<1> HIDE DEF Entries
<1> QED BY <1>4, <1>5, <1>6, <1>8, SeqEqual

\* A push that fails leaves out an event behind the log.
LEMMA LostIsNoEntry ==
  ASSUME TypeOK, CountInv, PushNext, ~spoolExists
  PROVE  /\ log' = log
         /\ \A j \in DOMAIN Entries' : j > Len(log) =>
              j + 1 \in DOMAIN Entries /\ Entries'[j] = Entries[j + 1]
<1>1. /\ TypeOK' /\ toPush # <<>> /\ toPush \in Seq(EventType)
      /\ log' = log /\ toPush' = Tail(toPush)
  BY PushFacts, PushKeepsTypes DEF TypeOK
<1>2. /\ Len(toPush') = Len(toPush) - 1 /\ Len(toPush) \in Nat /\ Len(log) \in Nat
      /\ \A i \in 1 .. Len(toPush) - 1 : toPush'[i] = toPush[i + 1]
  BY <1>1, HeadTailProperties, EntriesAre
<1>3. /\ DOMAIN Entries' = 1 .. Len(log') + Len(toPush')
      /\ \A j \in DOMAIN Entries' : j > Len(log') =>
           j - Len(log') \in DOMAIN toPush' /\ Entries'[j] = toPush'[j - Len(log')]
      /\ DOMAIN toPush' = 1 .. Len(toPush')
  <2>1. log' \in Seq(EventType) /\ toPush' \in Seq(EventType)
    BY <1>1 DEF TypeOK
  <2> QED BY <2>1, Joined DEF Entries
<1> HIDE DEF Entries
<1>4. ASSUME NEW j \in DOMAIN Entries', j > Len(log)
      PROVE  j + 1 \in DOMAIN Entries /\ Entries'[j] = Entries[j + 1]
  <2> DEFINE k == j - Len(log)
  <2>1. j \in Nat
    BY <1>1, <1>2, <1>3
  <2>2. k \in 1 .. Len(toPush) - 1 /\ Entries'[j] = toPush'[k]
    BY <1>1, <1>2, <1>3, <1>4
  <2>3. k + 1 \in 1 .. Len(toPush) /\ Len(log) + (k + 1) = j + 1
    BY <1>2, <2>1, <2>2
  <2> HIDE DEF k
  <2>4. j + 1 \in DOMAIN Entries /\ Entries[j + 1] = toPush[k + 1]
    BY <2>3, EntriesAre
  <2> QED BY <1>2, <2>2, <2>4
<1> QED BY <1>1, <1>4

\* The entries after a cut or after stop().
LEMMA MoreEntries ==
  ASSUME TypeOK, TypeOK', toPush = <<>>, log' = log
  PROVE  /\ DOMAIN Entries = 1 .. Len(log) /\ Len(log) \in Nat
         /\ DOMAIN Entries' = 1 .. Len(log) + Len(toPush')
         /\ Len(toPush') \in Nat
         /\ \A i \in DOMAIN Entries :
              i \in DOMAIN Entries' /\ Entries'[i] = Entries[i] /\ Entries[i] = log[i]
         /\ \A i \in 1 .. Len(toPush') :
              Len(log) + i \in DOMAIN Entries' /\ Entries'[Len(log) + i] = toPush'[i]
         /\ \A j \in DOMAIN Entries' : j \notin DOMAIN Entries =>
              /\ j > Len(log) /\ j - Len(log) \in 1 .. Len(toPush')
              /\ Entries'[j] = toPush'[j - Len(log)]
<1>1. /\ DOMAIN Entries = 1 .. Len(log) + Len(toPush) /\ Len(log) \in Nat
      /\ \A i \in DOMAIN log : Entries[i] = log[i]
      /\ DOMAIN log = 1 .. Len(log)
  BY EntriesAre
<1>2. /\ Len(toPush') \in Nat
      /\ DOMAIN log' = 1 .. Len(log') /\ DOMAIN toPush' = 1 .. Len(toPush')
      /\ DOMAIN Entries' = 1 .. Len(log') + Len(toPush')
      /\ \A i \in DOMAIN log' : i \in DOMAIN Entries' /\ Entries'[i] = log'[i]
      /\ \A i \in DOMAIN toPush' : /\ Len(log') + i \in DOMAIN Entries'
                                   /\ Entries'[Len(log') + i] = toPush'[i]
      /\ \A j \in DOMAIN Entries' : j > Len(log') =>
           j - Len(log') \in DOMAIN toPush' /\ Entries'[j] = toPush'[j - Len(log')]
  <2>1. log' \in Seq(EventType) /\ toPush' \in Seq(EventType)
    BY DEF TypeOK
  <2> QED BY <2>1, Joined DEF Entries
<1>3. Len(toPush) = 0 /\ DOMAIN Entries = 1 .. Len(log)
  BY <1>1
<1> HIDE DEF Entries
<1>4. \A j \in DOMAIN Entries' : j \notin DOMAIN Entries => j > Len(log)
  BY <1>1, <1>2, <1>3
<1> QED BY <1>1, <1>2, <1>3, <1>4

\* A cut keeps what was pushed in order.
LEMMA CutKeepsStream ==
  ASSUME TypeOK, CountInv, StreamInv, NEW frames \in WriteSizes, WriteData(frames)
  PROVE  StreamInv'
<1>1. CASE ~IsCut(frames)
  BY <1>1 DEF WriteData, StreamInv, Entries, IsPut, conveyorVars
<1>2. CASE IsCut(frames)
  <2> DEFINE N == Len(log)
             H == HeadAfterCut
             E == Entries
             F == Entries'
  <2>1. /\ toPush = <<>> /\ seqBack <= MaxSeq /\ RotateMediaFile
        /\ log' = log /\ spoolExists' = spoolExists
    BY <1>2 DEF WriteData, conveyorVars
  <2>2. /\ seqHead' = H /\ seqBack' = seqBack + 1 /\ toPush' = CutEvents
    BY <2>1 DEF RotateMediaFile
  <2>3. /\ seqHead \in Nat /\ seqBack \in Nat /\ MinSegments \in Nat
        /\ H \in {seqHead, seqHead + 1} /\ H \in Nat
        /\ Trash \subseteq DOMAIN killtimes /\ DOMAIN killtimes \subseteq Nat
        /\ Playlist \notin Nat
    BY <2>1, CutFacts, HlsAssumption, ConveyorAssumption DEF TypeOK, Segment
  <2>4. /\ Len(CutEvents) \in Nat /\ Len(CutEvents) >= 2
        /\ IsPut(CutEvents[1], seqBack)
        /\ IsPut(CutEvents[2], Playlist) /\ CutEvents[2].content = H .. seqBack
        /\ \A i \in 3 .. Len(CutEvents) :
             CutEvents[i].op = "DELETE" /\ CutEvents[i].name \in Trash
    BY <2>1, CutFacts, CutEventsAre
  <2>5. /\ DOMAIN E = 1 .. N /\ N \in Nat
        /\ DOMAIN F = 1 .. N + Len(CutEvents)
        /\ \A i \in DOMAIN E : i \in DOMAIN F /\ F[i] = E[i]
        /\ \A i \in 1 .. Len(CutEvents) : N + i \in DOMAIN F /\ F[N + i] = CutEvents[i]
        /\ \A j \in DOMAIN F : j \notin DOMAIN E =>
             /\ j > N /\ j - N \in 1 .. Len(CutEvents)
             /\ F[j] = CutEvents[j - N]
    BY <2>1, <2>2, CutKeepsTypes, MoreEntries
  <2>6. /\ \A i \in DOMAIN E : E[i].op # "STOP"
        /\ \A k \in 0 .. seqBack - 1 : \E i \in DOMAIN E : IsPut(E[i], k)
        /\ \A p \in DOMAIN E : IsPut(E[p], Playlist) =>
             \A k \in E[p].content : \E i \in DOMAIN E : i < p /\ IsPut(E[i], k)
        /\ \A j \in DOMAIN E : E[j].op = "DELETE" =>
             /\ E[j].name \in Nat /\ E[j].name + 2 <= seqHead
             /\ \E q \in DOMAIN E :
                  /\ q < j /\ IsPut(E[q], Playlist)
                  /\ \A p \in DOMAIN E : p >= q /\ IsPut(E[p], Playlist) =>
                       \A k \in E[p].content : k >= E[j].name + 2
        /\ spoolExists
    BY DEF StreamInv
  <2> HIDE DEF E, F, N, H
  <2>7. /\ N + 1 \in DOMAIN F /\ IsPut(F[N + 1], seqBack)
        /\ N + 2 \in DOMAIN F /\ IsPut(F[N + 2], Playlist)
        /\ F[N + 2].content = H .. seqBack
    <3>1. 1 \in 1 .. Len(CutEvents) /\ 2 \in 1 .. Len(CutEvents)
      BY <2>4
    <3> QED BY <2>4, <2>5, <3>1
  <2>8. \A j \in DOMAIN F : \/ j \in DOMAIN E
                            \/ j = N + 1 \/ j = N + 2
                            \/ j > N + 2 /\ F[j].op = "DELETE" /\ F[j].name \in Trash
    <3> SUFFICES ASSUME NEW j \in DOMAIN F, j \notin DOMAIN E, j # N + 1, j # N + 2
                 PROVE  j > N + 2 /\ F[j].op = "DELETE" /\ F[j].name \in Trash
      OBVIOUS
    <3>1. j > N /\ j - N \in 1 .. Len(CutEvents) /\ F[j] = CutEvents[j - N] /\ j \in Nat
      BY <2>5
    <3>2. j - N \in 3 .. Len(CutEvents) /\ j > N + 2
      BY <2>4, <2>5, <3>1
    <3> QED BY <2>4, <3>1, <3>2
  <2>9. \A p \in DOMAIN F : IsPut(F[p], Playlist) => p \in DOMAIN E \/ p = N + 2
    <3> SUFFICES ASSUME NEW p \in DOMAIN F, IsPut(F[p], Playlist), p \notin DOMAIN E
                 PROVE  p = N + 2
      OBVIOUS
    <3>1. p # N + 1
      BY <2>3, <2>7 DEF IsPut
    <3> QED BY <2>8, <3>1 DEF IsPut
  <2>10. \A i \in DOMAIN F : F[i].op # "STOP"
    <3> SUFFICES ASSUME NEW i \in DOMAIN F PROVE F[i].op # "STOP"
      OBVIOUS
    <3> QED BY <2>5, <2>6, <2>7, <2>8 DEF IsPut
  <2>11. ASSUME NEW k \in 0 .. seqBack
         PROVE  \E i \in DOMAIN F : i < N + 2 /\ IsPut(F[i], k)
    <3>1. CASE k = seqBack
      <4>1. N + 1 < N + 2
        BY <2>5
      <4> QED BY <2>7, <3>1, <4>1
    <3>2. CASE k # seqBack
      <4>1. PICK i \in DOMAIN E : IsPut(E[i], k)
        BY <2>3, <2>6, <3>2
      <4>2. i < N + 2
        BY <2>5
      <4> QED BY <2>5, <4>1, <4>2
    <3> QED BY <3>1, <3>2
  <2>12. ASSUME NEW p \in DOMAIN F, IsPut(F[p], Playlist), NEW k \in F[p].content
         PROVE  \E i \in DOMAIN F : i < p /\ IsPut(F[i], k)
    <3>1. CASE p \in DOMAIN E
      BY <2>5, <2>6, <2>12, <3>1
    <3>2. CASE p = N + 2
      <4>1. k \in 0 .. seqBack
        BY <2>3, <2>7, <2>12, <3>2
      <4> QED BY <2>11, <3>2, <4>1
    <3> QED BY <2>9, <2>12, <3>1, <3>2
  <2>13. ASSUME NEW j \in DOMAIN F, F[j].op = "DELETE"
         PROVE  /\ F[j].name \in Nat /\ F[j].name + 2 <= H
                /\ \E q \in DOMAIN F :
                     /\ q < j /\ IsPut(F[q], Playlist)
                     /\ \A p \in DOMAIN F : p >= q /\ IsPut(F[p], Playlist) =>
                          \A k \in F[p].content : k >= F[j].name + 2
    <3> DEFINE n == F[j].name
    <3>1. CASE j \in DOMAIN E
      <4>1. /\ n \in Nat /\ n + 2 <= seqHead
            /\ \E q \in DOMAIN E :
                 /\ q < j /\ IsPut(E[q], Playlist)
                 /\ \A p \in DOMAIN E : p >= q /\ IsPut(E[p], Playlist) =>
                      \A k \in E[p].content : k >= n + 2
        BY <2>5, <2>6, <2>13, <3>1
      <4> HIDE DEF n
      <4>2. n + 2 <= H
        BY <2>3, <4>1
      <4>3. PICK q \in DOMAIN E :
              /\ q < j /\ IsPut(E[q], Playlist)
              /\ \A p \in DOMAIN E : p >= q /\ IsPut(E[p], Playlist) =>
                   \A k \in E[p].content : k >= n + 2
        BY <4>1
      <4>4. ASSUME NEW p \in DOMAIN F, p >= q, IsPut(F[p], Playlist),
                   NEW k \in F[p].content
            PROVE  k >= n + 2
        <5>1. CASE p \in DOMAIN E
          BY <2>5, <4>3, <4>4, <5>1
        <5>2. CASE p = N + 2
          <6>1. k \in H .. seqBack
            BY <2>7, <4>4, <5>2
          <6> QED BY <2>3, <4>1, <4>2, <6>1
        <5> QED BY <2>9, <4>4, <5>1, <5>2
      <4>5. q \in DOMAIN F /\ IsPut(F[q], Playlist)
        BY <2>5, <4>3
      <4> QED BY <4>1, <4>2, <4>3, <4>4, <4>5 DEF n
    <3>2. CASE j \notin DOMAIN E
      <4>1. j > N + 2 /\ n \in Trash
        BY <2>7, <2>8, <2>13, <3>2 DEF IsPut
      <4> HIDE DEF n
      <4>2. n \in Nat /\ n < seqHead /\ H = seqHead + 1
        <5>1. n \in Nat /\ n < seqHead
          BY <2>3, <4>1 DEF CountInv
        <5>2. seqBack - seqHead >= MinSegments
          BY <2>3, <5>1 DEF CountInv
        <5> QED BY <5>1, <5>2 DEF H, HeadAfterCut
      <4>3. n + 2 <= H
        BY <2>3, <4>2
      <4>4. ASSUME NEW p \in DOMAIN F, p >= N + 2, IsPut(F[p], Playlist),
                   NEW k \in F[p].content
            PROVE  k >= n + 2
        <5>1. p = N + 2
          BY <2>5, <2>9, <4>4
        <5>2. k \in H .. seqBack
          BY <2>7, <4>4, <5>1
        <5> QED BY <2>3, <4>2, <4>3, <5>2
      <4>5. N + 2 < j
        BY <2>5, <4>1
      <4> QED BY <2>7, <4>2, <4>3, <4>4, <4>5 DEF n
    <3> QED BY <3>1, <3>2
  <2>14. \A k \in 0 .. seqBack' - 1 : \E i \in DOMAIN F : IsPut(F[i], k)
    <3>1. seqBack' - 1 = seqBack
      BY <2>2, <2>3
    <3> QED BY <2>11, <3>1
  <2> QED BY <2>1, <2>2, <2>6, <2>10, <2>12, <2>13, <2>14 DEF StreamInv, E, F
<1> QED BY <1>1, <1>2

\* A push is remembered, and forgotten when its delete is pushed.
LEMMA PuttedNext ==
  ASSUME TypeOK, CountInv, PuttedInv, PushNext, spoolExists, ~NoDeletes
  PROVE  PuttedInv'
<1> DEFINE e == Head(toPush)
           N == Len(log)
           p == putted
<1>1. /\ e \in EventType /\ log' = Append(log, e) /\ putted' = PuttedAfter(e)
      /\ log \in Seq(EventType) /\ p \in Seq(Name) /\ e.name \in Name
      /\ e.op \in {"PUT", "DELETE", "STOP"}
  BY PushFacts DEF TypeOK, EventType
<1> HIDE DEF e
<1>2. /\ Len(log') = N + 1 /\ \A i \in 1 .. N : log'[i] = log[i]
      /\ log'[N + 1] = e /\ N \in Nat /\ DOMAIN log = 1 .. N
      /\ log' \in Seq(EventType)
  BY <1>1, AppendProperties
<1>3. DOMAIN log' = 1 .. N + 1
  BY <1>2
<1>4. /\ \A x \in DOMAIN p : p[x] # e.name \/ e.op # "DELETE" =>
           \E y \in DOMAIN putted' : putted'[y] = p[x]
      /\ e.op = "PUT" => \E y \in DOMAIN putted' : putted'[y] = e.name
  <2>1. CASE e.op = "PUT" /\ \E i \in DOMAIN putted : putted[i] = e.name
    BY <1>1, <2>1 DEF PuttedAfter
  <2>2. CASE e.op = "PUT" /\ ~ \E i \in DOMAIN putted : putted[i] = e.name
    <3>1. putted' = Append(p, e.name)
      BY <1>1, <2>2 DEF PuttedAfter
    <3>2. /\ Len(putted') = Len(p) + 1 /\ putted' \in Seq(Name) /\ Len(p) \in Nat
          /\ \A i \in 1 .. Len(p) : putted'[i] = p[i]
          /\ putted'[Len(p) + 1] = e.name /\ DOMAIN p = 1 .. Len(p)
      BY <1>1, <3>1, AppendProperties
    <3>3. DOMAIN putted' = 1 .. Len(p) + 1
      BY <3>2
    <3> QED BY <3>2, <3>3
  <2>3. CASE e.op = "DELETE"
    <3>1. putted' = RemoveFirst(p, e.name)
      BY <1>1, <2>3 DEF PuttedAfter
    <3> QED BY <1>1, <2>3, <3>1, RemovedName
  <2>4. CASE e.op = "STOP"
    BY <1>1, <2>4 DEF PuttedAfter
  <2> QED BY <1>1, <2>1, <2>2, <2>3, <2>4
<1>5. ASSUME NEW i \in DOMAIN log', log'[i].op = "PUT"
      PROVE  \/ \E x \in DOMAIN putted' : putted'[x] = log'[i].name
             \/ \E j \in DOMAIN log' : j > i /\ IsDelete(log'[j], log'[i].name)
  <2>1. CASE i = N + 1
    BY <1>2, <1>4, <1>5, <2>1
  <2>2. CASE i \in 1 .. N
    <3>1. log'[i] = log[i] /\ i < N + 1
      BY <1>2, <2>2
    <3>2. CASE \E j \in DOMAIN log : j > i /\ IsDelete(log[j], log[i].name)
      BY <1>2, <1>3, <3>1, <3>2
    <3>3. CASE \E x \in DOMAIN p : p[x] = log[i].name
      <4>1. PICK x \in DOMAIN p : p[x] = log[i].name
        BY <3>3
      <4>2. CASE p[x] # e.name \/ e.op # "DELETE"
        BY <1>4, <3>1, <4>1, <4>2
      <4>3. CASE p[x] = e.name /\ e.op = "DELETE"
        <5>1. N + 1 \in DOMAIN log' /\ N + 1 > i
          BY <1>2, <1>3, <3>1, <2>2
        <5> QED BY <1>2, <3>1, <4>1, <4>3, <5>1 DEF IsDelete
      <4> QED BY <4>2, <4>3
    <3> QED BY <1>2, <1>5, <2>2, <3>1, <3>2, <3>3 DEF PuttedInv
  <2> QED BY <1>2, <1>3, <2>1, <2>2
<1> QED BY <1>5 DEF PuttedInv

\* stop() deletes what is left before it pushes STOP.
LEMMA StopIsLast ==
  ASSUME TypeOK, CountInv, StreamInv, ~NoDeletes => PuttedInv, Stop
  PROVE  \E s \in DOMAIN Entries' : IsStop(s)'
<1> DEFINE N == Len(log)
           M == Len(putted)
           E == Entries
           F == Entries'
           s == N + (M + 1)
<1>1. /\ toPush = <<>> /\ toPush' = StopEvents /\ log' = log /\ putted' = putted
  BY DEF Stop, conveyorVars
<1>2. /\ Len(toPush') = M + 1 /\ M \in Nat /\ DOMAIN putted = 1 .. M
      /\ \A i \in 1 .. M : IsDelete(toPush'[i], putted[i])
      /\ toPush'[M + 1].op = "STOP"
  <2>1. DOMAIN putted = 1 .. M
    BY DEF TypeOK
  <2> QED BY <1>1, <2>1, StopEventsAre
<1>3. TypeOK'
  <2>1. Next
    BY DEF Next
  <2> QED BY <2>1, TypesNext
<1>4. /\ DOMAIN E = 1 .. N /\ N \in Nat
      /\ \A i \in DOMAIN E : i \in DOMAIN F /\ F[i] = E[i] /\ E[i] = log[i]
      /\ \A i \in 1 .. M + 1 : N + i \in DOMAIN F /\ F[N + i] = toPush'[i]
      /\ \A j \in DOMAIN F : j \notin DOMAIN E =>
           j > N /\ j - N \in 1 .. M + 1 /\ F[j] = toPush'[j - N]
      /\ DOMAIN F = 1 .. N + (M + 1)
  BY <1>1, <1>2, <1>3, MoreEntries
<1>5. DOMAIN log = 1 .. N
  BY EntriesAre
<1>6. \A i \in DOMAIN E : E[i].op # "STOP"
  BY DEF StreamInv
<1> HIDE DEF E, F, N, M, s
<1>7. s \in DOMAIN F /\ F[s].op = "STOP" /\ s \in Nat /\ s = N + (M + 1)
  <2>1. M + 1 \in 1 .. M + 1
    BY <1>2
  <2> QED BY <1>2, <1>4, <2>1 DEF s
<1>8. \A j \in DOMAIN F : j \notin DOMAIN E /\ j # s => F[j].op = "DELETE"
  <2> SUFFICES ASSUME NEW j \in DOMAIN F, j \notin DOMAIN E, j # s
               PROVE  F[j].op = "DELETE"
    OBVIOUS
  <2>1. j \in Nat /\ j > N /\ j - N \in 1 .. M + 1 /\ F[j] = toPush'[j - N]
    BY <1>4
  <2>2. j - N \in 1 .. M
    BY <1>2, <1>4, <1>7, <2>1
  <2> QED BY <1>2, <2>1, <2>2 DEF IsDelete
<1>9. \A t \in DOMAIN F : F[t].op = "STOP" => t = s
  <2> SUFFICES ASSUME NEW t \in DOMAIN F, F[t].op = "STOP", t # s
               PROVE  FALSE
    OBVIOUS
  <2>1. CASE t \in DOMAIN E
    BY <1>4, <1>6, <2>1
  <2>2. CASE t \notin DOMAIN E
    BY <1>8, <2>2
  <2> QED BY <2>1, <2>2
<1>10. ASSUME ~NoDeletes, NEW i \in DOMAIN F, i < s, F[i].op = "PUT"
       PROVE  \E j \in DOMAIN F : i < j /\ j < s /\ IsDelete(F[j], F[i].name)
  <2>1. i \in DOMAIN E /\ i \in 1 .. N /\ F[i] = log[i]
    <3>1. i # s
      BY <1>7, <1>10
    <3> QED BY <1>4, <1>8, <1>10, <3>1
  <2>2. PuttedInv
    BY <1>10
  <2>3. CASE \E x \in DOMAIN putted : putted[x] = log[i].name
    <3>1. PICK x \in 1 .. M : putted[x] = log[i].name
      BY <1>2, <2>3
    <3>2. N + x \in DOMAIN F /\ F[N + x] = toPush'[x] /\ i < N + x /\ N + x < s
      <4>1. x \in 1 .. M + 1
        BY <1>2
      <4> QED BY <1>2, <1>4, <1>7, <2>1, <4>1
    <3> QED BY <1>2, <2>1, <3>1, <3>2
  <2>4. CASE \E j \in DOMAIN log : j > i /\ IsDelete(log[j], log[i].name)
    <3>1. PICK j \in 1 .. N : j > i /\ IsDelete(log[j], log[i].name)
      BY <1>5, <2>4
    <3>2. j \in DOMAIN F /\ F[j] = log[j] /\ j < s /\ i < j
      BY <1>2, <1>4, <1>7, <2>1, <3>1
    <3> QED BY <2>1, <3>1, <3>2
  <2> QED BY <1>5, <1>10, <2>1, <2>2, <2>3, <2>4 DEF PuttedInv
<1>11. \E t \in DOMAIN F :
         /\ t \in DOMAIN F /\ F[t].op = "STOP"
         /\ \A u \in DOMAIN F : F[u].op = "STOP" => u = t
         /\ ~NoDeletes => \A i \in DOMAIN F : i < t /\ F[i].op = "PUT" =>
              \E j \in DOMAIN F : i < j /\ j < t /\ IsDelete(F[j], F[i].name)
  BY <1>7, <1>9, <1>10
<1>12. PICK t \in DOMAIN F :
         /\ t \in DOMAIN F /\ F[t].op = "STOP"
         /\ \A u \in DOMAIN F : F[u].op = "STOP" => u = t
         /\ ~NoDeletes => \A i \in DOMAIN F : i < t /\ F[i].op = "PUT" =>
              \E j \in DOMAIN F : i < j /\ j < t /\ IsDelete(F[j], F[i].name)
  BY <1>11
<1>13. IsStop(t)'
  BY <1>12 DEF IsStop, F
<1> QED BY <1>12, <1>13 DEF F

\* What comes behind the STOP entry does not touch it.
LEMMA StopStays ==
  ASSUME TypeOK, CountInv, stopping, NEW s \in DOMAIN Entries, IsStop(s),
         ~spoolExists => s \in DOMAIN log,
         PushNext \/ \E frames \in WriteSizes : WriteData(frames)
  PROVE  IsStop(s)' /\ s \in DOMAIN Entries' /\ DOMAIN log \subseteq DOMAIN log'
<1> DEFINE E == Entries
           F == Entries'
<1>1. /\ Len(log) \in Nat /\ DOMAIN log = 1 .. Len(log)
      /\ DOMAIN E = 1 .. Len(log) + Len(toPush) /\ Len(toPush) \in Nat
      /\ \A i \in DOMAIN log : i \in DOMAIN E /\ E[i] = log[i]
  BY EntriesAre
<1>2. ASSUME s \in DOMAIN log, DOMAIN log \subseteq DOMAIN log',
             \A i \in DOMAIN log : i \in DOMAIN F /\ F[i] = log[i],
             \A j \in DOMAIN F : j \in Nat /\ (j > Len(log) => F[j].op # "STOP")
      PROVE  IsStop(s)' /\ s \in DOMAIN Entries' /\ DOMAIN log \subseteq DOMAIN log'
  <2>1. /\ E[s].op = "STOP"
        /\ \A t \in DOMAIN E : E[t].op = "STOP" => t = s
        /\ ~NoDeletes => \A i \in DOMAIN E : i < s /\ E[i].op = "PUT" =>
             \E j \in DOMAIN E : i < j /\ j < s /\ IsDelete(E[j], E[i].name)
    BY DEF IsStop
  <2> HIDE DEF E, F
  <2>2. \A j \in DOMAIN F : j < s => j \in DOMAIN log
    <3>1. \A j \in DOMAIN F : j < s => j \in 1 .. Len(log) \/ j = 0
      BY <1>1, <1>2
    <3>2. 0 \notin DOMAIN F
      BY DEF F, Entries
    <3> QED BY <1>1, <3>1, <3>2
  <2>3. \A t \in DOMAIN F : F[t].op = "STOP" => t = s
    <3> SUFFICES ASSUME NEW t \in DOMAIN F, F[t].op = "STOP" PROVE t = s
      OBVIOUS
    <3>1. t \in Nat /\ ~(t > Len(log))
      BY <1>2
    <3>2. t # 0
      BY DEF F, Entries
    <3>3. t \in DOMAIN log
      BY <1>1, <3>1, <3>2
    <3> QED BY <1>1, <1>2, <2>1, <3>3
  <2>4. ASSUME ~NoDeletes, NEW i \in DOMAIN F, i < s, F[i].op = "PUT"
        PROVE  \E j \in DOMAIN F : i < j /\ j < s /\ IsDelete(F[j], F[i].name)
    <3>1. i \in DOMAIN log /\ i \in DOMAIN E /\ E[i] = F[i]
      BY <1>1, <1>2, <2>2, <2>4
    <3>2. PICK j \in DOMAIN E : i < j /\ j < s /\ IsDelete(E[j], E[i].name)
      BY <2>1, <2>4, <3>1
    <3>3. j \in DOMAIN log
      BY <1>1, <1>2, <3>2
    <3> QED BY <1>1, <1>2, <3>1, <3>2, <3>3
  <2>5. s \in DOMAIN F /\ F[s].op = "STOP"
    BY <1>1, <1>2, <2>1
  <2> QED BY <1>2, <2>3, <2>4, <2>5 DEF IsStop, F
<1>3. CASE PushNext /\ spoolExists
  <2>1. /\ Entries' = Entries
        /\ log' = Append(log, Head(toPush)) /\ Head(toPush) \in EventType
        /\ log \in Seq(EventType)
    BY <1>3, PushedStaysEntry, PushFacts DEF TypeOK
  <2>2. Len(log') = Len(log) + 1 /\ log' \in Seq(EventType)
    BY <2>1, AppendProperties
  <2>3. DOMAIN log' = 1 .. Len(log) + 1
    BY <1>1, <2>2
  <2>4. DOMAIN log \subseteq DOMAIN log'
    BY <1>1, <2>3
  <2> HIDE DEF E, F
  <2> QED BY <2>1, <2>4 DEF IsStop
<1>4. CASE PushNext /\ ~spoolExists
  <2>1. /\ log' = log /\ s \in DOMAIN log
        /\ \A j \in DOMAIN F : j > Len(log) => j + 1 \in DOMAIN E /\ F[j] = E[j + 1]
    BY <1>4, LostIsNoEntry
  <2>2. TypeOK'
    BY <1>4, PushKeepsTypes
  <2>3. /\ DOMAIN F = 1 .. Len(log') + Len(toPush') /\ Len(toPush') \in Nat
        /\ \A i \in DOMAIN log' : i \in DOMAIN F /\ F[i] = log'[i]
    <3>1. log' \in Seq(EventType) /\ toPush' \in Seq(EventType)
      BY <2>2 DEF TypeOK
    <3> QED BY <3>1, Joined DEF Entries
  <2>4. \A t \in DOMAIN E : E[t].op = "STOP" => t = s
    BY DEF IsStop
  <2> HIDE DEF E, F
  <2>5. \A j \in DOMAIN F : j \in Nat /\ (j > Len(log) => F[j].op # "STOP")
    <3> SUFFICES ASSUME NEW j \in DOMAIN F
                 PROVE  j \in Nat /\ (j > Len(log) => F[j].op # "STOP")
      OBVIOUS
    <3>1. j \in Nat
      BY <1>1, <2>1, <2>3
    <3>2. j > Len(log) => j + 1 # s
      BY <1>1, <2>1, <3>1
    <3> QED BY <2>1, <2>4, <3>1, <3>2
  <2> QED BY <1>2, <2>1, <2>3, <2>5
<1>5. ASSUME NEW frames \in WriteSizes, WriteData(frames)
      PROVE  IsStop(s)' /\ s \in DOMAIN Entries' /\ DOMAIN log \subseteq DOMAIN log'
  <2>1. toPush = <<>> /\ log' = log /\ s \in DOMAIN log
    <3>1. toPush = <<>> /\ log' = log
      BY <1>5 DEF WriteData, conveyorVars
    <3>2. Len(toPush) = 0
      BY <3>1
    <3> HIDE DEF E
    <3> QED BY <1>1, <3>1, <3>2 DEF E
  <2>2. CASE ~IsCut(frames)
    <3>1. Entries' = Entries
      BY <1>5, <2>1, <2>2 DEF WriteData, Entries
    <3> HIDE DEF E, F
    <3> QED BY <2>1, <3>1 DEF IsStop
  <2>3. CASE IsCut(frames)
    <3>1. toPush' = CutEvents /\ seqBack <= MaxSeq
      BY <1>5, <2>3 DEF WriteData, RotateMediaFile
    <3>2. \A i \in 1 .. Len(CutEvents) : CutEvents[i].op # "STOP"
      <4> SUFFICES ASSUME NEW i \in 1 .. Len(CutEvents) PROVE CutEvents[i].op # "STOP"
        OBVIOUS
      <4>0. Len(CutEvents) \in Nat
        BY <3>1, CutEventsAre
      <4>1. i = 1 \/ i = 2 \/ i \in 3 .. Len(CutEvents)
        BY <4>0
      <4>2. CutEvents[1].op = "PUT" /\ CutEvents[2].op = "PUT"
        BY <3>1, CutEventsAre DEF IsPut
      <4>3. i \in 3 .. Len(CutEvents) => CutEvents[i].op = "DELETE"
        BY <3>1, CutEventsAre
      <4> HIDE DEF CutEvents
      <4> QED BY <4>1, <4>2, <4>3
    <3>3. /\ DOMAIN E = 1 .. Len(log)
          /\ DOMAIN F = 1 .. Len(log) + Len(toPush') /\ Len(toPush') \in Nat
          /\ \A i \in DOMAIN E : i \in DOMAIN F /\ F[i] = E[i] /\ E[i] = log[i]
          /\ \A j \in DOMAIN F : j \notin DOMAIN E =>
               /\ j > Len(log) /\ j - Len(log) \in 1 .. Len(toPush')
               /\ F[j] = toPush'[j - Len(log)]
      BY <1>5, <2>1, CutKeepsTypes, MoreEntries
    <3> HIDE DEF E, F
    <3>4. \A j \in DOMAIN F : j \in Nat /\ (j > Len(log) => F[j].op # "STOP")
      BY <1>1, <3>1, <3>2, <3>3
    <3> QED BY <1>1, <1>2, <2>1, <3>3, <3>4
  <2> QED BY <2>2, <2>3
<1> QED BY <1>3, <1>4, <1>5

\* The steps of the conveyor, and those of nobody.
LEMMA ConveyorKeepsEnd ==
  ASSUME TypeOK, SpoolInv, EndInv, UNCHANGED <<hlsVars, toPush, stopping>>,
         Conveyor \/ Crash \/ UNCHANGED conveyorVars
  PROVE  EndInv'
<1>1. UNCHANGED <<log, putted, Entries>> /\ seqBack' = seqBack /\ seqHead' = seqHead
  BY DEF Conveyor, StartConveyorProcess, ProcessFinished, Boot, Scan, Transfer, Unlink,
         StopEntry, CleanupFile, RemoveDir, CleanExit, Crash, conveyorVars, hlsVars, Entries
<1>2. /\ Current \in 1 .. Len(log) + 1 /\ Len(log) \in Nat /\ DOMAIN log = 1 .. Len(log)
      /\ DOMAIN log \subseteq DOMAIN Entries /\ \A i \in DOMAIN log : Entries[i] = log[i]
      /\ spool # <<>> => Current \in DOMAIN log /\ Head(spool) = log[Current]
  BY CurrentEntry, EntriesAre
<1>3. proc \in {"transfer", "unlink"} => spool # <<>>
  <2>1. proc \in {"transfer", "unlink"} => left > 0 /\ left \in 0 .. Len(spool)
    BY DEF TypeOK
  <2> QED BY <2>1
<1>4. Ending => applied' = applied /\ (Current' = Current \/ Current' = Current + 1)
  <2>1. ASSUME Ending
        PROVE  applied' = applied /\ (spool' = spool \/ (spool # <<>> /\ spool' = Tail(spool)))
    <3>1. left = 0 \/ spool # <<>>
      BY DEF TypeOK
    <3> QED BY <2>1, <3>1
        DEF Ending, Conveyor, StartConveyorProcess, ProcessFinished, Boot, Scan, Transfer,
            Unlink, StopEntry, CleanupFile, RemoveDir, CleanExit, Crash, conveyorVars
  <2>2. ASSUME spool # <<>>, spool' = Tail(spool)
        PROVE  Current' = Current + 1
    <3>1. Len(spool') = Len(spool) - 1 /\ Len(spool) \in Nat
      BY <2>2, HeadTailProperties DEF TypeOK
    <3> QED BY <1>1, <1>2, <3>1 DEF Current
  <2>3. spool' = spool => Current' = Current
    BY <1>1 DEF Current
  <2> QED BY <2>1, <2>2, <2>3
<1>5. Ending' => \/ Ending
                 \/ /\ spool # <<>> /\ Head(spool).op = "STOP"
                    /\ UNCHANGED <<spool, applied>>
  BY <1>3 DEF Ending, Conveyor, StartConveyorProcess, ProcessFinished, Boot, Scan, Transfer,
            Unlink, StopEntry, CleanupFile, RemoveDir, CleanExit, Crash, conveyorVars, NextEntry
<1>6. ~spoolExists' => ~spoolExists \/ Ending
  BY DEF Ending, Conveyor, StartConveyorProcess, ProcessFinished, Boot, Scan, Transfer,
         Unlink, StopEntry, CleanupFile, RemoveDir, CleanExit, Crash, conveyorVars, TypeOK
<1>7. coder' = "stopped" => proc' = "exited"
  BY DEF EndInv, Conveyor, StartConveyorProcess, ProcessFinished, Boot, Scan, Transfer,
         Unlink, StopEntry, CleanupFile, RemoveDir, CleanExit, Crash, conveyorVars
<1>8. ASSUME ~stopping'
      PROVE  StreamInv' /\ (~NoDeletes => PuttedInv') /\ ~Ending'
  <2>1. StreamInv /\ (~NoDeletes => PuttedInv) /\ ~Ending
    BY <1>8 DEF EndInv
  <2>2. \A i \in DOMAIN Entries : Entries[i].op # "STOP"
    BY <2>1 DEF StreamInv
  <2>3. ~Ending'
    BY <1>2, <1>5, <2>1, <2>2
  <2>4. spoolExists'
    BY <1>6, <2>1 DEF StreamInv
  <2> HIDE DEF Entries
  <2> QED BY <1>1, <2>1, <2>3, <2>4 DEF StreamInv, PuttedInv
<1>9. ASSUME stopping'
      PROVE  \E s \in DOMAIN Entries' :
               /\ IsStop(s)'
               /\ Ending' => s \in DOMAIN log' /\ s <= Current' /\ \A i \in applied' : i < s
               /\ ~spoolExists' => s \in DOMAIN log'
  <2>1. PICK s \in DOMAIN Entries :
          /\ IsStop(s)
          /\ Ending => s \in DOMAIN log /\ s <= Current /\ \A i \in applied : i < s
          /\ ~spoolExists => s \in DOMAIN log
    BY <1>9 DEF EndInv
  <2> HIDE DEF Entries
  <2>2. IsStop(s)' /\ s \in DOMAIN Entries'
    BY <1>1, <2>1 DEF IsStop
  <2>3. CASE Ending
    <3>1. s \in DOMAIN log' /\ (\A i \in applied' : i < s)
      BY <1>1, <1>4, <2>1, <2>3
    <3>2. s <= Current'
      BY <1>2, <1>4, <2>1, <2>3
    <3> QED BY <2>2, <3>1, <3>2
  <2>4. CASE ~Ending
    <3>1. ~spoolExists' => s \in DOMAIN log'
      BY <1>1, <1>6, <2>1, <2>4
    <3>2. ASSUME Ending'
          PROVE  s \in DOMAIN log' /\ s <= Current' /\ \A i \in applied' : i < s
      <4>1. /\ spool # <<>> /\ Head(spool).op = "STOP" /\ UNCHANGED <<spool, applied>>
        BY <1>5, <2>4, <3>2
      <4>2. Current \in DOMAIN log /\ log[Current].op = "STOP"
        BY <1>2, <4>1
      <4>3. s = Current
        BY <1>2, <2>1, <4>2 DEF IsStop
      <4>4. Current' = Current
        BY <1>1, <4>1 DEF Current
      <4>5. \A i \in applied : i \in DOMAIN log /\ i <= Current /\ i # Current
        BY <4>2 DEF SpoolInv
      <4>6. \A i \in applied : i < Current
        BY <1>2, <4>5
      <4> QED BY <1>1, <1>2, <4>1, <4>2, <4>3, <4>4, <4>6
    <3> QED BY <2>2, <3>1, <3>2
  <2> QED BY <2>3, <2>4
<1> QED BY <1>7, <1>8, <1>9 DEF EndInv

\* Every step keeps the order of the stream, and the end behind it.
LEMMA EndNext ==
  ASSUME TypeOK, CountInv, SpoolInv, EndInv, [Next]_vars
  PROVE  EndInv'
<1>1. CASE ConveyorStep \/ ConveyorCrash \/ UNCHANGED vars
  BY <1>1, ConveyorKeepsEnd DEF ConveyorStep, ConveyorCrash, vars
<1>2. CASE PushNext \/ \E frames \in WriteSizes : WriteData(frames)
  <2>1. /\ UNCHANGED <<proc, applied, spoolExists, coder, stopping>>
        /\ Current' = Current
    <3>1. CASE PushNext
      <4>1. CASE spoolExists
        <5>1. Len(log') = Len(log) + 1 /\ Len(spool') = Len(spool) + 1
              /\ Len(log) \in Nat /\ Len(spool) \in Nat
          <6>1. /\ log \in Seq(EventType) /\ spool \in Seq(EventType)
                /\ log' = Append(log, Head(toPush)) /\ spool' = Append(spool, Head(toPush))
                /\ Head(toPush) \in EventType
            BY <3>1, <4>1, PushFacts DEF TypeOK
          <6> QED BY <6>1, AppendProperties
        <5> QED BY <3>1, <5>1, PushFacts DEF Current
      <4>2. CASE ~spoolExists
        BY <3>1, <4>2, PushFacts DEF Current
      <4> QED BY <4>1, <4>2
    <3>2. CASE \E frames \in WriteSizes : WriteData(frames)
      BY <3>2 DEF WriteData, conveyorVars, Current
    <3> QED BY <1>2, <3>1, <3>2
  <2>2. CASE stopping
    <3>1. PICK s \in DOMAIN Entries :
            /\ IsStop(s)
            /\ Ending => s \in DOMAIN log /\ s <= Current /\ \A i \in applied : i < s
            /\ ~spoolExists => s \in DOMAIN log
      BY <2>2 DEF EndInv
    <3>2. IsStop(s)' /\ s \in DOMAIN Entries' /\ DOMAIN log \subseteq DOMAIN log'
      BY <1>2, <2>2, <3>1, StopStays
    <3> HIDE DEF Entries
    <3>3. /\ Ending' => s \in DOMAIN log' /\ s <= Current' /\ \A i \in applied' : i < s
          /\ ~spoolExists' => s \in DOMAIN log'
      BY <2>1, <3>1, <3>2 DEF Ending
    <3> QED BY <2>1, <2>2, <3>2, <3>3 DEF EndInv
  <2>3. CASE ~stopping
    <3>1. StreamInv /\ (~NoDeletes => PuttedInv) /\ ~Ending
      BY <2>3 DEF EndInv
    <3>2. spoolExists
      BY <3>1 DEF StreamInv
    <3>3. CASE PushNext
      <4>1. Entries' = Entries /\ UNCHANGED <<seqHead, seqBack>>
        BY <3>2, <3>3, PushedStaysEntry, PushFacts DEF hlsVars
      <4>2. StreamInv'
        <5> HIDE DEF Entries
        <5> QED BY <2>1, <3>1, <4>1 DEF StreamInv
      <4>3. ~NoDeletes => PuttedInv'
        BY <3>1, <3>2, <3>3, PuttedNext
      <4> QED BY <2>1, <2>3, <3>1, <4>2, <4>3 DEF EndInv, Ending
    <3>4. ASSUME NEW frames \in WriteSizes, WriteData(frames) PROVE EndInv'
      <4>1. StreamInv'
        BY <3>1, <3>4, CutKeepsStream
      <4>2. ~NoDeletes => PuttedInv'
        BY <3>1, <3>4 DEF WriteData, conveyorVars, PuttedInv
      <4> QED BY <2>1, <2>3, <3>1, <4>1, <4>2 DEF EndInv, Ending
    <3> QED BY <1>2, <3>3, <3>4
  <2> QED BY <2>2, <2>3
<1>3. CASE Stop
  <2>1. /\ ~stopping /\ stopping' /\ UNCHANGED <<proc, spoolExists, coder>>
    BY <1>3 DEF Stop, conveyorVars
  <2>2. StreamInv /\ (~NoDeletes => PuttedInv) /\ ~Ending
    BY <2>1 DEF EndInv
  <2>3. spoolExists
    BY <2>2 DEF StreamInv
  <2>4. PICK s \in DOMAIN Entries' : IsStop(s)'
    BY <1>3, <2>2, StopIsLast
  <2> QED BY <2>1, <2>2, <2>3, <2>4 DEF EndInv, Ending
<1> QED BY <1>1, <1>2, <1>3 DEF Next

\* At the start there is nothing in the stream.
LEMMA InitEnd ==
  ASSUME Init
  PROVE  EndInv
<1>1. /\ log = <<>> /\ toPush = <<>> /\ putted = <<>> /\ spoolExists = TRUE
      /\ stopping = FALSE /\ seqBack = 0 /\ proc = "waiting" /\ coder = "running"
  BY DEF Init, ConveyorInit
<1>2. Entries = <<>> /\ DOMAIN Entries = {} /\ DOMAIN log = {} /\ 0 .. seqBack - 1 = {}
  BY <1>1 DEF Entries
<1> HIDE DEF Entries
<1>3. StreamInv /\ PuttedInv /\ ~Ending
  BY <1>1, <1>2 DEF StreamInv, PuttedInv, Ending
<1> QED BY <1>1, <1>3 DEF EndInv

StreamsInv == QueueInv /\ EndInv

\* The whole invariant holds.
LEMMA Invariance ==
  ASSUME ~Preclean
  PROVE  Spec => []StreamsInv
<1>1. Init => EndInv
  BY InitEnd
<1>2. QueueInv /\ EndInv /\ [Next]_vars => EndInv'
  BY EndNext DEF QueueInv
<1> QED BY <1>1, <1>2, QueueInvariant, PTL DEF Spec, StreamsInv

-----------------------------------------------------------------------------
(* What listeners find.                                                    *)

\* A playlist that is not the last one pushed before an entry that was treated
\* is published only if a later one was given up.
LEMMA LaterPlaylist ==
  ASSUME QueueInv, NEW p \in applied, NEW q \in DOMAIN log, p < q, q < Current,
         IsPut(log[q], Playlist),
         \A j \in applied : j > p => log[j].name # Playlist
  PROVE  PutFailed(Playlist)
<1>1. p \in Nat /\ q \in Nat /\ Current \in Nat /\ q >= 1
  BY CurrentEntry DEF QueueInv, SpoolInv
<1>2. q \notin applied
  BY <1>1 DEF IsPut
<1>3. q \in GivenUp
  BY <1>1, <1>2 DEF GivenUp
<1> QED BY <1>3 DEF PutFailed, IsPut

\* Why a listed segment is there.
LEMMA PublishedResolves ==
  ASSUME StreamsInv
  PROVE  PlaylistResolves
<1> SUFFICES ASSUME NEW k \in Listed, ~stopping, ~PutFailed(k), ~PutFailed(Playlist)
             PROVE  k \in DOMAIN pub
  BY DEF PlaylistResolves
<1>0. TypeOK /\ SpoolInv /\ LastInv /\ StreamInv /\ QueueInv
  BY DEF StreamsInv, QueueInv, EndInv
<1>1. Playlist \in DOMAIN pub /\ k \in pub[Playlist] /\ k \in Nat
  <2>1. Playlist \in DOMAIN pub /\ k \in pub[Playlist]
    BY DEF Listed
  <2>2. pub[Playlist] \subseteq Nat
    BY <1>0, <2>1, HlsAssumption DEF TypeOK, Segment
  <2> QED BY <2>1, <2>2
<1>2. PICK p \in applied :
        /\ IsPut(log[p], Playlist) /\ log[p].content = pub[Playlist]
        /\ \A j \in applied : j > p => log[j].name # Playlist
  BY <1>0, <1>1 DEF LastInv
<1>3. /\ Len(log) \in Nat /\ DOMAIN log = 1 .. Len(log)
      /\ Current \in Nat /\ \A i \in applied : i \in DOMAIN log /\ i <= Current
      /\ \A i \in DOMAIN log : i \in DOMAIN Entries /\ Entries[i] = log[i]
      /\ DOMAIN Entries \subseteq Nat /\ 0 \notin DOMAIN Entries
  <2>1. /\ Len(log) \in Nat /\ DOMAIN log = 1 .. Len(log) /\ Current \in Nat
    BY <1>0, CurrentEntry
  <2>2. /\ \A i \in DOMAIN log : i \in DOMAIN Entries /\ Entries[i] = log[i]
        /\ DOMAIN Entries = 1 .. Len(log) + Len(toPush) /\ Len(toPush) \in Nat
    BY <1>0, EntriesAre
  <2> HIDE DEF Entries
  <2> QED BY <1>0, <2>1, <2>2 DEF SpoolInv
<1> HIDE DEF Entries
<1>4. PICK i \in DOMAIN Entries : i < p /\ IsPut(Entries[i], k)
  BY <1>0, <1>1, <1>2, <1>3 DEF StreamInv
<1>5. i \in DOMAIN log /\ IsPut(log[i], k) /\ i < Current
  <2>1. i \in DOMAIN log
    BY <1>3, <1>4
  <2> QED BY <1>3, <1>4, <2>1
<1>6. i \in applied
  <2>1. i \in 1 .. Current - 1
    BY <1>3, <1>5
  <2> QED BY <1>5, <2>1 DEF PutFailed, GivenUp, IsPut
<1>7. ASSUME NEW j \in applied, j > i, IsDelete(log[j], k)
      PROVE  FALSE
  <2>1. j \in DOMAIN Entries /\ Entries[j].op = "DELETE" /\ Entries[j].name = k /\ j <= Current
    BY <1>3, <1>7 DEF IsDelete
  <2>2. PICK q \in DOMAIN Entries :
          /\ q < j /\ IsPut(Entries[q], Playlist)
          /\ \A r \in DOMAIN Entries : r >= q /\ IsPut(Entries[r], Playlist) =>
               \A m \in Entries[r].content : m >= k + 2
    BY <1>0, <2>1 DEF StreamInv
  <2>3. q \in DOMAIN log /\ q < Current
    BY <1>3, <1>7, <2>1, <2>2
  <2>4. ~(p >= q)
    <3>1. p \in DOMAIN Entries /\ IsPut(Entries[p], Playlist) /\ k \in Entries[p].content
      BY <1>1, <1>2, <1>3
    <3>2. ~(k >= k + 2)
      BY <1>1
    <3> QED BY <2>2, <3>1, <3>2
  <2>5. p < q
    BY <1>3, <2>2, <2>4
  <2> QED BY <1>0, <1>2, <1>3, <2>2, <2>3, <2>5, LaterPlaylist
<1>8. log[i].op = "PUT" /\ log[i].name = k
  BY <1>5 DEF IsPut
<1> QED BY <1>0, <1>6, <1>7, <1>8 DEF LastInv

(***************************************************************************)
(* Unless the publishing point is cleared at every start of glassconv:     *)
(* every segment of the published playlist is there, unless its own upload *)
(* or that of a newer playlist was refused, or the stream is taken down.   *)
(***************************************************************************)
THEOREM ListenersFindSegments ==
  ASSUME ~Preclean
  PROVE  Spec => []PlaylistResolves
<1>1. StreamsInv => PlaylistResolves
  BY PublishedResolves
<1> QED BY <1>1, Invariance, PTL

\* Why a segment that goes was out of the playlist.
LEMMA DeletedLate ==
  ASSUME ~Preclean, StreamsInv, [Next]_vars,
         NEW k \in DOMAIN pub \ ({Playlist} \cup DOMAIN pub')
  PROVE  stopping \/ PutFailed(Playlist) \/ \A j \in Listed : j >= k + 2
<1> SUFFICES ASSUME ~stopping, ~PutFailed(Playlist), NEW m \in Listed
             PROVE  m >= k + 2
  OBVIOUS
<1>0. TypeOK /\ SpoolInv /\ LastInv /\ StreamInv /\ QueueInv
  BY DEF StreamsInv, QueueInv, EndInv
<1>1. Playlist \in DOMAIN pub /\ m \in pub[Playlist]
  BY DEF Listed
<1>2. Done
  BY <1>0, QueueSteps DEF SameQueue, Pushed, Popped
<1>3. /\ Current \in DOMAIN log /\ log[Current].op = "DELETE" /\ log[Current].name = k
  <2>1. /\ Current \in DOMAIN log /\ Head(spool) = log[Current]
        /\ Head(spool) \in EventType
    BY <1>0, <1>2, CurrentEntry DEF Done
  <2>2. pub' = Effect(pub, log[Current]) /\ log[Current].op \in {"PUT", "DELETE"}
    BY <1>2, <2>1 DEF Done, EventType
  <2> QED BY <2>1, <2>2 DEF Effect, Without
<1>4. PICK p \in applied :
        /\ IsPut(log[p], Playlist) /\ log[p].content = pub[Playlist]
        /\ \A j \in applied : j > p => log[j].name # Playlist
  BY <1>0, <1>1 DEF LastInv
<1>5. /\ Len(log) \in Nat /\ DOMAIN log = 1 .. Len(log)
      /\ \A i \in applied : i \in DOMAIN log
      /\ \A i \in DOMAIN log : i \in DOMAIN Entries /\ Entries[i] = log[i]
      /\ DOMAIN Entries \subseteq Nat /\ 0 \notin DOMAIN Entries
  <2>1. /\ \A i \in DOMAIN log : i \in DOMAIN Entries /\ Entries[i] = log[i]
        /\ DOMAIN Entries = 1 .. Len(log) + Len(toPush) /\ Len(toPush) \in Nat
        /\ Len(log) \in Nat /\ DOMAIN log = 1 .. Len(log)
    BY <1>0, EntriesAre
  <2> HIDE DEF Entries
  <2> QED BY <1>0, <2>1 DEF SpoolInv
<1> HIDE DEF Entries
<1>6. PICK q \in DOMAIN Entries :
        /\ q < Current /\ IsPut(Entries[q], Playlist)
        /\ \A r \in DOMAIN Entries : r >= q /\ IsPut(Entries[r], Playlist) =>
             \A j \in Entries[r].content : j >= k + 2
  BY <1>0, <1>3, <1>5 DEF StreamInv
<1>7. q \in DOMAIN log
  BY <1>3, <1>5, <1>6
<1>8. p >= q
  <2>1. ~(p < q)
    BY <1>0, <1>4, <1>5, <1>6, <1>7, LaterPlaylist
  <2> QED BY <1>5, <1>7, <2>1
<1> QED BY <1>1, <1>4, <1>5, <1>6, <1>8

(***************************************************************************)
(* Unless the publishing point is cleared at every start of glassconv: a   *)
(* segment disappears only when it has been out of the playlist for a      *)
(* whole cut.                                                              *)
(***************************************************************************)
THEOREM DeletesLagBehind ==
  ASSUME ~Preclean
  PROVE  Spec => KeepsOneGeneration
<1>1. StreamsInv /\ [Next]_vars =>
        [\A k \in DOMAIN pub \ ({Playlist} \cup DOMAIN pub') :
           stopping \/ PutFailed(Playlist) \/ \A j \in Listed : j >= k + 2]_vars
  BY DeletedLate
<1> QED BY <1>1, Invariance, PTL DEF Spec, KeepsOneGeneration

\* Why nothing is left at the end.
LEMMA EndIsTakenDown ==
  ASSUME StreamsInv
  PROVE  TakenDown
<1> SUFFICES ASSUME coder = "stopped", ~NoDeletes, NEW n \in DOMAIN pub
             PROVE  DeleteFailed(n)
  BY DEF TakenDown
<1>0. TypeOK /\ SpoolInv /\ LastInv /\ EndInv
  BY DEF StreamsInv, QueueInv
<1>1. Ending /\ stopping
  BY <1>0 DEF EndInv, Ending
<1>2. PICK s \in DOMAIN Entries :
        /\ IsStop(s) /\ s \in DOMAIN log /\ s <= Current /\ \A i \in applied : i < s
  BY <1>0, <1>1 DEF EndInv
<1>3. PICK i \in applied :
        /\ IsPut(log[i], n) /\ \A j \in applied : j > i => log[j].name # n
  BY <1>0 DEF LastInv
<1>4. /\ Len(log) \in Nat /\ DOMAIN log = 1 .. Len(log) /\ Current \in Nat
      /\ i \in DOMAIN log
      /\ \A j \in DOMAIN log : j \in DOMAIN Entries /\ Entries[j] = log[j]
      /\ DOMAIN Entries \subseteq Nat /\ 0 \notin DOMAIN Entries
  <2>1. /\ \A j \in DOMAIN log : j \in DOMAIN Entries /\ Entries[j] = log[j]
        /\ DOMAIN Entries = 1 .. Len(log) + Len(toPush) /\ Len(toPush) \in Nat
        /\ Len(log) \in Nat /\ DOMAIN log = 1 .. Len(log)
    BY <1>0, EntriesAre
  <2>2. Current \in Nat
    BY <1>0, CurrentEntry
  <2> HIDE DEF Entries
  <2> QED BY <1>0, <2>1, <2>2 DEF SpoolInv
<1> HIDE DEF Entries
<1>5. PICK j \in DOMAIN Entries : i < j /\ j < s /\ IsDelete(Entries[j], n)
  BY <1>2, <1>3, <1>4 DEF IsStop, IsPut
<1>6. j \in DOMAIN log /\ IsDelete(log[j], n) /\ j \in 1 .. Current - 1
  <2>1. j \in DOMAIN log /\ j \in 1 .. Current - 1
    BY <1>2, <1>4, <1>5
  <2> QED BY <1>4, <1>5, <2>1
<1>7. j \notin applied
  BY <1>3, <1>5, <1>6 DEF IsDelete
<1> QED BY <1>6, <1>7 DEF DeleteFailed, GivenUp, IsDelete

(***************************************************************************)
(* Unless the publishing point is cleared at every start of glassconv:     *)
(* after a normal end of glasscoder only what the publishing point refused *)
(* to delete is left there.                                                *)
(***************************************************************************)
THEOREM NothingIsLeft ==
  ASSUME ~Preclean
  PROVE  Spec => []TakenDown
<1>1. StreamsInv => TakenDown
  BY EndIsTakenDown
<1> QED BY <1>1, Invariance, PTL

===============================================================================
