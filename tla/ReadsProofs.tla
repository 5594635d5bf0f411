------------------------------ MODULE ReadsProofs ------------------------------
(***************************************************************************)
(* Proofs about modules AuditViewer and Pages, for every value of their    *)
(* constants: which rows of the log a query selects and in what order, and *)
(* what the answers made of several queries have to do with one another    *)
(* while the registry moves on.  All rest on the invariant of              *)
(* RegistryProofs and on the log never losing a row.                       *)
(***************************************************************************)
EXTENDS Pages, AuditTrailProofs

-------------------------------------------------------------------------------
(* Sets of numbers.                                                          *)

\* The greatest number of a bounded set.
LEMMA MaxOfBounded ==
    ASSUME NEW b \in Nat, NEW T \in SUBSET 0..b, T # {}
    PROVE  Max(T) \in T /\ \A y \in T : y <= Max(T)
<1>1. \E x \in T : \A y \in T : x >= y
  <2>1. PICK x \in T : \A y \in T : y <= x
    BY GreatestNat
  <2>2. \A y \in T : x >= y
    BY <2>1
  <2>3. QED
    BY <2>2
<1>2. Max(T) \in T /\ \A y \in T : Max(T) >= y
  BY <1>1 DEF Max
<1>3. QED
  BY <1>2

\* The lesser of two numbers.
LEMMA MinOfTwo ==
    ASSUME NEW a \in Nat, NEW b \in Nat
    PROVE  Min({a, b}) = IF a <= b THEN a ELSE b
<1>1. \A x \in {a, b} : (\A y \in {a, b} : x <= y) <=> x = IF a <= b THEN a ELSE b
  OBVIOUS
<1>2. QED
  BY <1>1 DEF Min

-------------------------------------------------------------------------------
(* Texts. *)

\* TEXT is ordered like a dictionary: no text is before itself, and what is before
\* a text is before those that come after that.
LEMMA TextOrder ==
    /\ \A a \in Seq(Nat) : ~TextLess(a, a)
    /\ \A a, b, c \in Seq(Nat) : TextLess(a, b) /\ TextLess(b, c) => TextLess(a, c)
<1>1. ASSUME NEW a \in Seq(Nat) PROVE ~TextLess(a, a)
  BY DEF TextLess
<1>2. ASSUME NEW a \in Seq(Nat), NEW b \in Seq(Nat), NEW c \in Seq(Nat),
             TextLess(a, b), TextLess(b, c)
      PROVE  TextLess(a, c)
  <2>1. PICK n \in 1..Len(b) : /\ \A m \in 1..(n - 1) : m <= Len(a) /\ a[m] = b[m]
                               /\ n > Len(a) \/ a[n] < b[n]
    BY <1>2 DEF TextLess
  <2>2. PICK k \in 1..Len(c) : /\ \A m \in 1..(k - 1) : m <= Len(b) /\ b[m] = c[m]
                               /\ k > Len(b) \/ b[k] < c[k]
    BY <1>2 DEF TextLess
  <2>3. CASE n < k
    <3>1. n \in 1..Len(c) /\ b[n] = c[n]
      BY <2>2, <2>3
    <3>2. \A m \in 1..(n - 1) : m <= Len(a) /\ a[m] = c[m]
      BY <2>1, <2>2, <2>3
    <3>3. n > Len(a) \/ a[n] < c[n]
      BY <2>1, <3>1
    <3>4. QED
      BY <3>1, <3>2, <3>3 DEF TextLess
  <2>4. CASE n = k
    <3>1. \A m \in 1..(n - 1) : m <= Len(a) /\ a[m] = c[m]
      BY <2>1, <2>2, <2>4
    <3>2. n > Len(a) \/ a[n] < c[n]
      <4>1. CASE n > Len(a)
        BY <4>1
      <4>2. CASE n <= Len(a)
        <5>1. a[n] \in Nat /\ b[n] \in Nat /\ c[n] \in Nat
          <6>1. n \in 1..Len(a) /\ n \in 1..Len(b) /\ n \in 1..Len(c)
            BY <2>4, <4>2
          <6>2. QED
            BY <6>1
        <5>2. a[n] < b[n] /\ b[n] < c[n]
          BY <2>1, <2>2, <2>4, <4>2
        <5>3. \A x, y, z \in Nat : x < y /\ y < z => x < z
          OBVIOUS
        <5>4. QED
          BY <5>1, <5>2, <5>3, Zenon
      <4>3. QED
        BY <4>1, <4>2
    <3>3. QED
      BY <2>2, <2>4, <3>1, <3>2 DEF TextLess
  <2>5. CASE k < n
    <3>1. k <= Len(a) /\ a[k] = b[k] /\ b[k] < c[k]
      BY <2>1, <2>2, <2>5
    <3>2. \A m \in 1..(k - 1) : m <= Len(a) /\ a[m] = c[m]
      BY SMTT(30), <2>1, <2>2, <2>5
    <3>3. QED
      BY <3>1, <3>2 DEF TextLess
  <2>6. QED
    BY <2>3, <2>4, <2>5
<1>3. QED
  BY <1>1, <1>2

\* Of two different texts one is before the other: they differ at a first place.
LEMMA TextTotal ==
    ASSUME NEW a \in Seq(Nat), NEW b \in Seq(Nat), a # b
    PROVE  TextLess(a, b) \/ TextLess(b, a)
<1> DEFINE Same(n) == n <= Len(a) /\ n <= Len(b) /\ a[n] = b[n]
           apart == {n \in Nat \ {0} : ~Same(n) /\ (n <= Len(a) \/ n <= Len(b))}
<1>1. apart # {}
  <2>1. CASE Len(a) = Len(b)
    <3>1. PICK n \in 1..Len(a) : a[n] # b[n]
      BY <2>1
    <3>2. n \in apart
      BY <2>1, <3>1
    <3>3. QED
      BY <3>2
  <2>2. CASE Len(a) < Len(b)
    <3>1. Len(b) \in apart
      BY <2>2
    <3>2. QED
      BY <3>1
  <2>3. CASE Len(b) < Len(a)
    <3>1. Len(a) \in apart
      BY <2>3
    <3>2. QED
      BY <3>1
  <2>4. QED
    BY <2>1, <2>2, <2>3
<1>2. PICK n \in apart : \A m \in apart : n <= m
  <2>1. apart \in SUBSET Nat
    OBVIOUS
  <2> HIDE DEF apart
  <2>2. QED
    BY <1>1, <2>1, LeastNat
<1>3. \A m \in 1..(n - 1) : Same(m)
  <2>1. ASSUME NEW m \in 1..(n - 1) PROVE Same(m)
    <3>1. m \notin apart /\ (m <= Len(a) \/ m <= Len(b))
      BY <1>2
    <3>2. QED
      BY <3>1
  <2>2. QED
    BY <2>1
<1> HIDE DEF apart
<1>4. CASE n > Len(a)
  <2>1. n \in 1..Len(b)
    BY <1>4 DEF apart
  <2>2. \A m \in 1..(n - 1) : m <= Len(a) /\ a[m] = b[m]
    BY <1>3
  <2>3. QED
    BY <1>4, <2>1, <2>2 DEF TextLess
<1>5. CASE n > Len(b)
  <2>1. n \in 1..Len(a)
    BY <1>5 DEF apart
  <2>2. \A m \in 1..(n - 1) : m <= Len(b) /\ b[m] = a[m]
    BY <1>3
  <2>3. QED
    BY <1>5, <2>1, <2>2 DEF TextLess
<1>6. CASE n <= Len(a) /\ n <= Len(b)
  <2>1. n \in 1..Len(a) /\ n \in 1..Len(b) /\ a[n] \in Nat /\ b[n] \in Nat /\ a[n] # b[n]
    BY <1>6 DEF apart
  <2>2. \A m \in 1..(n - 1) : m <= Len(a) /\ m <= Len(b) /\ a[m] = b[m]
    BY <1>3
  <2>3. a[n] < b[n] \/ b[n] < a[n]
    BY <2>1
  <2>4. CASE a[n] < b[n]
    BY <2>1, <2>2, <2>4 DEF TextLess
  <2>5. CASE b[n] < a[n]
    <3>1. \A m \in 1..(n - 1) : m <= Len(b) /\ b[m] = a[m]
      BY <2>2
    <3>2. QED
      BY <2>1, <2>5, <3>1 DEF TextLess
  <2>6. QED
    BY <2>3, <2>4, <2>5
<1>7. QED
  BY <1>4, <1>5, <1>6 DEF apart

\* Division with remainder, and its bound.
LEMMA Division ==
    \A t \in Nat, k \in Nat \ {0} :
        /\ t \div k \in Nat
        /\ t % k \in 0..(k - 1)
        /\ t = k * (t \div k) + (t % k)
        /\ \A l \in Nat : t < l * k => t \div k < l
<1>1. \A t \in Nat, k \in Nat \ {0} : t \div k \in Nat
  OBVIOUS
<1>2. \A t \in Nat, k \in Nat \ {0} : t % k \in 0..(k - 1)
  OBVIOUS
<1>3. \A t \in Nat, k \in Nat \ {0} : t = k * (t \div k) + (t % k)
  OBVIOUS
<1>4. \A q, r, l, k \in Nat : k > 0 /\ k * q + r < l * k => q < l
  OBVIOUS
<1>5. ASSUME NEW t \in Nat, NEW k \in Nat \ {0}, NEW l \in Nat, t < l * k PROVE t \div k < l
  <2>1. k * (t \div k) + (t % k) < l * k
    BY <1>3, <1>5
  <2>2. t \div k \in Nat /\ t % k \in Nat
    BY <1>1, <1>2
  <2>3. QED
    BY <1>4, <2>1, <2>2
<1>6. QED
  BY <1>1, <1>2, <1>3, <1>5

\* The clock never shows a day after LastDay, and the second of an instant is told by
\* its day and the second of that day.
LEMMA Calendar ==
    ASSUME NEW t \in Instant
    PROVE  /\ SecondOf(t) \in Nat
           /\ DayOf(t) \in 1..LastDay
           /\ SecondOf(t) % SecondsPerDay \in 0..(SecondsPerDay - 1)
           /\ SecondOf(t) = SecondsPerDay * (DayOf(t) - 1) + (SecondOf(t) % SecondsPerDay)
<1> USE ViewerAssumption
<1>1. t \in Nat /\ t < (LastDay * SecondsPerDay) * Base ^ Width
  BY DEF Instant
<1>2. LastDay * SecondsPerDay \in Nat
  OBVIOUS
<1>3. SecondOf(t) \in Nat /\ SecondOf(t) < LastDay * SecondsPerDay
  <2> DEFINE p == Base ^ Width
             l == LastDay * SecondsPerDay
  <2>1. p \in Nat \ {0} /\ l \in Nat /\ t \in Nat
    BY <1>1, <1>2
  <2>2. t < l * p
    BY <1>1
  <2>3. SecondOf(t) = t \div p
    BY DEF SecondOf
  <2> HIDE DEF p, l
  <2>4. t \div p \in Nat /\ t \div p < l
    BY <2>1, <2>2, Division
  <2>5. QED
    BY <2>3, <2>4 DEF l
<1> DEFINE s == SecondOf(t)
<1> HIDE DEF s
<1>4. s \div SecondsPerDay \in Nat /\ s \div SecondsPerDay < LastDay
  BY <1>3, Division DEF s
<1>5. DayOf(t) = 1 + s \div SecondsPerDay
  BY DEF DayOf, s
<1>6. s = SecondsPerDay * (s \div SecondsPerDay) + (s % SecondsPerDay)
      /\ s % SecondsPerDay \in 0..(SecondsPerDay - 1)
  BY <1>3, Division DEF s
<1>7. DayOf(t) - 1 = s \div SecondsPerDay
  BY <1>4, <1>5
<1>8. DayOf(t) \in 1..LastDay
  BY <1>4, <1>5
<1>9. SecondOf(t) = SecondsPerDay * (DayOf(t) - 1) + (SecondOf(t) % SecondsPerDay)
  BY <1>6, <1>7, Zenon DEF s
<1>10. QED
  BY <1>3, <1>6, <1>8, <1>9, Zenon DEF s

\* What is left of the fraction is a sequence of digits.
LEMMA FractionType == ASSUME NEW t \in Nat PROVE Fraction(t) \in Seq(Nat)
<1> USE ViewerAssumption
<1> DEFINE T == {0} \cup {i \in 1..Width : Digits(t)[i] # 0}
<1>1. Digits(t) \in [1..Width -> Nat]
  <2>1. ASSUME NEW i \in 1..Width PROVE (t \div Base ^ (Width - i)) % Base \in Nat
    <3>1. Width - i \in 0..Width
      OBVIOUS
    <3>2. Base ^ (Width - i) \in Nat \ {0}
      BY <3>1
    <3>3. t \div Base ^ (Width - i) \in Nat
      BY <3>2, Division
    <3>4. QED
      BY <3>3, Division
  <2>2. QED
    BY <2>1 DEF Digits
<1>2. Max(T) \in 0..Width
  <2>1. T \in SUBSET 0..Width /\ T # {}
    OBVIOUS
  <2> HIDE DEF T
  <2>2. QED
    BY <2>1, MaxOfBounded
<1>3. SubSeq(Digits(t), 1, Max(T)) \in Seq(Nat)
  <2>1. Digits(t) \in Seq(Nat) /\ Len(Digits(t)) = Width
    BY <1>1
  <2> HIDE DEF T
  <2>2. QED
    BY <1>2, <2>1
<1>4. QED
  BY <1>3 DEF Fraction

\* A timestamp begins with its day and its second.
LEMMA TextBegins ==
    ASSUME NEW t \in Times
    PROVE  /\ t \in Instant
           /\ Text[t] \in Seq(Nat)
           /\ Len(Text[t]) >= 2
           /\ Text[t][1] = DayOf(t)
           /\ Text[t][2] = SecondOf(t) % SecondsPerDay
<1> USE ViewerAssumption
<1> DEFINE s == SecondOf(t) % SecondsPerDay
           f == Fraction(t)
<1>1. t \in Instant
  OBVIOUS
<1>2. DayText(DayOf(t)) = DayOf(t) /\ DayOf(t) \in Nat /\ s \in Nat
  BY <1>1, Calendar DEF DayText
<1>3. f \in Seq(Nat)
  BY <1>1, FractionType DEF Instant
<1>4. Text[t] = <<DayOf(t), s>> \o f \o <<Z>>
  BY <1>2 DEF Text, Format
<1>5. Z \in Nat
  BY DEF Z
<1> HIDE DEF s, f
<1>6. QED
  BY <1>1, <1>2, <1>3, <1>4, <1>5 DEF s

-------------------------------------------------------------------------------
(* The order of the rows of a log that is stamped.                            *)

\* The text of a row is that of its stamp.
LEMMA RowText ==
    ASSUME stamps \in Seq(Times), NEW i \in DOMAIN stamps
    PROVE  /\ stamps[i] \in Times
           /\ OccurredAt(i) = Text[stamps[i]]
           /\ OccurredAt(i) \in Seq(Nat)
<1>1. stamps[i] \in Times
  OBVIOUS
<1>2. QED
  BY <1>1, TextBegins DEF OccurredAt

\* The rows are strictly ordered, and any two of them are: equal texts are told
\* apart by the ids.
LEMMA RowOrder ==
    ASSUME stamps \in Seq(Times)
    PROVE  /\ \A i \in DOMAIN stamps : ~SortsBefore(i, i)
           /\ \A i, j, k \in DOMAIN stamps :
                 SortsBefore(i, j) /\ SortsBefore(j, k) => SortsBefore(i, k)
           /\ \A i, j \in DOMAIN stamps : i # j => SortsBefore(i, j) \/ SortsBefore(j, i)
<1>1. DOMAIN stamps \in SUBSET Nat
  OBVIOUS
<1>2. ASSUME NEW i \in DOMAIN stamps PROVE ~SortsBefore(i, i)
  BY <1>1, RowText, TextOrder DEF SortsBefore
<1>3. ASSUME NEW i \in DOMAIN stamps, NEW j \in DOMAIN stamps, NEW k \in DOMAIN stamps,
             SortsBefore(i, j), SortsBefore(j, k)
      PROVE  SortsBefore(i, k)
  <2>1. /\ OccurredAt(i) \in Seq(Nat) /\ OccurredAt(j) \in Seq(Nat) /\ OccurredAt(k) \in Seq(Nat)
        /\ i \in Nat /\ j \in Nat /\ k \in Nat
    BY <1>1, RowText
  <2>2. QED
    BY <1>3, <2>1, TextOrder DEF SortsBefore
<1>4. ASSUME NEW i \in DOMAIN stamps, NEW j \in DOMAIN stamps, i # j
      PROVE  SortsBefore(i, j) \/ SortsBefore(j, i)
  <2>1. i \in Nat /\ j \in Nat
    BY <1>1
  <2>2. CASE OccurredAt(i) = OccurredAt(j)
    BY <1>4, <2>1, <2>2 DEF SortsBefore
  <2>3. CASE OccurredAt(i) # OccurredAt(j)
    BY <2>3, RowText, TextTotal DEF SortsBefore
  <2>4. QED
    BY <2>2, <2>3
<1>5. QED
  BY <1>2, <1>3, <1>4

\* A row that is listed before another is not of an earlier second.
LEMMA RowOrderBySecond ==
    ASSUME stamps \in Seq(Times), NEW i \in DOMAIN stamps, NEW j \in DOMAIN stamps,
           SortsBefore(i, j)
    PROVE  SecondOf(stamps[i]) >= SecondOf(stamps[j])
<1> USE ViewerAssumption
<1> DEFINE u == stamps[i]
           v == stamps[j]
<1>1. /\ u \in Instant /\ v \in Instant
      /\ OccurredAt(i) = Text[u] /\ OccurredAt(j) = Text[v]
      /\ Len(Text[u]) \in Nat /\ Len(Text[v]) \in Nat
      /\ Len(Text[u]) >= 2 /\ Len(Text[v]) >= 2
      /\ Text[u][1] = DayOf(u) /\ Text[v][1] = DayOf(v)
      /\ Text[u][2] = SecondOf(u) % SecondsPerDay
      /\ Text[v][2] = SecondOf(v) % SecondsPerDay
  <2>1. u \in Times /\ v \in Times /\ OccurredAt(i) = Text[u] /\ OccurredAt(j) = Text[v]
    BY RowText
  <2> HIDE DEF u, v
  <2>2. /\ u \in Instant /\ Text[u] \in Seq(Nat) /\ Len(Text[u]) >= 2
        /\ Text[u][1] = DayOf(u) /\ Text[u][2] = SecondOf(u) % SecondsPerDay
    BY <2>1, TextBegins, Zenon
  <2>3. /\ v \in Instant /\ Text[v] \in Seq(Nat) /\ Len(Text[v]) >= 2
        /\ Text[v][1] = DayOf(v) /\ Text[v][2] = SecondOf(v) % SecondsPerDay
    BY <2>1, TextBegins, Zenon
  <2>4. Len(Text[u]) \in Nat /\ Len(Text[v]) \in Nat
    BY SMTT(30), <2>2, <2>3
  <2>5. QED
    BY <2>1, <2>2, <2>3, <2>4, Zenon
<1> HIDE DEF u, v
<1> DEFINE p == DayOf(u) - 1
           q == DayOf(v) - 1
           r == SecondOf(u) % SecondsPerDay
           s == SecondOf(v) % SecondsPerDay
<1>2. /\ p \in Nat /\ q \in Nat /\ r \in 0..(SecondsPerDay - 1) /\ s \in 0..(SecondsPerDay - 1)
      /\ SecondOf(u) = SecondsPerDay * p + r
      /\ SecondOf(v) = SecondsPerDay * q + s
      /\ DayOf(u) = p + 1 /\ DayOf(v) = q + 1
  <2>1. ASSUME NEW w \in Instant
        PROVE  /\ DayOf(w) - 1 \in Nat /\ DayOf(w) = (DayOf(w) - 1) + 1
               /\ SecondOf(w) % SecondsPerDay \in 0..(SecondsPerDay - 1)
               /\ SecondOf(w) = SecondsPerDay * (DayOf(w) - 1) + (SecondOf(w) % SecondsPerDay)
    <3>1. DayOf(w) \in 1..LastDay
      BY Calendar
    <3>2. DayOf(w) - 1 \in Nat /\ DayOf(w) = (DayOf(w) - 1) + 1
      BY <3>1
    <3>3. QED
      BY <3>2, Calendar
  <2>2. QED
    BY <1>1, <2>1
<1>3. q < p \/ (q = p /\ s <= r)
  <2>1. CASE OccurredAt(i) = OccurredAt(j)
    <3>1. DayOf(u) = DayOf(v) /\ r = s
      BY <1>1, <2>1
    <3>2. QED
      BY <1>2, <3>1
  <2>2. CASE TextLess(Text[v], Text[u])
    <3>1. PICK n \in 1..Len(Text[u]) :
             /\ \A m \in 1..(n - 1) : m <= Len(Text[v]) /\ Text[v][m] = Text[u][m]
             /\ n > Len(Text[v]) \/ Text[v][n] < Text[u][n]
      BY <2>2 DEF TextLess
    <3>2. CASE n = 1
      <4>1. DayOf(v) < DayOf(u)
        BY <1>1, <3>1, <3>2
      <4>2. QED
        BY <1>2, <4>1
    <3>3. CASE n = 2
      <4>1. DayOf(v) = DayOf(u) /\ s < r
        BY <1>1, <3>1, <3>3
      <4>2. QED
        BY <1>2, <4>1
    <3>4. CASE n > 2
      <4>1. DayOf(v) = DayOf(u) /\ s = r
        BY <1>1, <3>1, <3>4
      <4>2. QED
        BY <1>2, <4>1
    <3>5. QED
      BY <1>1, <3>1, <3>2, <3>3, <3>4
  <2>3. QED
    BY <1>1, <2>1, <2>2 DEF SortsBefore
<1> HIDE DEF p, q, r, s
<1>4. q < p => SecondsPerDay * q + s < SecondsPerDay * p + r
  <2>1. ASSUME q < p PROVE SecondsPerDay * q + s < SecondsPerDay * p + r
    <3>1. SecondsPerDay * (q + 1) <= SecondsPerDay * p
      BY <1>2, <2>1
    <3>2. SecondsPerDay * (q + 1) = SecondsPerDay * q + SecondsPerDay
      BY <1>2
    <3>3. SecondsPerDay * q \in Nat /\ SecondsPerDay * p \in Nat
      BY <1>2
    <3>4. QED
      BY <1>2, <3>1, <3>2, <3>3
  <2>2. QED
    BY <2>1
<1>5. SecondOf(u) >= SecondOf(v)
  <2>1. SecondsPerDay * q \in Nat /\ SecondsPerDay * p \in Nat
    BY <1>2
  <2>2. QED
    BY <1>2, <1>3, <1>4, <2>1
<1>6. QED
  BY <1>5 DEF u, v

\* Sorted lists every row of a set once, each before those that sort after it.
LEMMA SortedList ==
    ASSUME stamps \in Seq(Times), NEW M \in SUBSET DOMAIN stamps
    PROVE  /\ Cardinality(M) \in Nat
           /\ Sorted(M) \in [1..Cardinality(M) -> M]
           /\ \A i \in M : \E n \in 1..Cardinality(M) : Sorted(M)[n] = i
           /\ \A m, n \in 1..Cardinality(M) :
                 m < n => SortsBefore(Sorted(M)[m], Sorted(M)[n])
<1> DEFINE before(i) == {j \in M : SortsBefore(j, i)}
           place == [i \in M |-> 1 + Cardinality(before(i))]
           c == Cardinality(M)
<1>1. IsFiniteSet(M) /\ c \in Nat
  <2>1. DOMAIN stamps = 1..Len(stamps) /\ Len(stamps) \in Nat
    OBVIOUS
  <2>2. IsFiniteSet(DOMAIN stamps)
    BY <2>1, FS_Interval
  <2>3. IsFiniteSet(M)
    BY <2>2, FS_Subset
  <2>4. QED
    BY <2>3, FS_CardinalityType
<1>2. ASSUME NEW i \in M
      PROVE  IsFiniteSet(before(i)) /\ Cardinality(before(i)) \in 0..(c - 1)
  <2>1. before(i) \in SUBSET M /\ before(i) # M
    BY RowOrder
  <2> HIDE DEF before
  <2>2. IsFiniteSet(before(i)) /\ Cardinality(before(i)) <= c /\ Cardinality(before(i)) # c
    BY <1>1, <2>1, FS_Subset
  <2>3. Cardinality(before(i)) \in Nat
    BY <2>2, FS_CardinalityType
  <2>4. QED
    BY <1>1, <2>2, <2>3
<1>3. ASSUME NEW i \in M, NEW j \in M, SortsBefore(i, j) PROVE place[i] < place[j]
  <2>1. before(i) \in SUBSET before(j) /\ before(i) # before(j)
    BY <1>3, RowOrder
  <2>2. IsFiniteSet(before(j)) /\ Cardinality(before(i)) \in Nat /\ Cardinality(before(j)) \in Nat
    <3>1. /\ IsFiniteSet(before(j))
          /\ Cardinality(before(i)) \in 0..(c - 1) /\ Cardinality(before(j)) \in 0..(c - 1)
      BY <1>2
    <3> HIDE DEF before
    <3>2. QED
      BY <1>1, <3>1
  <2>3. place[i] = 1 + Cardinality(before(i)) /\ place[j] = 1 + Cardinality(before(j))
    OBVIOUS
  <2> HIDE DEF before, place
  <2>4. Cardinality(before(i)) <= Cardinality(before(j))
        /\ Cardinality(before(i)) # Cardinality(before(j))
    BY <2>1, <2>2, FS_Subset
  <2>5. QED
    BY <2>2, <2>3, <2>4
<1>4. place \in [M -> 1..c]
  <2>1. ASSUME NEW i \in M PROVE 1 + Cardinality(before(i)) \in 1..c
    <3>1. Cardinality(before(i)) \in 0..(c - 1)
      BY <1>2
    <3> HIDE DEF before
    <3>2. QED
      BY <1>1, <3>1
  <2>2. QED
    BY <2>1
<1>5. Sorted(M) = [n \in 1..c |-> CHOOSE i \in M : place[i] = n]
  BY DEF Sorted
<1> HIDE DEF place
<1>6. ASSUME NEW i \in M, NEW j \in M, place[i] = place[j] PROVE i = j
  <2>1. place[i] \in Nat /\ place[j] \in Nat
    BY <1>1, <1>4
  <2>2. CASE i # j
    BY <1>3, <1>6, <2>1, <2>2, RowOrder
  <2>3. QED
    BY <2>2
<1>7. \A n \in 1..c : \E i \in M : place[i] = n
  <2>1. place \in Injection(M, 1..c)
    BY <1>4, <1>6 DEF Injection, IsInjective
  <2>2. IsFiniteSet(1..c) /\ Cardinality(1..c) = c
    BY <1>1, FS_Interval
  <2> HIDE DEF c
  <2>3. Cardinality(M) = Cardinality(1..c) => place \in Surjection(M, 1..c)
    BY <2>1, <2>2, FS_Injection
  <2>4. place \in Surjection(M, 1..c)
    BY <2>2, <2>3 DEF c
  <2>5. QED
    BY <2>4 DEF Surjection
<1>8. \A n \in 1..c : Sorted(M)[n] \in M /\ place[Sorted(M)[n]] = n
  BY <1>5, <1>7
<1>9. Sorted(M) \in [1..c -> M]
  BY <1>5, <1>8
<1>10. ASSUME NEW i \in M PROVE \E n \in 1..c : Sorted(M)[n] = i
  <2>1. place[i] \in 1..c
    BY <1>4
  <2>2. Sorted(M)[place[i]] = i
    BY <1>6, <1>8, <2>1
  <2>3. QED
    BY <2>1, <2>2
<1>11. ASSUME NEW m \in 1..c, NEW n \in 1..c, m < n
       PROVE  SortsBefore(Sorted(M)[m], Sorted(M)[n])
  <2> DEFINE i == Sorted(M)[m]
             j == Sorted(M)[n]
  <2>1. i \in M /\ j \in M /\ place[i] = m /\ place[j] = n
    BY <1>8
  <2> HIDE DEF i, j
  <2>2. i # j /\ ~SortsBefore(j, i)
    BY <1>1, <1>3, <1>11, <2>1
  <2>3. SortsBefore(i, j)
    BY <2>1, <2>2, RowOrder
  <2>4. QED
    BY <2>3 DEF i, j
<1>12. QED
  BY <1>1, <1>9, <1>10, <1>11

-------------------------------------------------------------------------------
(* The log underneath: every row has its stamp, and none is lost.             *)

\* The log moves on by whole rows, at its end.
LogMoves ==
    /\ Len(db'.audit) \in {Len(db.audit), Len(db.audit) + 1}
    /\ DOMAIN db.audit \subseteq DOMAIN db'.audit
    /\ \A n \in DOMAIN db.audit : db'.audit[n] = db.audit[n]

LEMMA LogMovesStep == IInv /\ [Next]_db => LogMoves
<1> SUFFICES ASSUME IInv, [Next]_db PROVE LogMoves
  OBVIOUS
<1>1. CASE UNCHANGED db
  BY <1>1 DEF LogMoves
<1>2. ASSUME NEW a \in Actor, SignIn(a) \/ Write(a) PROVE LogMoves
  <2>1. CASE OnlyConsumes
    BY <2>1 DEF OnlyConsumes, KeepsTables, LogMoves
  <2>2. ASSUME NEW row, Appends(row) PROVE LogMoves
    <3>1. /\ Len(db.audit) \in Nat
          /\ DOMAIN db.audit = 1..Len(db.audit)
          /\ DOMAIN db'.audit = 1..(Len(db.audit) + 1)
          /\ \A n \in DOMAIN db.audit : db'.audit[n] = db.audit[n]
      BY <2>2, LogGrows DEF Appends, IInv
    <3>2. Len(db'.audit) = Len(db.audit) + 1
      <4>1. db.audit \in Seq(AuditRow)
        BY DEF IInv, TypeOK, IsDatabase
      <4>2. QED
        BY <2>2, <4>1 DEF Appends, Logs
    <3>3. QED
      BY <3>1, <3>2 DEF LogMoves
  <2>3. QED
    BY <1>2, <2>1, <2>2, AppendsStep
<1>3. QED
  BY <1>1, <1>2 DEF Next

Stamped == stamps \in Seq(Times) /\ Len(stamps) = Len(db.audit)

\* So stamps and rows have the same indices.
LEMMA StampedRows ==
    ASSUME IInv, Stamped
    PROVE  DOMAIN stamps = DOMAIN db.audit /\ \A q : Matching(q) \in SUBSET DOMAIN stamps
<1>1. DOMAIN db.audit = 1..Len(db.audit)
  BY DEF IInv, TypeOK, IsDatabase
<1>2. DOMAIN stamps = 1..Len(stamps)
  BY DEF Stamped
<1>3. DOMAIN stamps = DOMAIN db.audit
  BY <1>1, <1>2 DEF Stamped
<1>4. QED
  BY <1>3 DEF Matching

\* A write stamps the row it appends, if it appends one.
LEMMA StampedStep ==
    ASSUME IInv, Stamped, NEW t \in Times, Next, Stamp(t)
    PROVE  Stamped'
<1>1. /\ Len(db'.audit) \in {Len(db.audit), Len(db.audit) + 1}
      /\ Len(db.audit) \in Nat
  BY LogMovesStep DEF LogMoves, IInv, TypeOK, IsDatabase
<1>2. CASE Len(db'.audit) = Len(db.audit)
  BY <1>2 DEF Stamp, Stamped
<1>3. CASE Len(db'.audit) = Len(db.audit) + 1
  <2>1. stamps' = Append(stamps, t)
    BY <1>1, <1>3 DEF Stamp
  <2>2. QED
    BY <1>3, <2>1 DEF Stamped
<1>4. QED
  BY <1>1, <1>2, <1>3

-------------------------------------------------------------------------------
(* The query of the log.                                                      *)

\* A limit is at least one row.
LEMMA LimitType == ASSUME NEW n \in Int PROVE AuditLimit(n) \in Nat \ {0}
BY ViewerAssumption DEF AuditLimit

\* ListAudit gives the first rows of the sorted ones, up to the limit.
LEMMA ListAuditRows ==
    ASSUME IInv, Stamped, NEW q, q.limit \in Int
    PROVE  LET M == Matching(q)
               c == Cardinality(M)
               k == IF c <= AuditLimit(q.limit) THEN c ELSE AuditLimit(q.limit)
           IN /\ c \in Nat /\ k \in Nat
              /\ ListAudit(q) \in [1..k -> M]
              /\ Len(ListAudit(q)) = k
              /\ \A n \in 1..k : ListAudit(q)[n] = Sorted(M)[n]
<1> DEFINE M == Matching(q)
           c == Cardinality(M)
           l == AuditLimit(q.limit)
           k == IF c <= l THEN c ELSE l
           rows == Sorted(M)
<1>1. /\ stamps \in Seq(Times)
      /\ M \in SUBSET DOMAIN stamps
  BY StampedRows DEF Stamped
<1>2. l \in Nat
  BY LimitType
<1> HIDE DEF M, l
<1>3. c \in Nat /\ rows \in [1..c -> M]
  BY <1>1, SortedList
<1>4. ListAudit(q) = SubSeq(rows, 1, Min({Len(rows), l}))
  BY DEF ListAudit, M, l
<1> HIDE DEF rows, c
<1>5. rows \in Seq(M) /\ Len(rows) = c
  BY <1>3
<1>6. Min({Len(rows), l}) = k
  BY <1>2, <1>3, <1>5, MinOfTwo
<1>7. k \in Nat /\ k <= c
  BY <1>2, <1>3
<1> HIDE DEF k
<1>8. /\ SubSeq(rows, 1, k) \in [1..k -> M]
      /\ Len(SubSeq(rows, 1, k)) = k
      /\ \A n \in 1..k : SubSeq(rows, 1, k)[n] = rows[n]
  <2>1. Len(SubSeq(rows, 1, k)) = k
    BY <1>5, <1>7
  <2>2. \A n \in 1..k : SubSeq(rows, 1, k)[n] = rows[n]
    BY <1>3, <1>5, <1>7
  <2>3. SubSeq(rows, 1, k) \in Seq(M)
    BY <1>3, <1>5, <1>7
  <2> DEFINE first == SubSeq(rows, 1, k)
  <2> HIDE DEF first
  <2>4. first \in [1..k -> M]
    <3>1. first \in Seq(M) /\ Len(first) = k
      BY <2>1, <2>3 DEF first
    <3>2. QED
      BY <3>1
  <2>5. QED
    BY <2>1, <2>2, <2>4 DEF first
<1>9. QED
  BY <1>3, <1>4, <1>6, <1>7, <1>8 DEF M, c, l, k, rows

\* Comparing a timestamp with a bare day compares its day with that day.
LEMMA DayComparison ==
    ASSUME IInv, Stamped, NEW i \in DOMAIN db.audit, NEW day \in Nat
    PROVE  /\ DayOf(stamps[i]) \in Nat
           /\ TextLess(OccurredAt(i), <<day>>) <=> DayOf(stamps[i]) < day
<1>1. i \in DOMAIN stamps /\ stamps \in Seq(Times)
  BY StampedRows DEF Stamped
<1>2. /\ OccurredAt(i) \in Seq(Nat) /\ Len(OccurredAt(i)) >= 2
      /\ OccurredAt(i)[1] = DayOf(stamps[i]) /\ DayOf(stamps[i]) \in 1..LastDay
  BY <1>1, RowText, TextBegins, Calendar
<1>3. DayOf(stamps[i]) \in Nat
  BY <1>2, ViewerAssumption
<1> DEFINE text == OccurredAt(i)
<1> HIDE DEF text
<1>4. Len(<<day>>) = 1 /\ <<day>>[1] = day
  OBVIOUS
<1>5. TextLess(text, <<day>>) <=> text[1] < day
  <2>1. \A n \in 1..1 : n = 1
    OBVIOUS
  <2>2. ~(1 > Len(text)) /\ \A m \in 1..(1 - 1) : FALSE
    BY <1>2 DEF text
  <2>3. QED
    BY <1>4, <2>1, <2>2 DEF TextLess
<1>6. QED
  BY <1>2, <1>3, <1>5 DEF text

\* The range of days selects the rows of those days.
LEMMA DaysAreExact ==
    ASSUME IInv, Stamped, NEW from \in 0..(LastDay - 1), NEW to \in 0..(LastDay - 1)
    PROVE  Matching(Between(from, to)) = OnDays(from, to)
<1> DEFINE q == Between(from, to)
<1>1. /\ q.entity_type = Blank /\ Trim[q.actor] = Blank
      /\ q.from = from /\ q.to = to
  BY ViewerAssumption DEF Between
<1> HIDE DEF q
<1>2. /\ DayText(from) = from /\ DayText(to + 1) = to + 1
      /\ from \in Nat /\ to \in Nat /\ to + 1 \in Nat
  BY ViewerAssumption DEF DayText
<1>3. ASSUME NEW i \in DOMAIN db.audit
      PROVE  /\ ~TextLess(OccurredAt(i), DayLowerBound(from)) <=> from <= DayOf(stamps[i])
             /\ TextLess(OccurredAt(i), DayUpperBound(to)) <=> DayOf(stamps[i]) <= to
  <2>1. /\ TextLess(OccurredAt(i), <<from>>) <=> DayOf(stamps[i]) < from
        /\ TextLess(OccurredAt(i), <<to + 1>>) <=> DayOf(stamps[i]) < to + 1
        /\ DayOf(stamps[i]) \in Nat
    BY <1>2, DayComparison
  <2>2. DayLowerBound(from) = <<from>> /\ DayUpperBound(to) = <<to + 1>>
    BY <1>2 DEF DayLowerBound, DayUpperBound
  <2>3. QED
    BY <1>2, <2>1, <2>2
<1>4. QED
  BY <1>1, <1>3 DEF Matching, OnDays, q

\* A listing goes back in time, second by second, and its limit cuts off its end.
LEMMA WindowOfNewest ==
    ASSUME IInv, Stamped, NEW q, q.limit \in Int
    PROVE  LET events == ListAudit(q)
               shown == {events[n] : n \in DOMAIN events}
           IN /\ \A m, n \in DOMAIN events :
                    m < n => SecondOf(stamps[events[m]]) >= SecondOf(stamps[events[n]])
              /\ \A i \in Matching(q) \ shown, j \in shown :
                    SecondOf(stamps[i]) <= SecondOf(stamps[j])
              /\ shown # Matching(q) => Len(events) = AuditLimit(q.limit)
<1> DEFINE M == Matching(q)
           c == Cardinality(M)
           l == AuditLimit(q.limit)
           k == IF c <= l THEN c ELSE l
           rows == Sorted(M)
           events == ListAudit(q)
           shown == {events[n] : n \in DOMAIN events}
<1>1. /\ c \in Nat /\ k \in Nat /\ l \in Nat
      /\ events \in [1..k -> M] /\ Len(events) = k
      /\ \A n \in 1..k : events[n] = rows[n]
  BY ListAuditRows, LimitType
<1>2. stamps \in Seq(Times) /\ M \in SUBSET DOMAIN stamps
  BY StampedRows DEF Stamped
<1> HIDE DEF M, l, events
<1>3. /\ rows \in [1..c -> M]
      /\ \A i \in M : \E n \in 1..c : rows[n] = i
      /\ \A m, n \in 1..c : m < n => SortsBefore(rows[m], rows[n])
  BY <1>2, SortedList
<1> HIDE DEF rows, c
<1>4. \A m, n \in 1..c : m < n => SecondOf(stamps[rows[m]]) >= SecondOf(stamps[rows[n]])
  BY <1>2, <1>3, RowOrderBySecond
<1>5. k <= c /\ (k # c => k = l)
  BY <1>1
<1> HIDE DEF k
<1>6. DOMAIN events = 1..k /\ \A n \in 1..k : n \in 1..c
  BY <1>1, <1>5
<1>7. ASSUME NEW m \in DOMAIN events, NEW n \in DOMAIN events, m < n
      PROVE  SecondOf(stamps[events[m]]) >= SecondOf(stamps[events[n]])
  BY <1>1, <1>4, <1>6, <1>7
<1>8. ASSUME NEW i \in M \ shown, NEW j \in shown
      PROVE  SecondOf(stamps[i]) <= SecondOf(stamps[j])
  <2>1. PICK n \in 1..k : j = rows[n]
    BY <1>1, <1>6
  <2>2. PICK m \in 1..c : i = rows[m]
    BY <1>3
  <2>3. m \notin 1..k
    BY <1>1, <1>6, <2>2
  <2>4. n < m /\ n \in 1..c
    BY <1>1, <1>6, <2>1, <2>2, <2>3
  <2>5. SecondOf(stamps[rows[n]]) >= SecondOf(stamps[rows[m]])
    BY <1>4, <2>2, <2>4
  <2>6. /\ SecondOf(stamps[rows[n]]) \in Nat /\ SecondOf(stamps[rows[m]]) \in Nat
    <3>1. rows[n] \in M /\ rows[m] \in M
      BY <1>3, <2>2, <2>4
    <3>2. QED
      BY <1>2, <3>1, RowText, TextBegins, Calendar
  <2>7. QED
    BY <2>1, <2>2, <2>5, <2>6
<1>9. ASSUME shown # M PROVE Len(events) = l
  <2>1. k # c
    <3>1. ASSUME k = c PROVE shown = M
      <4>1. shown \subseteq M
        BY <1>1, <1>6
      <4>2. \A i \in M : i \in shown
        BY <1>1, <1>3, <1>6, <3>1
      <4>3. QED
        BY <4>1, <4>2
    <3>2. QED
      BY <1>9, <3>1
  <2>2. QED
    BY <1>1, <1>5, <2>1
<1>10. QED
  BY <1>7, <1>8, <1>9 DEF M, l, events

-------------------------------------------------------------------------------
(* The audit page and its API.                                                *)

\* A page that has its rows has rows of the log, and once it has its actors too, theirs
\* are among them.
ShownAreOffered ==
    /\ view.at = "opened" => view.q.limit = DefaultAuditLimit
    /\ view.at \in {"listed", "rendered"} =>
          \A n \in DOMAIN view.events : view.events[n] \in DOMAIN db.audit
    /\ view.at = "rendered" =>
          \A n \in DOMAIN view.events : db.audit[view.events[n]].actor.upn \in view.actors

VInv == IInv /\ Stamped /\ ShownAreOffered

LEMMA VInvInit == ViewerInit => VInv
<1> SUFFICES ASSUME ViewerInit PROVE VInv
  OBVIOUS
<1>1. IInv
  BY InitInv DEF ViewerInit
<1>2. Stamped
  BY DEF ViewerInit, Init, EmptyDatabase, Stamped
<1>3. ShownAreOffered
  BY DEF ViewerInit, NoView, ShownAreOffered
<1>4. QED
  BY <1>1, <1>2, <1>3 DEF VInv

\* The rows of an answer are rows of the log.
LEMMA ListedAreLogged ==
    ASSUME IInv, Stamped, NEW q, q.limit \in Int
    PROVE  \A n \in DOMAIN ListAudit(q) : ListAudit(q)[n] \in DOMAIN db.audit
<1>1. \E k : ListAudit(q) \in [1..k -> Matching(q)]
  BY ListAuditRows
<1>2. QED
  BY <1>1 DEF Matching

LEMMA VInvStep == VInv /\ [ViewerNext]_viewerVars => VInv'
<1> SUFFICES ASSUME VInv, [ViewerNext]_viewerVars PROVE VInv'
  OBVIOUS
<1> USE DEF VInv
<1>a. ASSUME UNCHANGED <<db, stamps>> PROVE IInv' /\ Stamped'
  <2>1. [Next]_db
    BY <1>a
  <2>2. QED
    BY <1>a, <2>1, NextInv DEF Stamped
<1>1. ASSUME NEW t \in Times, WriteStamped(t) PROVE VInv'
  <2>1. Next /\ Stamp(t) /\ view' = view
    BY <1>1 DEF WriteStamped
  <2>2. IInv' /\ Stamped'
    BY <2>1, NextInv, StampedStep
  <2>3. LogMoves
    BY <2>1, LogMovesStep
  <2>4. ShownAreOffered'
    BY <2>1, <2>3 DEF LogMoves, ShownAreOffered
  <2>5. QED
    BY <2>2, <2>4
<1>2. ASSUME NEW q \in Queries, Ask(q) PROVE VInv'
  <2>1. UNCHANGED <<db, stamps>>
    BY <1>2 DEF Ask, ListAuditJSON, ExportAuditCSV, Audit
  <2>2. ShownAreOffered'
    <3>1. CASE view'.at = "answered"
      BY <3>1 DEF ShownAreOffered
    <3>2. CASE Audit(q)
      <4>1. [q EXCEPT !.limit = DefaultAuditLimit].limit = DefaultAuditLimit
        BY ViewerAssumption DEF AuditQuery
      <4>2. QED
        BY <3>2, <4>1 DEF Audit, ShownAreOffered
    <3>3. QED
      BY <1>2, <3>1, <3>2 DEF Ask, ListAuditJSON, ExportAuditCSV
  <2>3. QED
    BY <1>a, <2>1, <2>2
<1>3. CASE AuditQueries
  <2>1. UNCHANGED <<db, stamps>>
    BY <1>3 DEF AuditQueries
  <2>2. CASE view.at = "opened"
    <3>1. /\ view'.at = "listed" /\ view'.events = ListAudit(view.q)
          /\ view.q.limit \in Int
      BY <1>3, <2>2, ViewerAssumption DEF AuditQueries, ShownAreOffered
    <3>2. ShownAreOffered'
      BY <2>1, <3>1, ListedAreLogged DEF ShownAreOffered
    <3>3. QED
      BY <1>a, <2>1, <3>2
  <2>3. CASE view.at = "listed"
    <3>1. /\ view'.at = "rendered" /\ view'.events = view.events
          /\ view'.actors = ListAuditActors
      BY <1>3, <2>3 DEF AuditQueries
    <3>2. ShownAreOffered'
      BY <2>1, <2>3, <3>1 DEF ShownAreOffered, ListAuditActors
    <3>3. QED
      BY <1>a, <2>1, <3>2
  <2>4. QED
    BY <1>3, <2>2, <2>3 DEF AuditQueries
<1>4. CASE UNCHANGED viewerVars
  BY <1>a, <1>4 DEF viewerVars, ShownAreOffered
<1>5. QED
  BY <1>1, <1>2, <1>3, <1>4 DEF ViewerNext

THEOREM ViewerInvariant == ViewerSpec => []VInv
BY VInvInit, VInvStep, PTL DEF ViewerSpec

\* "From/To are inclusive ... calendar days" (store.AuditQuery): the comparison of texts
\* of different lengths selects the rows written on those days and no others.
THEOREM DayFilters == ViewerSpec => []DayFiltersAreExact
<1>1. VInv => DayFiltersAreExact
  BY DaysAreExact DEF VInv, DayFiltersAreExact
<1>2. QED
  BY <1>1, ViewerInvariant, PTL

\* A listing never goes back to a later second, and its limit (store.ListAudit) cuts off
\* only rows that are not later than all it keeps.
THEOREM NewestWindow == ViewerSpec => []WindowIsNewest
<1>1. ASSUME VInv PROVE WindowIsNewest
  <2>1. \A q \in Queries : q.limit \in Int
    BY ViewerAssumption DEF AuditQuery
  <2>2. QED
    BY <1>1, <2>1, WindowOfNewest DEF VInv, WindowIsNewest
<1>2. QED
  BY <1>1, ViewerInvariant, PTL

\* What the audit page shows can be asked for with its own dropdowns, although rows and
\* actors are read at different times: every row shown is found by its actor and type.
THEOREM ShownIsFindable == ViewerSpec => []EveryShownRowIsFindable
<1>1. ASSUME VInv PROVE EveryShownRowIsFindable
  <2> SUFFICES ASSUME view.at = "rendered", NEW n \in DOMAIN view.events
               PROVE  LET i == view.events[n]
                          e == db.audit[i]
                      IN /\ e.actor.upn \in view.actors
                         /\ e.entity_type \in auditEntityTypes
                         /\ i \in Matching([Between(NoDay, NoDay) EXCEPT
                                               !.actor = e.actor.upn, !.entity_type = e.entity_type])
    BY Zenon DEF EveryShownRowIsFindable
  <2> DEFINE i == view.events[n]
             e == db.audit[i]
             q == [Between(NoDay, NoDay) EXCEPT !.actor = e.actor.upn, !.entity_type = e.entity_type]
  <2>1. i \in DOMAIN db.audit /\ e.actor.upn \in view.actors
    BY <1>1 DEF VInv, ShownAreOffered
  <2>2. e \in AuditRow
    BY <1>1, <2>1 DEF VInv, IInv, TypeOK, IsDatabase
  <2>3. e.entity_type \in auditEntityTypes /\ Trim[e.actor.upn] = e.actor.upn
    BY <2>2, ViewerAssumption DEF AuditRow, auditEntityTypes
  <2>4. /\ q.entity_type = e.entity_type /\ q.entity_id = 0 /\ q.actor = e.actor.upn
        /\ q.from = NoDay /\ q.to = NoDay
    <3> DEFINE upn == e.actor.upn
               type == e.entity_type
    <3>1. q = [Between(NoDay, NoDay) EXCEPT !.actor = upn, !.entity_type = type]
      OBVIOUS
    <3> HIDE DEF q, upn, type
    <3>2. q.entity_type = type /\ q.entity_id = 0 /\ q.actor = upn /\ q.from = NoDay /\ q.to = NoDay
      BY <3>1 DEF Between
    <3>3. QED
      BY <3>2 DEF upn, type
  <2> HIDE DEF q
  <2>5. i \in Matching(q)
    <3>1. /\ e.entity_type = q.entity_type /\ ~(q.entity_id > 0)
          /\ e.actor.upn = Trim[q.actor] /\ q.from = NoDay /\ q.to = NoDay
      <4>1. ~(0 > 0)
        OBVIOUS
      <4>2. QED
        BY <2>3, <2>4, <4>1, Zenon
    <3>2. i \in DOMAIN db.audit /\ e = db.audit[i]
      BY <2>1
    <3> HIDE DEF e, i
    <3>3. QED
      BY <3>1, <3>2 DEF Matching
  <2>6. QED
    BY <2>1, <2>3, <2>5 DEF q
<1>2. QED
  BY <1>1, ViewerInvariant, PTL

-------------------------------------------------------------------------------
(* What a log tells of a table: every row's present state goes back to rows  *)
(* of the log that are filed under the entity.                               *)

About(e, type, id) == e.entity_type = type /\ e.entity_id = id

PersonsTold(log, t) ==
    \A i \in DOMAIN t :
        /\ \E n \in DOMAIN log : log[n].action = "person.create" /\ log[n].entity_id = i
        /\ \E n \in DOMAIN log : About(log[n], "person", i) /\ Names(log[n], t[i].name)

SystemsTold(log, t) ==
    \A i \in DOMAIN t :
        /\ \E n \in DOMAIN log : log[n].action = "system.create" /\ log[n].entity_id = i
        /\ \E n \in DOMAIN log : About(log[n], "system", i) /\ Names(log[n], t[i].name)
        /\ Disabled(t[i]) =>
              \E n \in DOMAIN log : /\ About(log[n], "system", i)
                                    /\ log[n].action = "system.disable"
                                    /\ log[n].actor.upn = t[i].disabled_by

LinksTold(log, t) ==
    \A i \in DOMAIN t :
        \E n \in DOMAIN log : About(log[n], "person", t[i].person_id) /\ CreatesLink(log[n], i)

StewardsTold(log, t) ==
    \A i \in DOMAIN t :
        \E n \in DOMAIN log : /\ log[n].action \in {"tenant.bootstrap", "steward.promote"}
                              /\ log[n].details.oid = t[i].user_oid

Told == /\ PersonsTold(db.audit, db.persons) /\ SystemsTold(db.audit, db.systems)
        /\ LinksTold(db.audit, db.associations) /\ StewardsTold(db.audit, db.stewards)

\* What a log has told it goes on telling.
LEMMA StillTold ==
    ASSUME LogMoves, NEW t
    PROVE  /\ PersonsTold(db.audit, t) => PersonsTold(db'.audit, t)
           /\ SystemsTold(db.audit, t) => SystemsTold(db'.audit, t)
           /\ LinksTold(db.audit, t) => LinksTold(db'.audit, t)
           /\ StewardsTold(db.audit, t) => StewardsTold(db'.audit, t)
<1> DEFINE log == db.audit
           grown == db'.audit
<1>1. DOMAIN log \subseteq DOMAIN grown /\ \A n \in DOMAIN log : grown[n] = log[n]
  BY DEF LogMoves
<1> HIDE DEF log, grown
<1>2. PersonsTold(log, t) => PersonsTold(grown, t)
  BY <1>1 DEF PersonsTold
<1>3. SystemsTold(log, t) => SystemsTold(grown, t)
  BY <1>1 DEF SystemsTold
<1>4. LinksTold(log, t) => LinksTold(grown, t)
  BY <1>1 DEF LinksTold
<1>5. StewardsTold(log, t) => StewardsTold(grown, t)
  BY <1>1 DEF StewardsTold
<1>6. QED
  BY <1>2, <1>3, <1>4, <1>5 DEF log, grown

\* An answer made of some of the rows of a table is told as the table is.
LEMMA PartsTold ==
    ASSUME NEW log, NEW t, NEW s, NEW ids, s = Rows(t, ids), ids \subseteq DOMAIN t
    PROVE  /\ PersonsTold(log, t) => PersonsTold(log, s)
           /\ SystemsTold(log, t) => SystemsTold(log, s)
           /\ LinksTold(log, t) => LinksTold(log, s)
           /\ StewardsTold(log, t) => StewardsTold(log, s)
<1>1. DOMAIN s \subseteq DOMAIN t /\ \A i \in DOMAIN s : s[i] = t[i]
  BY DEF Rows
<1>2. PersonsTold(log, t) => PersonsTold(log, s)
  BY <1>1 DEF PersonsTold
<1>3. SystemsTold(log, t) => SystemsTold(log, s)
  BY <1>1 DEF SystemsTold
<1>4. LinksTold(log, t) => LinksTold(log, s)
  BY <1>1 DEF LinksTold
<1>5. StewardsTold(log, t) => StewardsTold(log, s)
  BY <1>1 DEF StewardsTold
<1>6. QED
  BY <1>2, <1>3, <1>4, <1>5

\* The rows on persons and systems that matter here are filed under the entity's type.
FiledByType(e) ==
    /\ e.action \in {"person.create", "person.rename", "association.create"} =>
          e.entity_type = "person"
    /\ e.action \in {"system.create", "system.rename", "system.disable"} =>
          e.entity_type = "system"

\* Every row a step appends is filed so.
LEMMA FiledStep ==
    ASSUME IInv, NEW a \in Actor, SignIn(a) \/ Write(a)
    PROVE  OnlyConsumes \/ \E row : Logs(row) /\ FiledByType(row)
<1> USE DEF IInv
<1>e. \A action, type, id, details :
         LET e == AuditEntry(a, action, type, id, details)
         IN  e.action = action /\ e.entity_type = type
  BY DEF AuditEntry
<1>f. ASSUME NEW action, NEW type, NEW id, NEW details,
             Logs(AuditEntry(a, action, type, id, details)),
             \/ action \in {"person.create", "person.rename", "association.create"} /\ type = "person"
             \/ action \in {"system.create", "system.rename", "system.disable"} /\ type = "system"
             \/ action \in {"system.enable", "association.remove", "tenant.bootstrap", "steward.invite",
                            "steward.uninvite", "steward.promote", "steward.demote"}
      PROVE  \E row : Logs(row) /\ FiledByType(row)
  <2> DEFINE row == AuditEntry(a, action, type, id, details)
  <2>1. row.action = action /\ row.entity_type = type /\ Logs(row)
    BY <1>e, <1>f
  <2> HIDE DEF row
  <2>2. FiledByType(row)
    BY <1>f, <2>1 DEF FiledByType
  <2>3. QED
    BY <2>1, <2>2
<1>1. ASSUME NEW tid \in TID, Bootstrap(a, tid) PROVE \E row : Logs(row) /\ FiledByType(row)
  <2> DEFINE details == [tenant_id |-> tid, first_steward_id |-> NewId(db, "stewards"),
                         oid |-> a.oid, upn |-> a.upn]
  <2>1. Logs(AuditEntry(a, "tenant.bootstrap", "tenant", 0, details))
    BY <1>1, BootstrapEffect
  <2> HIDE DEF details
  <2>2. QED
    BY <2>1, <1>f
<1>2. ASSUME ClaimPendingSteward(a)
      PROVE  OnlyConsumes \/ \E row : Logs(row) /\ FiledByType(row)
  <2>1. CASE IsActiveSteward(db, a.oid)
    <3>1. /\ KeepsTables({"tenant", "persons", "systems", "associations", "stewards", "audit"})
          /\ db'.seq = db.seq
          /\ db'.pending = Without(db.pending, GetPendingStewardByUPN(db, a.upn))
      BY <1>2, <2>1, ClaimPendingStewardEffect DEF KeepsTables
    <3>2. Bound
      BY <1>2 DEF ClaimPendingSteward
    <3>3. QED
      BY <3>1, <3>2 DEF OnlyConsumes, KeepsTables, Without
  <2>2. CASE ~IsActiveSteward(db, a.oid)
    <3> DEFINE id == NewId(db, "stewards")
               details == [oid |-> a.oid, upn |-> a.upn,
                           invited_by |-> db.pending[GetPendingStewardByUPN(db, a.upn)].invited_by]
    <3>1. Logs(AuditEntry(a, "steward.promote", "steward", id, details))
      BY <1>2, <2>2, ClaimPendingStewardEffect
    <3> HIDE DEF id, details
    <3>2. QED
      BY <3>1, <1>f
  <2>3. QED
    BY <2>1, <2>2
<1>3. ASSUME NEW name \in Name, CreatePerson(a, name) PROVE \E row : Logs(row) /\ FiledByType(row)
  BY <1>3, <1>f, CreatePersonEffect
<1>4. ASSUME NEW id \in DOMAIN db.persons, NEW name \in Name, RenamePerson(a, id, name)
      PROVE  \E row : Logs(row) /\ FiledByType(row)
  BY <1>4, <1>f, RenamePersonEffect
<1>5. ASSUME NEW name \in Name, CreateSystem(a, name) PROVE \E row : Logs(row) /\ FiledByType(row)
  BY <1>5, <1>f, CreateSystemEffect
<1>6. ASSUME NEW id \in DOMAIN db.systems, NEW name \in Name, RenameSystem(a, id, name)
      PROVE  \E row : Logs(row) /\ FiledByType(row)
  BY <1>6, <1>f, RenameSystemEffect
<1>7. ASSUME NEW id \in DOMAIN db.systems, DisableSystem(a, id)
      PROVE  \E row : Logs(row) /\ FiledByType(row)
  BY <1>7, <1>f, DisableSystemEffect
<1>8. ASSUME NEW id \in DOMAIN db.systems, EnableSystem(a, id)
      PROVE  \E row : Logs(row) /\ FiledByType(row)
  BY <1>8, <1>f, EnableSystemEffect
<1>9. ASSUME NEW person \in DOMAIN db.persons, NEW system \in DOMAIN db.systems,
             NEW foreign \in ForeignId, CreateAssociation(a, person, system, foreign)
      PROVE  \E row : Logs(row) /\ FiledByType(row)
  BY <1>9, <1>f, CreateAssociationEffect
<1>10. ASSUME NEW person \in DOMAIN db.persons, NEW id \in DOMAIN db.associations,
              RemoveAssociation(a, person, id)
       PROVE  \E row : Logs(row) /\ FiledByType(row)
  BY <1>10, <1>f, RemoveAssociationEffect
<1>11. ASSUME NEW upn \in UPN, PromoteSteward(a, upn) PROVE \E row : Logs(row) /\ FiledByType(row)
  BY <1>11, <1>f, PromoteStewardEffect
<1>12. ASSUME NEW id \in DOMAIN db.stewards, DemoteSteward(a, id)
       PROVE  \E row : Logs(row) /\ FiledByType(row)
  BY <1>12, <1>f, DemoteStewardEffect
<1>13. ASSUME NEW id \in DOMAIN db.pending, CancelStewardInvite(a, id)
       PROVE  \E row : Logs(row) /\ FiledByType(row)
  BY <1>13, <1>f, CancelStewardInviteEffect
<1>14. QED
  BY <1>1, <1>2, <1>3, <1>4, <1>5, <1>6, <1>7, <1>8, <1>9, <1>10, <1>11, <1>12, <1>13,
     WriteCases DEF SignIn

-------------------------------------------------------------------------------
(* A recorded write tells of what it changes: by AuditTrail, each table is   *)
(* changed as the new row says.                                              *)

\* What a row of the log does to each table.
PersonsAfter(t, e) ==
    CASE e.action = "person.create" ->
           Put(t, e.entity_id, [name |-> e.details.name, created_by |-> e.actor.upn,
                                updated_by |-> e.actor.upn])
      [] e.action = "person.rename" ->
           [t EXCEPT ![e.entity_id].name = e.details.to, ![e.entity_id].updated_by = e.actor.upn]
      [] OTHER -> t

SystemsAfter(t, e) ==
    CASE e.action = "system.create" ->
           Put(t, e.entity_id, [name |-> e.details.name, created_by |-> e.actor.upn,
                                updated_by |-> e.actor.upn, disabled_by |-> Null])
      [] e.action = "system.rename" ->
           [t EXCEPT ![e.entity_id].name = e.details.to, ![e.entity_id].updated_by = e.actor.upn]
      [] e.action = "system.disable" -> [t EXCEPT ![e.entity_id].disabled_by = e.actor.upn]
      [] e.action = "system.enable" -> [t EXCEPT ![e.entity_id].disabled_by = Null]
      [] OTHER -> t

LinksAfter(t, e) ==
    CASE e.action = "association.create" ->
           Put(t, e.details.association_id,
               [person_id |-> e.entity_id, system_id |-> e.details.system_id,
                foreign_id |-> e.details.foreign_id, created_by |-> e.actor.upn])
      [] e.action = "association.remove" -> Without(t, e.details.association_id)
      [] OTHER -> t

StewardsAfter(t, e) ==
    CASE e.action = "tenant.bootstrap" ->
           Put(t, e.details.first_steward_id, Trail!RecordedSteward(e, "bootstrap"))
      [] e.action = "steward.promote" ->
           Put(t, e.entity_id, Trail!RecordedSteward(e, e.details.invited_by))
      [] e.action = "steward.demote" -> [t EXCEPT ![e.entity_id].removed_by = e.actor.upn]
      [] OTHER -> t

\* They are AuditTrail's.
LEMMA ApplyTables ==
    ASSUME NEW t, NEW e,
           t = [tenant |-> t.tenant, persons |-> t.persons, systems |-> t.systems,
                associations |-> t.associations, stewards |-> t.stewards]
    PROVE  /\ Trail!Apply(t, e).persons = PersonsAfter(t.persons, e)
           /\ Trail!Apply(t, e).systems = SystemsAfter(t.systems, e)
           /\ Trail!Apply(t, e).associations = LinksAfter(t.associations, e)
           /\ Trail!Apply(t, e).stewards = StewardsAfter(t.stewards, e)
BY DEF Trail!Apply, Put, Without, Trail!Put, Trail!Without,
       PersonsAfter, SystemsAfter, LinksAfter, StewardsAfter

\* One step of a table at a time: the log has grown by a row e, filed by its type, and
\* the table has changed as e says.
LEMMA PersonsToldStep ==
    ASSUME NEW log, NEW grown, NEW last, last \in DOMAIN grown, DOMAIN log \subseteq DOMAIN grown,
           \A n \in DOMAIN log : grown[n] = log[n],
           NEW e, e = grown[last], FiledByType(e),
           NEW t, PersonsTold(log, t), \A i \in DOMAIN t : t[i] \in Person
    PROVE  PersonsTold(grown, PersonsAfter(t, e))
<1> DEFINE u == PersonsAfter(t, e)
<1>1. PersonsTold(grown, t)
  BY DEF PersonsTold
<1>2. CASE e.action = "person.create"
  <2>1. /\ DOMAIN u = DOMAIN t \cup {e.entity_id}
        /\ \A i \in DOMAIN u : i # e.entity_id => u[i] = t[i]
        /\ u[e.entity_id].name = e.details.name
    BY <1>2 DEF Put, PersonsAfter
  <2>2. About(e, "person", e.entity_id) /\ Names(e, e.details.name)
    BY <1>2 DEF FiledByType, About, Names
  <2>3. QED
    BY <1>1, <1>2, <2>1, <2>2 DEF PersonsTold
<1>3. CASE e.action = "person.rename"
  <2>1. /\ DOMAIN u = DOMAIN t
        /\ \A i \in DOMAIN u : i # e.entity_id => u[i] = t[i]
        /\ e.entity_id \in DOMAIN t => u[e.entity_id].name = e.details.to
    BY <1>3 DEF Person, PersonsAfter
  <2>2. About(e, "person", e.entity_id) /\ Names(e, e.details.to)
    BY <1>3 DEF FiledByType, About, Names
  <2>3. QED
    BY <1>1, <2>1, <2>2 DEF PersonsTold
<1>4. QED
  BY <1>1, <1>2, <1>3 DEF PersonsAfter

\* Likewise the systems, whose rows also say who disabled them,
LEMMA SystemsToldStep ==
    ASSUME NEW log, NEW grown, NEW last, last \in DOMAIN grown, DOMAIN log \subseteq DOMAIN grown,
           \A n \in DOMAIN log : grown[n] = log[n],
           NEW e, e = grown[last], FiledByType(e),
           NEW t, SystemsTold(log, t), \A i \in DOMAIN t : t[i] \in System
    PROVE  SystemsTold(grown, SystemsAfter(t, e))
<1> DEFINE u == SystemsAfter(t, e)
<1>1. SystemsTold(grown, t)
  BY DEF SystemsTold
<1>2. CASE e.action = "system.create"
  <2>1. /\ DOMAIN u = DOMAIN t \cup {e.entity_id}
        /\ \A i \in DOMAIN u : i # e.entity_id => u[i] = t[i]
        /\ u[e.entity_id].name = e.details.name /\ ~Disabled(u[e.entity_id])
    BY <1>2 DEF Put, SystemsAfter, Disabled
  <2>2. About(e, "system", e.entity_id) /\ Names(e, e.details.name)
    BY <1>2 DEF FiledByType, About, Names
  <2>3. QED
    BY <1>1, <1>2, <2>1, <2>2 DEF SystemsTold
<1>3. CASE e.action = "system.rename"
  <2>1. /\ DOMAIN u = DOMAIN t
        /\ \A i \in DOMAIN u : i # e.entity_id => u[i] = t[i]
        /\ \A i \in DOMAIN u : u[i].disabled_by = t[i].disabled_by
        /\ e.entity_id \in DOMAIN t => u[e.entity_id].name = e.details.to
    BY <1>3 DEF System, SystemsAfter
  <2>2. About(e, "system", e.entity_id) /\ Names(e, e.details.to)
    BY <1>3 DEF FiledByType, About, Names
  <2>3. QED
    BY <1>1, <2>1, <2>2 DEF SystemsTold, Disabled
<1>4. CASE e.action = "system.disable"
  <2>1. /\ DOMAIN u = DOMAIN t
        /\ \A i \in DOMAIN u : i # e.entity_id => u[i] = t[i]
        /\ \A i \in DOMAIN u : u[i].name = t[i].name
        /\ e.entity_id \in DOMAIN t => u[e.entity_id].disabled_by = e.actor.upn
    BY <1>4 DEF System, SystemsAfter
  <2>2. About(e, "system", e.entity_id)
    BY <1>4 DEF FiledByType, About
  <2>3. QED
    BY <1>1, <1>4, <2>1, <2>2 DEF SystemsTold, Disabled
<1>5. CASE e.action = "system.enable"
  <2>1. /\ DOMAIN u = DOMAIN t
        /\ \A i \in DOMAIN u : i # e.entity_id => u[i] = t[i]
        /\ \A i \in DOMAIN u : u[i].name = t[i].name
        /\ e.entity_id \in DOMAIN t => ~Disabled(u[e.entity_id])
    BY <1>5 DEF System, Disabled, SystemsAfter
  <2>2. QED
    BY <1>1, <2>1 DEF SystemsTold
<1>6. QED
  BY <1>1, <1>2, <1>3, <1>4, <1>5 DEF SystemsAfter

\* the links, which say whose they are,
LEMMA LinksToldStep ==
    ASSUME NEW log, NEW grown, NEW last, last \in DOMAIN grown, DOMAIN log \subseteq DOMAIN grown,
           \A n \in DOMAIN log : grown[n] = log[n],
           NEW e, e = grown[last], FiledByType(e),
           NEW t, LinksTold(log, t)
    PROVE  LinksTold(grown, LinksAfter(t, e))
<1> DEFINE u == LinksAfter(t, e)
<1>1. LinksTold(grown, t)
  BY DEF LinksTold
<1>2. CASE e.action = "association.create"
  <2>1. /\ DOMAIN u = DOMAIN t \cup {e.details.association_id}
        /\ \A i \in DOMAIN u : i # e.details.association_id => u[i] = t[i]
        /\ u[e.details.association_id].person_id = e.entity_id
    BY <1>2 DEF Put, LinksAfter
  <2>2. About(e, "person", e.entity_id) /\ CreatesLink(e, e.details.association_id)
    BY <1>2 DEF FiledByType, About, CreatesLink
  <2>3. QED
    BY <1>1, <2>1, <2>2 DEF LinksTold
<1>3. CASE e.action = "association.remove"
  BY <1>1, <1>3 DEF LinksTold, Without, LinksAfter
<1>4. QED
  BY <1>1, <1>2, <1>3 DEF LinksAfter

\* and the stewards.
LEMMA StewardsToldStep ==
    ASSUME NEW log, NEW grown, NEW last, last \in DOMAIN grown, DOMAIN log \subseteq DOMAIN grown,
           \A n \in DOMAIN log : grown[n] = log[n],
           NEW e, e = grown[last],
           NEW t, StewardsTold(log, t), \A i \in DOMAIN t : t[i] \in Steward
    PROVE  StewardsTold(grown, StewardsAfter(t, e))
<1> DEFINE u == StewardsAfter(t, e)
<1>1. StewardsTold(grown, t)
  BY DEF StewardsTold
<1>2. ASSUME NEW id, NEW by, e.action \in {"tenant.bootstrap", "steward.promote"},
             u = Put(t, id, Trail!RecordedSteward(e, by))
      PROVE  StewardsTold(grown, u)
  <2>1. /\ DOMAIN u = DOMAIN t \cup {id}
        /\ \A i \in DOMAIN u : i # id => u[i] = t[i]
        /\ u[id].user_oid = e.details.oid
    BY <1>2 DEF Put, Trail!RecordedSteward
  <2>2. QED
    BY <1>1, <1>2, <2>1 DEF StewardsTold
<1>3. CASE e.action = "steward.demote"
  <2>1. DOMAIN u = DOMAIN t /\ \A i \in DOMAIN u : u[i].user_oid = t[i].user_oid
    BY <1>3 DEF Steward, StewardsAfter
  <2>2. QED
    BY <1>1, <2>1 DEF StewardsTold
<1>4. QED
  BY <1>1, <1>2, <1>3 DEF StewardsAfter

\* An empty registry has nothing to tell.
LEMMA ToldInit == Init => Told
BY DEF Init, EmptyDatabase, NoRows, Told, PersonsTold, SystemsTold, LinksTold, StewardsTold

\* The log keeps telling of every row of the four tables.
LEMMA ToldStep == IInv /\ Told /\ [Next]_db => Told'
<1> SUFFICES ASSUME IInv, Told, [Next]_db PROVE Told'
  OBVIOUS
<1>1. CASE Tables' = Tables /\ db'.audit = db.audit
  BY <1>1 DEF Tables, Told
<1>2. CASE Trail!Record /\ ~(Tables' = Tables /\ db'.audit = db.audit)
  <2> DEFINE last == Len(db'.audit)
             e == db'.audit[last]
  <2>1. Len(db'.audit) = Len(db.audit) + 1 /\ Tables' = Trail!Apply(Tables, e)
    BY <1>2 DEF Trail!Record, Tables
  <2>2. PICK a \in Actor : SignIn(a) \/ Write(a)
    BY <1>2 DEF Next, Tables
  <2>3. PICK row : Logs(row) /\ FiledByType(row)
    <3>1. ~OnlyConsumes
      BY <1>2 DEF OnlyConsumes, KeepsTables, Tables
    <3>2. QED
      BY <2>2, <3>1, FiledStep
  <2>4. /\ last \in DOMAIN db'.audit /\ DOMAIN db.audit \subseteq DOMAIN db'.audit
        /\ \A n \in DOMAIN db.audit : db'.audit[n] = db.audit[n]
        /\ e = row
    BY <2>1, <2>3, LogGrows DEF IInv
  <2>5. FiledByType(e)
    BY <2>3, <2>4
  <2>6. /\ Tables = [tenant |-> Tables.tenant, persons |-> Tables.persons, systems |-> Tables.systems,
                     associations |-> Tables.associations, stewards |-> Tables.stewards]
        /\ Tables.persons = db.persons /\ Tables.systems = db.systems
        /\ Tables.associations = db.associations /\ Tables.stewards = db.stewards
        /\ Tables'.persons = db'.persons /\ Tables'.systems = db'.systems
        /\ Tables'.associations = db'.associations /\ Tables'.stewards = db'.stewards
    BY DEF Tables
  <2>7. /\ \A i \in DOMAIN db.persons : db.persons[i] \in Person
        /\ \A i \in DOMAIN db.systems : db.systems[i] \in System
        /\ \A i \in DOMAIN db.stewards : db.stewards[i] \in Steward
    BY DEF IInv, TypeOK, IsDatabase, IsTable
  <2> HIDE DEF last, e
  <2>a. /\ Trail!Apply(Tables, e).persons = PersonsAfter(Tables.persons, e)
        /\ Trail!Apply(Tables, e).systems = SystemsAfter(Tables.systems, e)
        /\ Trail!Apply(Tables, e).associations = LinksAfter(Tables.associations, e)
        /\ Trail!Apply(Tables, e).stewards = StewardsAfter(Tables.stewards, e)
    BY <2>6, ApplyTables
  <2>8. PersonsTold(db'.audit, db'.persons)
    <3>1. db'.persons = PersonsAfter(db.persons, e)
      BY <2>1, <2>6, <2>a
    <3>2. PersonsTold(db.audit, db.persons)
      BY DEF Told
    <3>3. QED
      BY <2>4, <2>5, <2>7, <3>1, <3>2, PersonsToldStep DEF e
  <2>9. SystemsTold(db'.audit, db'.systems)
    <3>1. db'.systems = SystemsAfter(db.systems, e)
      BY <2>1, <2>6, <2>a
    <3>2. SystemsTold(db.audit, db.systems)
      BY DEF Told
    <3>3. QED
      BY <2>4, <2>5, <2>7, <3>1, <3>2, SystemsToldStep DEF e
  <2>10. LinksTold(db'.audit, db'.associations)
    <3>1. db'.associations = LinksAfter(db.associations, e)
      BY <2>1, <2>6, <2>a
    <3>2. LinksTold(db.audit, db.associations)
      BY DEF Told
    <3>3. QED
      BY <2>4, <2>5, <3>1, <3>2, LinksToldStep DEF e
  <2>11. StewardsTold(db'.audit, db'.stewards)
    <3>1. db'.stewards = StewardsAfter(db.stewards, e)
      BY <2>1, <2>6, <2>a
    <3>2. StewardsTold(db.audit, db.stewards)
      BY DEF Told
    <3>3. QED
      BY <2>4, <2>7, <3>1, <3>2, StewardsToldStep DEF e
  <2>12. QED
    BY <2>8, <2>9, <2>10, <2>11 DEF Told
<1>3. QED
  BY <1>1, <1>2, TrailStep DEF Trail!vars, Tables

-------------------------------------------------------------------------------
(* The queries of a handler, one after another. *)

\* The first k queries of a handler.
Asked(name, k) == {Handler[name][n] : n \in 1..k}

\* No handler makes the same query twice.
LEMMA HandlerQueries ==
    ASSUME NEW name \in DOMAIN Handler
    PROVE  /\ name # "none"
           /\ Len(Handler[name]) \in Nat \ {0}
           /\ DOMAIN Handler[name] = 1..Len(Handler[name])
           /\ \A m, n \in 1..Len(Handler[name]) : Handler[name][m] = Handler[name][n] => m = n
<1> DEFINE H == Handler[name]
<1>1. /\ Handler["PersonsPage"] = PersonsPage /\ Handler["PersonDetail"] = PersonDetail
      /\ Handler["SystemsPage"] = SystemsPage /\ Handler["SystemDetail"] = SystemDetail
      /\ Handler["StewardsPage"] = StewardsPage /\ Handler["ExportRegistry"] = ExportRegistry
      /\ name \in {"PersonsPage", "PersonDetail", "SystemsPage", "SystemDetail",
                   "StewardsPage", "ExportRegistry"}
  BY DEF Handler
<1>2. CASE name = "PersonsPage"
  <2>1. H = PersonsPage
    BY <1>1, <1>2
  <2>2. /\ Len(H) = 2 /\ DOMAIN H = 1..2
        /\ H[1] = "persons" /\ H[2] = "empty"
    BY <2>1 DEF PersonsPage
  <2> HIDE DEF H
  <2>3. \A m \in 1..2 : m = 1 \/ m = 2
    OBVIOUS
  <2>4. \A m, n \in 1..2 : H[m] = H[n] => m = n
    BY <2>2, <2>3
  <2>5. QED
    BY <1>2, <2>2, <2>4 DEF H
<1>3. CASE name = "PersonDetail"
  <2>1. H = PersonDetail
    BY <1>1, <1>3
  <2>2. /\ Len(H) = 4 /\ DOMAIN H = 1..4
        /\ H[1] = "person" /\ H[2] = "links" /\ H[3] = "active" /\ H[4] = "person_history"
    BY <2>1 DEF PersonDetail
  <2> HIDE DEF H
  <2>3. \A m \in 1..4 : m = 1 \/ m = 2 \/ m = 3 \/ m = 4
    OBVIOUS
  <2>4. \A m, n \in 1..4 : H[m] = H[n] => m = n
    BY <2>2, <2>3
  <2>5. QED
    BY <1>3, <2>2, <2>4 DEF H
<1>4. CASE name = "SystemsPage"
  <2>1. H = SystemsPage
    BY <1>1, <1>4
  <2>2. /\ Len(H) = 2 /\ DOMAIN H = 1..2
        /\ H[1] = "active" /\ H[2] = "disabled_count"
    BY <2>1 DEF SystemsPage
  <2> HIDE DEF H
  <2>3. \A m \in 1..2 : m = 1 \/ m = 2
    OBVIOUS
  <2>4. \A m, n \in 1..2 : H[m] = H[n] => m = n
    BY <2>2, <2>3
  <2>5. QED
    BY <1>4, <2>2, <2>4 DEF H
<1>5. CASE name = "SystemDetail"
  <2>1. H = SystemDetail
    BY <1>1, <1>5
  <2>2. /\ Len(H) = 2 /\ DOMAIN H = 1..2
        /\ H[1] = "system" /\ H[2] = "system_history"
    BY <2>1 DEF SystemDetail
  <2> HIDE DEF H
  <2>3. \A m \in 1..2 : m = 1 \/ m = 2
    OBVIOUS
  <2>4. \A m, n \in 1..2 : H[m] = H[n] => m = n
    BY <2>2, <2>3
  <2>5. QED
    BY <1>5, <2>2, <2>4 DEF H
<1>6. CASE name = "StewardsPage"
  <2>1. H = StewardsPage
    BY <1>1, <1>6
  <2>2. /\ Len(H) = 2 /\ DOMAIN H = 1..2
        /\ H[1] = "stewards" /\ H[2] = "pending"
    BY <2>1 DEF StewardsPage
  <2> HIDE DEF H
  <2>3. \A m \in 1..2 : m = 1 \/ m = 2
    OBVIOUS
  <2>4. \A m, n \in 1..2 : H[m] = H[n] => m = n
    BY <2>2, <2>3
  <2>5. QED
    BY <1>6, <2>2, <2>4 DEF H
<1>7. CASE name = "ExportRegistry"
  <2>1. H = ExportRegistry
    BY <1>1, <1>7
  <2>2. /\ Len(H) = 6 /\ DOMAIN H = 1..6
        /\ H[1] = "persons" /\ H[2] = "active" /\ H[3] = "disabled"
        /\ H[4] = "associations" /\ H[5] = "stewards" /\ H[6] = "audit"
    BY <2>1 DEF ExportRegistry
  <2> HIDE DEF H
  <2>3. \A m \in 1..6 : m = 1 \/ m = 2 \/ m = 3 \/ m = 4 \/ m = 5 \/ m = 6
    OBVIOUS
  <2>4. \A m, n \in 1..6 : H[m] = H[n] => m = n
    BY <2>2, <2>3
  <2>5. QED
    BY <1>7, <2>2, <2>4 DEF H
<1>8. QED
  BY <1>1, <1>2, <1>3, <1>4, <1>5, <1>6, <1>7

\* So the number of answers is the number of queries made.
LEMMA AskedCount ==
    ASSUME NEW name \in DOMAIN Handler, NEW k \in 0..Len(Handler[name])
    PROVE  Cardinality(Asked(name, k)) = k
<1> DEFINE f == [n \in 1..k |-> Handler[name][n]]
<1>1. \A n \in 1..k : n \in 1..Len(Handler[name])
  BY HandlerQueries
<1>2. f \in Bijection(1..k, Asked(name, k))
  <2>1. /\ f \in [1..k -> Asked(name, k)]
        /\ \A m, n \in 1..k : f[m] = f[n] => m = n
        /\ \A q \in Asked(name, k) : \E n \in 1..k : f[n] = q
    BY <1>1, HandlerQueries DEF Asked
  <2> HIDE DEF f
  <2>2. QED
    BY <2>1 DEF Bijection, Injection, Surjection, IsInjective
<1>3. IsFiniteSet(1..k) /\ Cardinality(1..k) = k
  BY FS_Interval, HandlerQueries
<1>4. ExistsBijection(1..k, Asked(name, k))
  BY <1>2 DEF ExistsBijection
<1>5. QED
  BY <1>3, <1>4, FS_Bijection

\* A page is the answers to the first queries of a handler.
PageForm ==
    page.name # "none" =>
       /\ page = [name |-> page.name, id |-> page.id, got |-> page.got]
       /\ page.name \in DOMAIN Handler
       /\ \E k \in 0..Len(Handler[page.name]) : DOMAIN page.got = Asked(page.name, k)

\* A query makes the next one of the handler, and leaves the answers there are.
LEMMA QueryMoves ==
    ASSUME PageForm, Query
    PROVE  /\ page.name \in DOMAIN Handler
           /\ \E k \in 0..(Len(Handler[page.name]) - 1) :
                 /\ DOMAIN page.got = Asked(page.name, k)
                 /\ page' = [name |-> page.name, id |-> page.id, got |-> page'.got]
                 /\ page'.got = [x \in Asked(page.name, k + 1) |->
                                   IF x = Handler[page.name][k + 1]
                                   THEN Result(db, Handler[page.name][k + 1], page.id)
                                   ELSE page.got[x]]
<1>1. page.name # "none" /\ ~Finished
  BY DEF Query
<1>2. /\ page = [name |-> page.name, id |-> page.id, got |-> page.got]
      /\ page.name \in DOMAIN Handler
  BY <1>1 DEF PageForm
<1>3. PICK k \in 0..Len(Handler[page.name]) : DOMAIN page.got = Asked(page.name, k)
  BY <1>1 DEF PageForm
<1> DEFINE H == Handler[page.name]
           q == H[k + 1]
           got == [x \in DOMAIN page.got \cup {q} |->
                     IF x = q THEN Result(db, q, page.id) ELSE page.got[x]]
<1>4. Len(H) \in Nat /\ DOMAIN H = 1..Len(H) /\ k \in Nat
  BY <1>2, HandlerQueries
<1>5. k # Len(H)
  BY <1>1, <1>3, <1>4 DEF Finished, Asked
<1>6. Cardinality(DOMAIN page.got) = k
  BY <1>2, <1>3, AskedCount
<1>7. page' = [page EXCEPT !.got = got]
  BY <1>6 DEF Query
<1>8. DOMAIN page.got \cup {q} = Asked(page.name, k + 1)
  BY <1>3, <1>4 DEF Asked
<1> HIDE DEF got
<1>9. page' = [name |-> page.name, id |-> page.id, got |-> got]
  BY <1>2, <1>7
<1>10. page'.got = got /\ page' = [name |-> page.name, id |-> page.id, got |-> page'.got]
  BY <1>9
<1>11. k \in 0..(Len(H) - 1)
  BY <1>4, <1>5
<1>12. page'.got = [x \in Asked(page.name, k + 1) |->
                      IF x = q THEN Result(db, q, page.id) ELSE page.got[x]]
  BY <1>8, <1>10 DEF got
<1>13. QED
  BY <1>2, <1>3, <1>10, <1>11, <1>12

\* When a query finishes a page, it was the handler's last, and the others had answers.
LEMMA LastQuery ==
    ASSUME PageForm, Query, Finished'
    PROVE  LET H == Handler[page.name]
           IN /\ page'.name = page.name /\ page'.id = page.id
              /\ page'.got[H[Len(H)]] = Result(db, H[Len(H)], page.id)
              /\ \A n \in 1..(Len(H) - 1) : /\ H[n] \in DOMAIN page.got
                                            /\ page'.got[H[n]] = page.got[H[n]]
<1> DEFINE H == Handler[page.name]
<1>1. PICK k \in 0..(Len(H) - 1) :
         /\ DOMAIN page.got = Asked(page.name, k)
         /\ page' = [name |-> page.name, id |-> page.id, got |-> page'.got]
         /\ page'.got = [x \in Asked(page.name, k + 1) |->
                           IF x = H[k + 1] THEN Result(db, H[k + 1], page.id) ELSE page.got[x]]
  BY QueryMoves
<1>2. page'.name = page.name /\ page'.id = page.id
  BY <1>1
<1>3. /\ Len(H) \in Nat \ {0} /\ DOMAIN H = 1..Len(H)
      /\ \A m, n \in 1..Len(H) : H[m] = H[n] => m = n
  BY QueryMoves, HandlerQueries
<1>4. DOMAIN page'.got = Asked(page.name, k + 1)
  BY <1>1
<1>5. DOMAIN page'.got = {H[n] : n \in DOMAIN H}
  BY <1>2 DEF Finished
<1>6. k + 1 = Len(H)
  <2>1. H[Len(H)] \in Asked(page.name, k + 1)
    BY <1>3, <1>4, <1>5
  <2>2. PICK n \in 1..(k + 1) : H[n] = H[Len(H)]
    BY <2>1 DEF Asked
  <2>3. n \in 1..Len(H) /\ Len(H) \in 1..Len(H)
    BY <1>3
  <2>4. n = Len(H)
    BY <1>3, <2>2, <2>3
  <2>5. QED
    BY <1>3, <2>4
<1>7. page'.got[H[Len(H)]] = Result(db, H[Len(H)], page.id)
  <2>1. H[Len(H)] \in Asked(page.name, k + 1)
    BY <1>3, <1>6 DEF Asked
  <2>2. QED
    BY <1>1, <1>6, <2>1
<1>8. ASSUME NEW n \in 1..(Len(H) - 1)
      PROVE  H[n] \in DOMAIN page.got /\ page'.got[H[n]] = page.got[H[n]]
  <2>1. n \in 1..k /\ n \in 1..(k + 1) /\ n \in 1..Len(H) /\ k + 1 \in 1..Len(H) /\ n # k + 1
    BY <1>3, <1>6
  <2>2. H[n] # H[k + 1]
    BY <1>3, <2>1
  <2>3. H[n] \in Asked(page.name, k) /\ H[n] \in Asked(page.name, k + 1)
    BY <2>1 DEF Asked
  <2>4. QED
    BY <1>1, <2>2, <2>3
<1>9. QED
  BY <1>2, <1>7, <1>8

-------------------------------------------------------------------------------
(* What the answers say.  The log of a later moment still accounts for them. *)

Justified(d, q, answer, id) ==
    /\ q = "persons" => PersonsTold(d.audit, answer) /\ DOMAIN answer \subseteq DOMAIN d.persons
    /\ q = "person" => PersonsTold(d.audit, answer) /\ DOMAIN answer \subseteq {id}
    /\ q = "links" => /\ LinksTold(d.audit, answer)
                      /\ \A i \in DOMAIN answer : answer[i].person_id = id
    /\ q = "system" => SystemsTold(d.audit, answer) /\ DOMAIN answer \subseteq {id}
    /\ q = "active" => SystemsTold(d.audit, answer)
    /\ q = "disabled" => /\ SystemsTold(d.audit, answer)
                         /\ \A i \in DOMAIN answer : Disabled(answer[i])
    /\ q = "associations" => LinksTold(d.audit, answer)
    /\ q = "stewards" => StewardsTold(d.audit, answer)

AnswersJustified ==
    page.name # "none" =>
       \A q \in DOMAIN page.got : Justified(db, q, page.got[q], page.id)

\* Every answer is justified by the log of its own moment,
LEMMA ResultJustified == ASSUME Told, NEW q, NEW id PROVE Justified(db, q, Result(db, q, id), id)
<1> DEFINE r == Result(db, q, id)
<1> USE DEF Told
<1>1. ASSUME q = "persons" PROVE PersonsTold(db.audit, r) /\ DOMAIN r \subseteq DOMAIN db.persons
  BY <1>1 DEF Result, ListPersons
<1>2. ASSUME q = "person" PROVE PersonsTold(db.audit, r) /\ DOMAIN r \subseteq {id}
  <2>1. r = Rows(db.persons, DOMAIN db.persons \cap {id})
    BY <1>2 DEF Result, GetPerson
  <2>2. PersonsTold(db.audit, r)
    BY <2>1, PartsTold
  <2>3. QED
    BY <2>1, <2>2 DEF Rows
<1>3. ASSUME q = "links" PROVE LinksTold(db.audit, r) /\ \A i \in DOMAIN r : r[i].person_id = id
  <2>1. r = Rows(db.associations, {i \in DOMAIN db.associations : db.associations[i].person_id = id})
    BY <1>3 DEF Result, ListAssociationsForPerson
  <2>2. LinksTold(db.audit, r)
    BY <2>1, PartsTold
  <2>3. QED
    BY <2>1, <2>2 DEF Rows
<1>4. ASSUME q = "system" PROVE SystemsTold(db.audit, r) /\ DOMAIN r \subseteq {id}
  <2>1. r = Rows(db.systems, DOMAIN db.systems \cap {id})
    BY <1>4 DEF Result, GetSystem
  <2>2. SystemsTold(db.audit, r)
    BY <2>1, PartsTold
  <2>3. QED
    BY <2>1, <2>2 DEF Rows
<1>5. ASSUME q = "active" PROVE SystemsTold(db.audit, r)
  <2>1. r = Rows(db.systems, {i \in DOMAIN db.systems : ~Disabled(db.systems[i])})
    BY <1>5 DEF Result, ListSystems
  <2>2. QED
    BY <2>1, PartsTold
<1>6. ASSUME q = "disabled"
      PROVE  SystemsTold(db.audit, r) /\ \A i \in DOMAIN r : Disabled(r[i])
  <2>1. r = Rows(db.systems, {i \in DOMAIN db.systems : Disabled(db.systems[i])})
    BY <1>6 DEF Result, ListDisabledSystems
  <2>2. SystemsTold(db.audit, r)
    BY <2>1, PartsTold
  <2>3. QED
    BY <2>1, <2>2 DEF Rows
<1>7. ASSUME q = "associations" PROVE LinksTold(db.audit, r)
  BY <1>7 DEF Result, ListAllAssociations
<1>8. ASSUME q = "stewards" PROVE StewardsTold(db.audit, r)
  <2>1. r = Rows(db.stewards, ActiveStewards(db)) /\ ActiveStewards(db) \subseteq DOMAIN db.stewards
    BY <1>8 DEF Result, ListActiveStewards, ActiveStewards
  <2>2. QED
    BY <2>1, PartsTold
<1> HIDE DEF r
<1>9. QED
  BY <1>1, <1>2, <1>3, <1>4, <1>5, <1>6, <1>7, <1>8 DEF Justified, r

\* and stays justified.
LEMMA JustifiedStays ==
    ASSUME IInv, [Next]_db, NEW q, NEW answer, NEW id, Justified(db, q, answer, id)
    PROVE  Justified(db', q, answer, id)
<1>1. LogMoves
  BY LogMovesStep
<1>2. DOMAIN db.persons \subseteq DOMAIN db'.persons
  <2>1. CASE UNCHANGED db
    BY <2>1
  <2>2. ASSUME NEW a \in Actor, SignIn(a) \/ Write(a)
        PROVE  DOMAIN db.persons \subseteq DOMAIN db'.persons
    BY <2>2, EntitiesKeptStep DEF PersonsKept
  <2>3. QED
    BY <2>1, <2>2 DEF Next
<1>3. QED
  BY <1>1, <1>2, StillTold DEF Justified

-------------------------------------------------------------------------------
(* The log of an export. *)

\* A listing without a filter that has fewer rows than the largest limit is the whole
\* log: the query cannot be cut off without being full.
LEMMA WholeLog ==
    ASSUME IInv, Stamped, Cardinality(DOMAIN ListAuditNewest(db)) < MaxAuditLimit
    PROVE  /\ DOMAIN ListAuditNewest(db) = DOMAIN db.audit
           /\ \A n \in DOMAIN db.audit : ListAuditNewest(db)[n] = db.audit[n]
<1> DEFINE q == [Between(NoDay, NoDay) EXCEPT !.limit = MaxAuditLimit]
           M == Matching(q)
           events == ListAudit(q)
           shown == {events[n] : n \in DOMAIN events}
<1>1. /\ q.limit = MaxAuditLimit /\ q.entity_type = Blank /\ q.actor = Blank
      /\ q.from = NoDay /\ q.to = NoDay
  BY DEF Between
<1>2. MaxAuditLimit \in Nat /\ MaxAuditLimit > 0
  BY ViewerAssumption
<1>3. AuditLimit(q.limit) = MaxAuditLimit
  BY <1>1, <1>2 DEF AuditLimit
<1>4. ListAuditNewest(db) = Rows(db.audit, shown)
  BY DEF ListAuditNewest, ToSet
<1> HIDE DEF q
<1>5. M = DOMAIN db.audit
  BY <1>1, ViewerAssumption DEF Matching
<1>6. shown # M => Len(events) = MaxAuditLimit
  BY <1>1, <1>2, <1>3, WindowOfNewest
<1>7. Cardinality(shown) = Len(events)
  <2> DEFINE c == Cardinality(M)
             k == IF c <= AuditLimit(q.limit) THEN c ELSE AuditLimit(q.limit)
  <2>a. /\ c \in Nat /\ k \in Nat
        /\ events \in [1..k -> M] /\ Len(events) = k
        /\ \A n \in 1..k : events[n] = Sorted(M)[n]
    BY <1>1, <1>2, ListAuditRows
  <2>b. k <= c
    BY <1>2, <1>3, <2>a
  <2> HIDE DEF k, c
  <2>1. /\ c \in Nat /\ k \in Nat /\ k <= c
        /\ events \in [1..k -> M] /\ Len(events) = k
        /\ \A n \in 1..k : events[n] = Sorted(M)[n]
    BY <2>a, <2>b
  <2>2. stamps \in Seq(Times) /\ M \in SUBSET DOMAIN stamps
    BY StampedRows DEF Stamped
  <2> HIDE DEF M, events
  <2>3. \A m, n \in 1..k : m < n => events[m] # events[n]
    <3>1. \A m, n \in 1..c : m < n => SortsBefore(Sorted(M)[m], Sorted(M)[n])
      BY <2>2, SortedList DEF c
    <3>2. \A i \in M : ~SortsBefore(i, i)
      BY <2>2, RowOrder
    <3>3. SUFFICES ASSUME NEW m \in 1..k, NEW n \in 1..k, m < n PROVE events[m] # events[n]
      OBVIOUS
    <3>4. m \in 1..c /\ n \in 1..c
      BY <2>1
    <3>5. SortsBefore(events[m], events[n])
      BY <2>1, <3>1, <3>3, <3>4
    <3>6. events[m] \in M
      BY <2>1
    <3>7. QED
      BY <3>2, <3>5, <3>6
  <2>4. events \in Bijection(1..k, shown)
    <3>1. DOMAIN events = 1..k
      BY <2>1
    <3>2. events \in [1..k -> shown]
      BY <2>1, <3>1
    <3>3. \A m, n \in 1..k : events[m] = events[n] => m = n
      BY <2>1, <2>3
    <3>4. \A i \in shown : \E n \in 1..k : events[n] = i
      BY <3>1
    <3> HIDE DEF shown
    <3>5. QED
      BY <3>1, <3>2, <3>3, <3>4 DEF Bijection, Injection, Surjection, IsInjective
  <2>5. IsFiniteSet(1..k) /\ Cardinality(1..k) = k
    BY <2>1, FS_Interval
  <2>6. ExistsBijection(1..k, shown)
    BY <2>4 DEF ExistsBijection
  <2> HIDE DEF shown
  <2>7. QED
    BY <2>1, <2>5, <2>6, FS_Bijection
<1>8. DOMAIN ListAuditNewest(db) = shown
  BY <1>4 DEF Rows
<1>9. shown = M
  BY <1>2, <1>6, <1>7, <1>8
<1>10. QED
  BY <1>4, <1>5, <1>8, <1>9 DEF Rows

-------------------------------------------------------------------------------
(* The three pages, at their last queries.                                   *)

\* /persons asks last whether the registry is empty, and persons are never deleted.
LEMMA WelcomeLast ==
    ASSUME PageForm, AnswersJustified, Query
    PROVE  WelcomeMeansEmpty'
<1> SUFFICES ASSUME page'.name = "PersonsPage", Finished', page'.got["empty"]
             PROVE  DOMAIN page'.got["persons"] = {}
  BY DEF WelcomeMeansEmpty, Done
<1> DEFINE H == Handler[page.name]
<1>1. /\ page'.name = page.name /\ page'.got[H[Len(H)]] = Result(db, H[Len(H)], page.id)
      /\ \A n \in 1..(Len(H) - 1) : /\ H[n] \in DOMAIN page.got
                                    /\ page'.got[H[n]] = page.got[H[n]]
  BY LastQuery
<1>2. H = PersonsPage
  BY <1>1 DEF Handler
<1>3. Len(H) = 2 /\ H[1] = "persons" /\ H[2] = "empty"
  BY <1>2 DEF PersonsPage
<1> HIDE DEF H
<1>4. /\ page'.got["empty"] = Result(db, "empty", page.id)
      /\ "persons" \in DOMAIN page.got /\ page'.got["persons"] = page.got["persons"]
  <2>1. 1 \in 1..(Len(H) - 1)
    BY <1>3
  <2>2. QED
    BY <1>1, <1>3, <2>1
<1>5. DOMAIN db.persons = {}
  BY <1>4 DEF Result, IsRegistryEmpty
<1>6. page.name # "none"
  BY DEF Query
<1>7. Justified(db, "persons", page.got["persons"], page.id)
  BY <1>4, <1>6 DEF AnswersJustified
<1>8. QED
  BY <1>4, <1>5, <1>7 DEF Justified

\* The history of an entity has the rows of the log that are about it.
LEMMA HistoryRows ==
    ASSUME NEW type, NEW id
    PROVE  LET history == ListAuditForEntity(db, type, id)
           IN \A n \in DOMAIN db.audit :
                 About(db.audit[n], type, id) => n \in DOMAIN history /\ history[n] = db.audit[n]
BY DEF ListAuditForEntity, Rows, About

\* The detail pages read the history last.
LEMMA HistoryLast ==
    ASSUME PageForm, AnswersJustified, Query
    PROVE  HistoryExplainsPage'
<1> DEFINE H == Handler[page.name]
           history == ListAuditForEntity(db, "person", page.id)
           systemHistory == ListAuditForEntity(db, "system", page.id)
<1>1. page.name # "none"
  BY DEF Query
<1>2. ASSUME page'.name = "PersonDetail", Finished'
      PROVE  /\ \A i \in DOMAIN page'.got["person"] :
                   Explained(page'.got["person_history"], page'.got["person"][i])
             /\ \A i \in DOMAIN page'.got["links"] :
                   \E n \in DOMAIN page'.got["person_history"] :
                       CreatesLink(page'.got["person_history"][n], i)
  <2>1. /\ page'.name = page.name /\ page'.got[H[Len(H)]] = Result(db, H[Len(H)], page.id)
        /\ \A n \in 1..(Len(H) - 1) : /\ H[n] \in DOMAIN page.got
                                      /\ page'.got[H[n]] = page.got[H[n]]
    BY <1>2, LastQuery
  <2>2. H = PersonDetail
    BY <1>2, <2>1 DEF Handler
  <2>3. Len(H) = 4 /\ H[1] = "person" /\ H[2] = "links" /\ H[4] = "person_history"
    BY <2>2 DEF PersonDetail
  <2> HIDE DEF H
  <2>4. /\ page'.got["person_history"] = Result(db, "person_history", page.id)
        /\ "person" \in DOMAIN page.got /\ page'.got["person"] = page.got["person"]
        /\ "links" \in DOMAIN page.got /\ page'.got["links"] = page.got["links"]
    <3>1. 1 \in 1..3 /\ 2 \in 1..3
      OBVIOUS
    <3>2. QED
      BY <2>1, <2>3, <3>1
  <2>5. page'.got["person_history"] = history
    BY <2>4 DEF Result
  <2>6. /\ Justified(db, "person", page.got["person"], page.id)
        /\ Justified(db, "links", page.got["links"], page.id)
    BY <1>1, <2>4 DEF AnswersJustified
  <2>7. \A n \in DOMAIN db.audit :
           About(db.audit[n], "person", page.id) => n \in DOMAIN history /\ history[n] = db.audit[n]
    BY HistoryRows
  <2> HIDE DEF history
  <2>8. ASSUME NEW i \in DOMAIN page.got["person"] PROVE Explained(history, page.got["person"][i])
    <3>1. i = page.id /\ PersonsTold(db.audit, page.got["person"])
      BY <2>6 DEF Justified
    <3>2. \E n \in DOMAIN db.audit : /\ About(db.audit[n], "person", page.id)
                                     /\ Names(db.audit[n], page.got["person"][i].name)
      BY <3>1 DEF PersonsTold
    <3>3. QED
      BY <2>7, <3>2 DEF Explained
  <2>9. ASSUME NEW i \in DOMAIN page.got["links"]
        PROVE  \E n \in DOMAIN history : CreatesLink(history[n], i)
    <3>1. page.got["links"][i].person_id = page.id /\ LinksTold(db.audit, page.got["links"])
      BY <2>6 DEF Justified
    <3>2. \E n \in DOMAIN db.audit : About(db.audit[n], "person", page.id) /\ CreatesLink(db.audit[n], i)
      BY <3>1 DEF LinksTold
    <3>3. QED
      BY <2>7, <3>2
  <2>10. QED
    BY <2>4, <2>5, <2>8, <2>9
<1>3. ASSUME page'.name = "SystemDetail", Finished', NEW i \in DOMAIN page'.got["system"]
      PROVE  LET s == page'.got["system"][i]
                 h == page'.got["system_history"]
             IN /\ Explained(h, s)
                /\ Disabled(s) => \E n \in DOMAIN h : /\ h[n].action = "system.disable"
                                                      /\ h[n].actor.upn = s.disabled_by
  <2>1. /\ page'.name = page.name /\ page'.got[H[Len(H)]] = Result(db, H[Len(H)], page.id)
        /\ \A n \in 1..(Len(H) - 1) : /\ H[n] \in DOMAIN page.got
                                      /\ page'.got[H[n]] = page.got[H[n]]
    BY <1>3, LastQuery
  <2>2. H = SystemDetail
    BY <1>3, <2>1 DEF Handler
  <2>3. Len(H) = 2 /\ H[1] = "system" /\ H[2] = "system_history"
    BY <2>2 DEF SystemDetail
  <2> HIDE DEF H
  <2>4. /\ page'.got["system_history"] = Result(db, "system_history", page.id)
        /\ "system" \in DOMAIN page.got /\ page'.got["system"] = page.got["system"]
    BY <2>1, <2>3
  <2>5. page'.got["system_history"] = systemHistory
    BY <2>4 DEF Result
  <2>6. Justified(db, "system", page.got["system"], page.id)
    BY <1>1, <2>4 DEF AnswersJustified
  <2>7. \A n \in DOMAIN db.audit :
           About(db.audit[n], "system", page.id) =>
              n \in DOMAIN systemHistory /\ systemHistory[n] = db.audit[n]
    BY HistoryRows
  <2> HIDE DEF systemHistory
  <2>8. i = page.id /\ i \in DOMAIN page.got["system"] /\ SystemsTold(db.audit, page.got["system"])
    BY <1>3, <2>4, <2>6 DEF Justified
  <2> DEFINE s == page.got["system"][i]
  <2>9. /\ \E n \in DOMAIN db.audit : About(db.audit[n], "system", i) /\ Names(db.audit[n], s.name)
        /\ Disabled(s) => \E n \in DOMAIN db.audit : /\ About(db.audit[n], "system", i)
                                                     /\ db.audit[n].action = "system.disable"
                                                     /\ db.audit[n].actor.upn = s.disabled_by
    BY <2>8 DEF SystemsTold
  <2>10. Explained(systemHistory, s)
    BY <2>7, <2>8, <2>9 DEF Explained
  <2>11. Disabled(s) => \E n \in DOMAIN systemHistory : /\ systemHistory[n].action = "system.disable"
                                                        /\ systemHistory[n].actor.upn = s.disabled_by
    BY <2>7, <2>8, <2>9
  <2>12. QED
    BY <2>4, <2>5, <2>10, <2>11
<1>4. QED
  BY <1>2, <1>3 DEF HistoryExplainsPage, Done

\* So does the export read the log.
LEMMA ExportLast ==
    ASSUME IInv, Stamped, PageForm, AnswersJustified, Query
    PROVE  ExportIsAudited'
<1> SUFFICES ASSUME page'.name = "ExportRegistry", Finished',
                    Cardinality(DOMAIN page'.got["audit"]) < MaxAuditLimit
             PROVE  LET log == page'.got["audit"]
                        Created(action, id) == \E n \in DOMAIN log :
                                                  log[n].action = action /\ CreatedId(log[n]) = id
                        systems == page'.got["active"]
                    IN /\ \A i \in DOMAIN page'.got["persons"] :
                             Created("person.create", i) /\ Explained(log, page'.got["persons"][i])
                       /\ \A i \in DOMAIN systems :
                             Created("system.create", i) /\ Explained(log, systems[i])
                       /\ \A i \in DOMAIN page'.got["disabled"] :
                             \E n \in DOMAIN log :
                                log[n].action = "system.disable" /\ log[n].entity_id = i
                       /\ \A i \in DOMAIN page'.got["associations"] : Created("association.create", i)
                       /\ \A i \in DOMAIN page'.got["stewards"] :
                             \E n \in DOMAIN log :
                                /\ log[n].action \in {"tenant.bootstrap", "steward.promote"}
                                /\ log[n].details.oid = page'.got["stewards"][i].user_oid
  BY DEF ExportIsAudited, Done
<1> DEFINE H == Handler[page.name]
           log == page'.got["audit"]
<1>1. /\ page'.name = page.name /\ page'.got[H[Len(H)]] = Result(db, H[Len(H)], page.id)
      /\ \A n \in 1..(Len(H) - 1) : /\ H[n] \in DOMAIN page.got
                                    /\ page'.got[H[n]] = page.got[H[n]]
  BY LastQuery
<1>2. H = ExportRegistry
  BY <1>1 DEF Handler
<1>3. /\ Len(H) = 6 /\ H[1] = "persons" /\ H[2] = "active" /\ H[3] = "disabled"
      /\ H[4] = "associations" /\ H[5] = "stewards" /\ H[6] = "audit"
  BY <1>2 DEF ExportRegistry
<1> HIDE DEF H
<1>4. /\ log = Result(db, "audit", page.id)
      /\ \A q \in {"persons", "active", "disabled", "associations", "stewards"} :
            q \in DOMAIN page.got /\ page'.got[q] = page.got[q]
  <2>1. 1 \in 1..5 /\ 2 \in 1..5 /\ 3 \in 1..5 /\ 4 \in 1..5 /\ 5 \in 1..5
    OBVIOUS
  <2>2. QED
    BY <1>1, <1>3, <2>1
<1>5. DOMAIN log = DOMAIN db.audit /\ \A n \in DOMAIN db.audit : log[n] = db.audit[n]
  <2>1. log = ListAuditNewest(db)
    BY <1>4, SMTT(30) DEF Result
  <2>2. QED
    BY <2>1, WholeLog
<1>6. \A q \in {"persons", "active", "disabled", "associations", "stewards"} :
         Justified(db, q, page'.got[q], page.id)
  BY <1>4 DEF AnswersJustified, Query
<1>7. /\ PersonsTold(db.audit, page'.got["persons"])
      /\ SystemsTold(db.audit, page'.got["active"])
      /\ SystemsTold(db.audit, page'.got["disabled"])
      /\ \A i \in DOMAIN page'.got["disabled"] : Disabled(page'.got["disabled"][i])
      /\ LinksTold(db.audit, page'.got["associations"])
      /\ StewardsTold(db.audit, page'.got["stewards"])
  BY <1>6 DEF Justified
<1> HIDE DEF log
<1>8. \A t : /\ PersonsTold(db.audit, t) => PersonsTold(log, t)
             /\ SystemsTold(db.audit, t) => SystemsTold(log, t)
             /\ LinksTold(db.audit, t) => LinksTold(log, t)
             /\ StewardsTold(db.audit, t) => StewardsTold(log, t)
  <2> DEFINE rows == db.audit
  <2>1. DOMAIN log = DOMAIN rows /\ \A n \in DOMAIN rows : log[n] = rows[n]
    BY <1>5
  <2> HIDE DEF rows
  <2>2. \A t : PersonsTold(rows, t) => PersonsTold(log, t)
    BY <2>1 DEF PersonsTold
  <2>3. \A t : SystemsTold(rows, t) => SystemsTold(log, t)
    BY <2>1 DEF SystemsTold
  <2>4. \A t : LinksTold(rows, t) => LinksTold(log, t)
    BY <2>1 DEF LinksTold
  <2>5. \A t : StewardsTold(rows, t) => StewardsTold(log, t)
    BY <2>1 DEF StewardsTold
  <2>6. QED
    BY <2>2, <2>3, <2>4, <2>5 DEF rows
<1>9. \A i \in DOMAIN page'.got["persons"] :
         /\ \E n \in DOMAIN log : log[n].action = "person.create" /\ CreatedId(log[n]) = i
         /\ Explained(log, page'.got["persons"][i])
  BY <1>7, <1>8 DEF PersonsTold, Explained, CreatedId
<1>10. \A i \in DOMAIN page'.got["active"] :
         /\ \E n \in DOMAIN log : log[n].action = "system.create" /\ CreatedId(log[n]) = i
         /\ Explained(log, page'.got["active"][i])
  <2>1. SystemsTold(log, page'.got["active"])
    BY <1>7, <1>8
  <2>2. QED
    BY <2>1 DEF SystemsTold, Explained, CreatedId
<1>11. \A i \in DOMAIN page'.got["disabled"] :
         \E n \in DOMAIN log : log[n].action = "system.disable" /\ log[n].entity_id = i
  <2>1. SystemsTold(log, page'.got["disabled"])
    BY <1>7, <1>8
  <2>2. QED
    BY <1>7, <2>1 DEF SystemsTold, About
<1>12. \A i \in DOMAIN page'.got["associations"] :
         \E n \in DOMAIN log : log[n].action = "association.create" /\ CreatedId(log[n]) = i
  BY <1>7, <1>8 DEF LinksTold, CreatesLink, CreatedId
<1>13. \A i \in DOMAIN page'.got["stewards"] :
         \E n \in DOMAIN log : /\ log[n].action \in {"tenant.bootstrap", "steward.promote"}
                               /\ log[n].details.oid = page'.got["stewards"][i].user_oid
  BY <1>7, <1>8 DEF StewardsTold
<1>14. QED
  BY <1>9, <1>10, <1>11, <1>12, <1>13 DEF log

-------------------------------------------------------------------------------
(* The invariant of the pages.  The three properties are part of it: they    *)
(* speak of the page alone, so what is left to show is that they hold when   *)
(* the last answer comes in.                                                 *)

PInv == /\ IInv
        /\ Stamped
        /\ Told
        /\ PageForm
        /\ AnswersJustified
        /\ HistoryExplainsPage
        /\ ExportIsAudited
        /\ WelcomeMeansEmpty

\* No page is open at first.
LEMMA PInvInit == PagesInit => PInv
<1> SUFFICES ASSUME PagesInit PROVE PInv
  OBVIOUS
<1>1. IInv /\ Told /\ Stamped
  BY InitInv, ToldInit DEF PagesInit, ViewerInit, Init, EmptyDatabase, Stamped
<1>2. page.name = "none"
  BY DEF PagesInit, NoPage
<1>3. PageForm /\ AnswersJustified
  BY <1>2 DEF PageForm, AnswersJustified
<1>4. HistoryExplainsPage /\ ExportIsAudited /\ WelcomeMeansEmpty
  BY <1>2 DEF HistoryExplainsPage, ExportIsAudited, WelcomeMeansEmpty, Done
<1>5. QED
  BY <1>1, <1>3, <1>4 DEF PInv

\* The registry moves on: the answers stay as they are, and justified.
LEMMA ElsewhereInv ==
    ASSUME PInv, Elsewhere
    PROVE  PInv'
<1> USE DEF PInv
<1>1. PICK t \in Times : WriteStamped(t)
  BY DEF Elsewhere
<1>2. Next /\ Stamp(t) /\ page' = page
  BY <1>1 DEF WriteStamped, Elsewhere
<1>3. IInv' /\ Told' /\ Stamped'
  BY <1>2, NextInv, ToldStep, StampedStep
<1>4. AnswersJustified'
  BY <1>2, JustifiedStays DEF AnswersJustified
<1>5. PageForm'
  BY <1>2 DEF PageForm
<1>6. HistoryExplainsPage' /\ ExportIsAudited' /\ WelcomeMeansEmpty'
  BY <1>2 DEF HistoryExplainsPage, ExportIsAudited, WelcomeMeansEmpty, Done, Finished
<1>7. QED
  BY <1>3, <1>4, <1>5, <1>6

\* A page that is opened has no answers yet, and so is not done.
LEMMA OpenInv ==
    ASSUME PInv, NEW p \in Opened, Open(p[1], p[2])
    PROVE  PInv'
<1> USE DEF PInv
<1>1. /\ page' = [name |-> p[1], id |-> p[2], got |-> [q \in {} |-> {}]]
      /\ UNCHANGED <<db, stamps>>
  BY DEF Open, viewerVars
<1>2. p[1] \in DOMAIN Handler
  BY OpenedAssumption
<1>3. [Next]_db
  BY <1>1
<1>4. IInv' /\ Told' /\ Stamped'
  BY <1>1, <1>3, NextInv, ToldStep DEF Stamped
<1>5. page'.name = p[1] /\ DOMAIN page'.got = {}
  BY <1>1
<1>6. PageForm'
  <2>1. page' = [name |-> page'.name, id |-> page'.id, got |-> page'.got]
    BY <1>1
  <2>2. DOMAIN page'.got = Asked(page'.name, 0)
    BY <1>5 DEF Asked
  <2>3. 0 \in 0..Len(Handler[page'.name])
    BY <1>2, <1>5, HandlerQueries
  <2>4. QED
    BY <1>2, <1>5, <2>1, <2>2, <2>3 DEF PageForm
<1>7. AnswersJustified'
  BY <1>5 DEF AnswersJustified
<1>8. ~Finished'
  <2>1. Handler[page'.name][1] \in {Handler[page'.name][n] : n \in DOMAIN Handler[page'.name]}
    BY <1>2, <1>5, HandlerQueries
  <2>2. QED
    BY <1>5, <2>1 DEF Finished
<1>9. HistoryExplainsPage' /\ ExportIsAudited' /\ WelcomeMeansEmpty'
  BY <1>8 DEF HistoryExplainsPage, ExportIsAudited, WelcomeMeansEmpty, Done
<1>10. QED
  BY <1>4, <1>6, <1>7, <1>9

\* A query adds an answer that the present log justifies.
LEMMA QueryInv ==
    ASSUME PInv, Query
    PROVE  PInv'
<1> USE DEF PInv
<1>1. UNCHANGED <<db, stamps>> /\ page.name # "none"
  BY DEF Query, viewerVars
<1>2. [Next]_db
  BY <1>1
<1>3. IInv' /\ Told' /\ Stamped'
  BY <1>1, <1>2, NextInv, ToldStep DEF Stamped
<1> DEFINE H == Handler[page.name]
<1>4. PICK k \in 0..(Len(H) - 1) :
         /\ DOMAIN page.got = Asked(page.name, k)
         /\ page' = [name |-> page.name, id |-> page.id, got |-> page'.got]
         /\ page'.got = [x \in Asked(page.name, k + 1) |->
                           IF x = H[k + 1] THEN Result(db, H[k + 1], page.id) ELSE page.got[x]]
  BY QueryMoves
<1>5. page'.name = page.name /\ page'.id = page.id
  BY <1>4
<1>6. page.name \in DOMAIN Handler /\ Len(H) \in Nat \ {0} /\ DOMAIN H = 1..Len(H)
  BY QueryMoves, HandlerQueries
<1>7. PageForm'
  <2>1. k + 1 \in 0..Len(H)
    BY <1>6
  <2>2. DOMAIN page'.got = Asked(page'.name, k + 1)
    BY <1>4, <1>5
  <2>3. page' = [name |-> page'.name, id |-> page'.id, got |-> page'.got]
    BY <1>4, <1>5
  <2>4. page'.name \in DOMAIN Handler /\ k + 1 \in 0..Len(Handler[page'.name])
    BY <1>5, <1>6, <2>1
  <2>5. QED
    BY <2>2, <2>3, <2>4 DEF PageForm
<1>8. AnswersJustified'
  <2>1. SUFFICES ASSUME NEW q \in DOMAIN page'.got
                 PROVE  Justified(db, q, page'.got[q], page.id)
    BY <1>1, <1>5 DEF AnswersJustified
  <2>2. CASE q = H[k + 1]
    <3>1. page'.got[q] = Result(db, q, page.id)
      BY <1>4, <2>2
    <3>2. QED
      BY <3>1, ResultJustified
  <2>3. CASE q # H[k + 1]
    <3>1. q \in Asked(page.name, k + 1) /\ page'.got[q] = page.got[q]
      BY <1>4, <2>3
    <3>2. q \in DOMAIN page.got
      <4>1. PICK n \in 1..(k + 1) : q = H[n]
        BY <3>1 DEF Asked
      <4>2. n \in 1..k
        BY <1>6, <2>3, <4>1
      <4>3. QED
        BY <1>4, <4>1, <4>2 DEF Asked
    <3>3. QED
      BY <1>1, <3>1, <3>2 DEF AnswersJustified
  <2>4. QED
    BY <2>2, <2>3
<1>9. HistoryExplainsPage' /\ ExportIsAudited' /\ WelcomeMeansEmpty'
  BY HistoryLast, ExportLast, WelcomeLast
<1>10. QED
  BY <1>3, <1>7, <1>8, <1>9

\* Every step keeps the invariant.
LEMMA PInvStep == PInv /\ [PagesNext]_pageVars => PInv'
<1> SUFFICES ASSUME PInv, [PagesNext]_pageVars PROVE PInv'
  OBVIOUS
<1>1. CASE UNCHANGED pageVars
  <2>1. UNCHANGED <<db, stamps, page>>
    BY <1>1 DEF pageVars, viewerVars
  <2>2. [Next]_db
    BY <2>1
  <2>3. IInv' /\ Told' /\ Stamped'
    BY <2>1, <2>2, NextInv, ToldStep DEF PInv, Stamped
  <2>4. PageForm' /\ AnswersJustified'
    BY <2>1 DEF PInv, PageForm, AnswersJustified
  <2>5. HistoryExplainsPage' /\ ExportIsAudited' /\ WelcomeMeansEmpty'
    BY <2>1 DEF PInv, HistoryExplainsPage, ExportIsAudited, WelcomeMeansEmpty, Done, Finished
  <2>6. QED
    BY <2>3, <2>4, <2>5 DEF PInv
<1>2. QED
  BY <1>1, OpenInv, QueryInv, ElsewhereInv DEF PagesNext

\* The pages' invariant holds while the registry moves on under them.
THEOREM PagesInvariant == PagesSpec => []PInv
BY PInvInit, PInvStep, PTL DEF PagesSpec

\* "The first-run welcome, which shows only until the first data lands" (store.go) is
\* never shown above a list that has rows, though list and check are two queries.
THEOREM WelcomeIsForTheEmpty == PagesSpec => []WelcomeMeansEmpty
<1>1. PInv => WelcomeMeansEmpty
  BY DEF PInv
<1>2. QED
  BY <1>1, PagesInvariant, PTL

\* A detail page, four queries or two, shows no state that the history below it, read
\* last, does not account for, whatever is written in between.
THEOREM HistoryExplains == PagesSpec => []HistoryExplainsPage
<1>1. PInv => HistoryExplainsPage
  BY DEF PInv
<1>2. QED
  BY <1>1, PagesInvariant, PTL

\* The log in an export is read last, and accounts for every row of its other files
\* unless it is cut off.
THEOREM ExportAudited == PagesSpec => []ExportIsAudited
<1>1. PInv => ExportIsAudited
  BY DEF PInv
<1>2. QED
  BY <1>1, PagesInvariant, PTL

================================================================================
