------------------------- MODULE SessionFileProofs --------------------------
(***************************************************************************)
(* Laws of the session file: what materialising an event does to any file, *)
(* for any number of events and records.                                   *)
(***************************************************************************)
EXTENDS SessionFile, SequenceTheorems, FiniteSetTheorems, TLAPS

\* A finite set of records has a rank for each record, and each rank below its
\* size has a record.
LEMMA RankSurjective ==
  ASSUME NEW S \in SUBSET Nat, IsFiniteSet(S)
  PROVE  /\ Cardinality(S) \in Nat
         /\ \A n \in S : Rank(S, n) \in 0..(Cardinality(S) - 1)
         /\ \A m, n \in S : m < n => Rank(S, m) < Rank(S, n)
         /\ \A i \in 1..Cardinality(S) : \E n \in S : Rank(S, n) = i - 1
<1> DEFINE f == [n \in S |-> Rank(S, n)]
<1>1. PICK c \in Nat : c = Cardinality(S) BY FS_CardinalityType
<1>2. ASSUME NEW n \in S
      PROVE  IsFiniteSet(Before(S, n)) /\ Rank(S, n) \in Nat /\ Rank(S, n) < c
  <2>1. Before(S, n) \in SUBSET S /\ Before(S, n) # S BY DEF Before
  <2>2. IsFiniteSet(Before(S, n)) /\ Cardinality(Before(S, n)) <= c /\ Cardinality(Before(S, n)) # c
    BY <1>1, <2>1, FS_Subset
  <2>3. Cardinality(Before(S, n)) \in Nat BY <2>2, FS_CardinalityType
  <2>4. QED BY <2>2, <2>3, <1>1 DEF Rank
<1>3. ASSUME NEW m \in S, NEW n \in S, m < n PROVE Rank(S, m) < Rank(S, n)
  <2>1. IsFiniteSet(Before(S, m)) /\ IsFiniteSet(Before(S, n)) BY <1>2
  <2>2. m \notin Before(S, m) /\ Before(S, m) \cup {m} \in SUBSET Before(S, n)
    <3>1. m \in Nat /\ n \in Nat /\ S \subseteq Nat OBVIOUS
    <3>2. ~(m < m) /\ \A x \in Nat : x < m => x < n BY <1>3, <3>1
    <3>3. QED BY <1>3, <3>1, <3>2, Zenon DEF Before
  <2>3. Cardinality(Before(S, m) \cup {m}) = Cardinality(Before(S, m)) + 1
    BY <2>1, <2>2, FS_AddElement
  <2>4. Cardinality(Before(S, m) \cup {m}) <= Cardinality(Before(S, n))
    BY <2>1, <2>2, FS_Subset
  <2>5. Rank(S, m) = Cardinality(Before(S, m)) /\ Rank(S, n) = Cardinality(Before(S, n)) BY DEF Rank
  <2>6. Rank(S, m) \in Nat /\ Rank(S, n) \in Nat BY <1>2
  <2>7. QED BY <2>3, <2>4, <2>5, <2>6
<1>4. \A i \in 1..c : \E n \in S : Rank(S, n) = i - 1
  <2>1. f \in [S -> 0..(c - 1)] BY <1>1, <1>2
  <2>2. \A m, n \in S : f[m] = f[n] => m = n BY <1>2, <1>3
  <2>3. f \in Injection(S, 0..(c - 1)) BY <2>1, <2>2 DEF Injection, IsInjective
  <2>4. IsFiniteSet(0..(c - 1)) /\ Cardinality(0..(c - 1)) = c BY FS_Interval
  <2>5. f \in Surjection(S, 0..(c - 1)) BY <1>1, <2>3, <2>4, FS_Injection
  <2>6. \A j \in 0..(c - 1) : \E n \in S : f[n] = j BY <2>5 DEF Surjection
  <2>7. QED BY <2>6, <1>1
<1>5. \A n \in S : Rank(S, n) \in 0..(c - 1) BY <1>1, <1>2
<1>6. QED BY <1>1, <1>3, <1>4, <1>5

\* Records put into spool order are these records, each of them once.
LEMMA SpoolOrder ==
  ASSUME NEW S \in SUBSET Nat, IsFiniteSet(S)
  PROVE  /\ InSpoolOrder(S) \in Seq(S)
         /\ Len(InSpoolOrder(S)) = Cardinality(S)
         /\ \A n \in S : \E i \in 1..Len(InSpoolOrder(S)) : InSpoolOrder(S)[i] = n
         /\ \A i, j \in 1..Len(InSpoolOrder(S)) :
              i < j => InSpoolOrder(S)[i] < InSpoolOrder(S)[j]
<1> DEFINE s == InSpoolOrder(S)
<1>1. PICK c \in Nat :
        /\ c = Cardinality(S)
        /\ \A n \in S : Rank(S, n) \in 0..(c - 1)
        /\ \A m, n \in S : m < n => Rank(S, m) < Rank(S, n)
        /\ \A i \in 1..c : \E n \in S : Rank(S, n) = i - 1
  BY RankSurjective
<1>2. \A i \in 1..c : s[i] \in S /\ Rank(S, s[i]) = i - 1 BY <1>1 DEF InSpoolOrder
<1>3. s \in [1..c -> S] BY <1>1, <1>2 DEF InSpoolOrder
<1>4. s \in Seq(S) /\ Len(s) = c BY <1>1, <1>3
<1>5. ASSUME NEW n \in S PROVE \E i \in 1..c : s[i] = n
  <2>1. Rank(S, n) + 1 \in 1..c BY <1>1
  <2>2. s[Rank(S, n) + 1] \in S /\ Rank(S, s[Rank(S, n) + 1]) = Rank(S, n)
    BY <1>1, <1>2, <2>1
  <2>3. PICK m \in Nat : m = s[Rank(S, n) + 1] BY <2>2
  <2>4. m = n BY <1>1, <2>2, <2>3
  <2>5. QED BY <2>1, <2>3, <2>4
<1>6. ASSUME NEW i \in 1..c, NEW j \in 1..c, i < j PROVE s[i] < s[j]
  <2>1. PICK m \in S, n \in S : m = s[i] /\ n = s[j] BY <1>2
  <2>2. m \in Nat /\ n \in Nat /\ Rank(S, m) = i - 1 /\ Rank(S, n) = j - 1 BY <1>2, <2>1
  <2>3. ~(n < m) /\ n # m BY <1>1, <1>6, <2>2
  <2>4. QED BY <2>1, <2>2, <2>3
<1>7. QED BY <1>1, <1>4, <1>5, <1>6

\* The records of an interval in spool order are the interval.
LEMMA SpoolOrderOfInterval ==
  ASSUME NEW k \in Nat, NEW b \in Nat, k <= b
  PROVE  InSpoolOrder((k + 1)..b) = [i \in 1..(b - k) |-> k + i]
<1> DEFINE S == (k + 1)..b
<1>1. Cardinality((k + 1)..b) = b - k
  <2>1. PICK a \in Nat : a = k + 1 OBVIOUS
  <2>2. Cardinality(a..b) = IF a > b THEN 0 ELSE b - a + 1 BY FS_Interval
  <2>3. QED BY <2>1, <2>2
<1>2. ASSUME NEW n \in S PROVE Rank(S, n) = n - (k + 1)
  <2>1. Before(S, n) = (k + 1)..(n - 1) BY DEF Before
  <2>2. Cardinality((k + 1)..(n - 1)) = n - (k + 1) BY FS_Interval
  <2>3. QED BY <2>1, <2>2 DEF Rank
<1>3. ASSUME NEW i \in 1..(b - k)
      PROVE  (CHOOSE n \in S : Rank(S, n) = i - 1) = k + i
  <2>1. k + i \in S /\ Rank(S, k + i) = i - 1 BY <1>2
  <2>2. \A n \in S : Rank(S, n) = i - 1 => n = k + i BY <1>2
  <2>3. QED BY <2>1, <2>2
<1>4. QED BY <1>1, <1>3 DEF InSpoolOrder

-----------------------------------------------------------------------------
\* A file whose rows are records, none of them beyond a bound.
RowsUpTo(file, n) == file.rows \in Seq(1..n)

\* What is missing lies in the interval, and all of it is added, once.
LEMMA NewRowsProperties ==
  ASSUME NEW file, NEW cursor \in Nat, NEW bound \in Nat
  PROVE  /\ Missing(file, cursor, bound) \in SUBSET (1..bound)
         /\ NewRows(file, cursor, bound) \in Seq(1..bound)
         /\ \A n \in Missing(file, cursor, bound) :
              \E i \in 1..Len(NewRows(file, cursor, bound)) :
                NewRows(file, cursor, bound)[i] = n
<1> DEFINE M == Missing(file, cursor, bound)
<1>1. M \in SUBSET (1..bound) /\ M \in SUBSET Nat BY DEF Missing, RecordsBetween
<1> HIDE DEF M
<1>2. IsFiniteSet(M)
  <2>1. IsFiniteSet(1..bound) BY FS_Interval
  <2>2. QED BY <1>1, <2>1, FS_Subset
<1>3. /\ InSpoolOrder(M) \in Seq(M)
      /\ \A n \in M : \E i \in 1..Len(InSpoolOrder(M)) : InSpoolOrder(M)[i] = n
  BY <1>1, <1>2, SpoolOrder
<1>4. InSpoolOrder(M) \in Seq(1..bound) BY <1>1, <1>3, SeqMonotonic
<1>5. QED BY <1>1, <1>3, <1>4 DEF NewRows, M

\* Nothing missing, no rows.
LEMMA NoNewRows ==
  ASSUME NEW file, NEW cursor, NEW bound, Missing(file, cursor, bound) = {}
  PROVE  NewRows(file, cursor, bound) = <<>>
<1>1. Cardinality({}) = 0 BY FS_EmptySet
<1>2. InSpoolOrder({}) \in Seq({}) /\ Len(InSpoolOrder({})) = 0
  BY <1>1, FS_EmptySet, SpoolOrder
<1>3. QED BY <1>2, EmptySeq DEF NewRows

\* What is in one of two sequences is in their concatenation.
LEMMA InConcatenation ==
  ASSUME NEW a \in Seq(Nat), NEW b \in Seq(Nat)
  PROVE  /\ \A i \in 1..Len(a) : \E j \in 1..Len(a \o b) : (a \o b)[j] = a[i]
         /\ \A i \in 1..Len(b) : \E j \in 1..Len(a \o b) : (a \o b)[j] = b[i]
<1>1. PICK k \in Nat, l \in Nat, c \in {a \o b} : k = Len(a) /\ l = Len(b) /\ c = a \o b
  BY LenProperties
<1>2. Len(c) = k + l /\ \A i \in 1..(k + l) : c[i] = IF i <= k THEN a[i] ELSE b[i - k]
  BY <1>1, ConcatProperties
<1>3. ASSUME NEW i \in 1..k PROVE \E j \in 1..Len(c) : c[j] = a[i]
  <2>1. i \in 1..(k + l) /\ i <= k OBVIOUS
  <2>2. QED BY <1>2, <2>1
<1>4. ASSUME NEW i \in 1..l PROVE \E j \in 1..Len(c) : c[j] = b[i]
  <2>1. PICK j \in Nat : j = k + i OBVIOUS
  <2>2. j \in 1..(k + l) /\ ~(j <= k) /\ j - k = i BY <2>1
  <2>3. QED BY <1>2, <2>2
<1>5. QED BY <1>1, <1>3, <1>4

\* Materialising the same descriptor again, as a worker does that crashed
\* between the commit and the deletion of the descriptor, changes nothing.
THEOREM MaterializeIdempotent ==
  ASSUME NEW n \in Nat, NEW file, RowsUpTo(file, n),
         NEW e, NEW cursor \in Nat, NEW bound \in Nat
  PROVE  LET once == Materialized(file, e, cursor, bound)
         IN  Materialized(once, e, cursor, bound) = once
<1> DEFINE once == Materialized(file, e, cursor, bound)
           new == NewRows(file, cursor, bound)
<1>1. file.rows \in Seq(Nat) /\ new \in Seq(Nat)
  <2>1. file.rows \in Seq(Nat) BY SeqMonotonic, 1..n \subseteq Nat DEF RowsUpTo
  <2>2. new \in Seq(1..bound) BY NewRowsProperties
  <2>3. new \in Seq(Nat) BY <2>2, SeqMonotonic, 1..bound \subseteq Nat
  <2>4. QED BY <2>1, <2>3
<1>2. once.rows = file.rows \o new BY DEF Materialized
<1>3. once.rows \in Seq(Nat) BY <1>1, <1>2, ConcatProperties
<1>4. Missing(once, cursor, bound) = {}
  <2> SUFFICES ASSUME NEW m \in RecordsBetween(cursor, bound)
               PROVE  \E i \in 1..Len(once.rows) : once.rows[i] = m
    BY DEF Missing
  <2>1. (\E i \in 1..Len(file.rows) : file.rows[i] = m) \/ (\E i \in 1..Len(new) : new[i] = m)
    <3>1. m \in Missing(file, cursor, bound) => \E i \in 1..Len(new) : new[i] = m
      BY NewRowsProperties
    <3> HIDE DEF new
    <3>2. QED BY <3>1 DEF Missing
  <2> HIDE DEF new
  <2>2. PICK a \in Seq(Nat), b \in Seq(Nat), c \in {once.rows} :
          a = file.rows /\ b = new /\ c = a \o b /\ c = once.rows
    BY <1>1, <1>2
  <2> HIDE DEF once
  <2>3. CASE \E i \in 1..Len(a) : a[i] = m
    <3>1. PICK i \in 1..Len(a) : a[i] = m BY <2>3
    <3>2. \E j \in 1..Len(a \o b) : (a \o b)[j] = a[i] BY <3>1, InConcatenation, Zenon
    <3>3. QED BY <2>2, <3>1, <3>2
  <2>4. CASE \E i \in 1..Len(b) : b[i] = m
    <3>1. PICK i \in 1..Len(b) : b[i] = m BY <2>4
    <3>2. \E j \in 1..Len(a \o b) : (a \o b)[j] = b[i] BY <3>1, InConcatenation, Zenon
    <3>3. QED BY <2>2, <3>1, <3>2
  <2>5. QED BY <2>1, <2>2, <2>3, <2>4
<1>5. NewRows(once, cursor, bound) = <<>> BY <1>4, NoNewRows
<1>6. once.rows \o <<>> = once.rows BY <1>3, ConcatEmptySeq
<1>7. e \in once.known /\ once.known \cup {e} = once.known BY DEF Materialized
<1>8. Materialized(once, e, cursor, bound) =
        [known |-> once.known, checkpoints |-> once.checkpoints,
         rows |-> once.rows, status |-> once.status]
  BY <1>5, <1>6, <1>7 DEF Materialized
<1>9. QED BY <1>8 DEF Materialized

\* If a file holds the first records of the spool in order, and the cursor has
\* not overtaken it, then it still does after an event, up to the event's bound.
LEMMA RowsStayConsecutive ==
  ASSUME NEW n \in Nat, NEW file, RowsUpTo(file, n),
         \A i \in 1..Len(file.rows) : file.rows[i] = i,
         NEW e, NEW cursor \in Nat, NEW bound \in Nat, cursor <= Len(file.rows)
  PROVE  LET after == Materialized(file, e, cursor, bound)
         IN  /\ \A i \in 1..Len(after.rows) : after.rows[i] = i
             /\ Len(after.rows) \in Nat /\ bound <= Len(after.rows)
             /\ Len(file.rows) <= Len(after.rows)
             /\ after.rows = file.rows => bound <= Len(file.rows)
<1> DEFINE after == Materialized(file, e, cursor, bound)
<1>1. PICK k \in Nat : k = Len(file.rows) /\ file.rows \in Seq(Nat)
  BY SeqMonotonic, LenProperties DEF RowsUpTo
<1>2. Missing(file, cursor, bound) = (k + 1)..bound
  BY <1>1 DEF Missing, RecordsBetween
<1>3. CASE bound <= k
  <2>1. NewRows(file, cursor, bound) = <<>> BY <1>2, <1>3, NoNewRows
  <2>2. after.rows = file.rows BY <1>1, <2>1, ConcatEmptySeq DEF Materialized
  <2>3. QED BY <1>1, <1>3, <2>2
<1>4. CASE k < bound
  <2> DEFINE new == [i \in 1..(bound - k) |-> k + i]
  <2>1. NewRows(file, cursor, bound) = new BY <1>2, <1>4, SpoolOrderOfInterval DEF NewRows
  <2>2. bound - k \in Nat /\ new \in Seq(Nat) /\ Len(new) = bound - k BY <1>4
  <2>3. after.rows = file.rows \o new BY <2>1 DEF Materialized
  <2>4. /\ Len(after.rows) = bound
        /\ \A i \in 1..bound : after.rows[i] = IF i <= k THEN file.rows[i] ELSE new[i - k]
    <3> HIDE DEF new
    <3>1. Len(file.rows \o new) = Len(file.rows) + Len(new)
          /\ \A i \in 1..(Len(file.rows) + Len(new)) :
               (file.rows \o new)[i] = IF i <= Len(file.rows) THEN file.rows[i]
                                       ELSE new[i - Len(file.rows)]
      BY <1>1, <2>2, ConcatProperties
    <3>2. Len(file.rows) + Len(new) = bound BY <1>1, <2>2
    <3>3. QED BY <1>1, <2>3, <3>1, <3>2
  <2>5. ASSUME NEW i \in 1..bound PROVE after.rows[i] = i
    <3>1. CASE i <= k
      <4>1. i \in 1..Len(file.rows) BY <1>1, <3>1
      <4>2. file.rows[i] = i BY <4>1
      <4>3. after.rows[i] = file.rows[i]
        <5> HIDE DEF new, after
        <5>1. QED BY <2>4, <3>1
      <4>4. QED BY <4>2, <4>3
    <3>2. CASE ~(i <= k)
      <4>1. PICK j \in 1..(bound - k) : j = i - k BY <1>4, <3>2
      <4>2. new[j] = k + j /\ k + j = i BY <4>1
      <4>3. QED BY <2>4, <3>2, <4>1, <4>2
    <3>3. QED BY <3>1, <3>2
  <2>6. QED BY <1>1, <1>4, <2>4, <2>5
<1>5. QED BY <1>1, <1>3, <1>4
=============================================================================
