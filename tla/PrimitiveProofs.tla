-------------------------- MODULE PrimitiveProofs -------------------------
(***************************************************************************)
(* Theorems about the task pool (task_pool.h, thread_pool.h), for any set  *)
(* of tasks and any clock range: it implements TaskService, its vector of  *)
(* timers stays sorted, and its worker loses no wakeup; and about          *)
(* safe::queue_t, safe::event_t and safe::mail_raw_t (thread_safe.h), for  *)
(* any threads, capacity and mailbox names.                                *)
(***************************************************************************)
EXTENDS TaskPool, ThreadSafe, Integers, SequenceTheorems, FiniteSetTheorems,
        WellFoundedInduction, TLAPS

(***************************************************************************)
(* The vector of timers.                                                   *)
(***************************************************************************)
Entry == [at : Nat, id : Task]

\* Latest first.
Sorted(ts) == \A i, j \in DOMAIN ts : i <= j => ts[j].at <= ts[i].at

\* r is ts with e added at position k.
InsertedAt(r, ts, k, e) ==
  /\ r \in Seq(Entry) /\ Len(r) = Len(ts) + 1 /\ r[k] = e
  /\ \A i \in 1 .. Len(ts) : r[IF i < k THEN i ELSE i + 1] = ts[i]

\* A non-empty set of naturals has a least element.
LEMMA MinNat ==
  ASSUME NEW S \in SUBSET Nat, S # {}
  PROVE  Min(S) \in S /\ \A y \in S : Min(S) <= y
<1>1. \E x \in S : \A y \in S : ~(<<y, x>> \in OpToRel(<, Nat))
  BY NatLessThanWellFounded, WFMin
<1>2. \A x, y \in Nat : y < x => <<y, x>> \in OpToRel(<, Nat)
  BY DEF OpToRel
<1>3. \E x \in S : \A y \in S : x <= y
  <2>1. PICK x \in S : \A y \in S : ~(<<y, x>> \in OpToRel(<, Nat))
    BY <1>1
  <2>2. \A y \in S : ~(y < x)
    BY <1>2, <2>1
  <2> QED
    BY <2>2
<1> QED
  BY <1>3 DEF Min

\* InsertAt inserts.
LEMMA InsertAtInserts ==
  ASSUME NEW ts \in Seq(Entry), NEW k \in 1 .. Len(ts) + 1, NEW e \in Entry
  PROVE  InsertedAt(InsertAt(ts, k, e), ts, k, e)
<1> DEFINE a == SubSeq(ts, 1, k - 1)
           b == SubSeq(ts, k, Len(ts))
<1>1. Len(ts) \in Nat /\ \A i \in 1 .. Len(ts) : ts[i] \in Entry
  BY LenProperties, ElementOfSeq
<1>2. /\ a \in Seq(Entry) /\ Len(a) = k - 1
      /\ \A i \in 1 .. k - 1 : a[i] = ts[i]
  BY <1>1, SubSeqProperties
<1>3. /\ b \in Seq(Entry) /\ Len(b) = Len(ts) - k + 1
      /\ \A i \in 1 .. Len(ts) - k + 1 : b[i] = ts[k + i - 1]
  BY <1>1, SubSeqProperties
<1> HIDE DEF a, b
<1>4. <<e>> \in Seq(Entry) /\ Len(<<e>>) = 1 /\ <<e>>[1] = e
  OBVIOUS
<1>5. /\ a \o <<e>> \in Seq(Entry) /\ Len(a \o <<e>>) = k
      /\ \A i \in 1 .. k - 1 : (a \o <<e>>)[i] = ts[i]
      /\ (a \o <<e>>)[k] = e
  BY <1>2, <1>4, ConcatProperties
<1> DEFINE c == a \o <<e>>
<1>6. /\ c \in Seq(Entry) /\ Len(c) = k /\ c[k] = e
      /\ \A i \in 1 .. k - 1 : c[i] = ts[i]
  BY <1>5
<1>7. InsertAt(ts, k, e) = c \o b
  BY DEF InsertAt, a, b
<1> HIDE DEF c
<1>8. /\ c \o b \in Seq(Entry) /\ Len(c \o b) = Len(ts) + 1
      /\ \A i \in 1 .. Len(ts) + 1 :
           (c \o b)[i] = IF i <= k THEN c[i] ELSE b[i - k]
  BY <1>1, <1>3, <1>6, ConcatProperties
<1>9. ASSUME NEW i \in 1 .. Len(ts)
      PROVE  (c \o b)[IF i < k THEN i ELSE i + 1] = ts[i]
  <2>1. CASE i < k
    BY <1>1, <1>6, <1>8, <2>1
  <2>2. CASE ~(i < k)
    <3>1. (c \o b)[i + 1] = b[i + 1 - k]
      BY <1>1, <1>8, <2>2
    <3>2. b[i + 1 - k] = ts[k + (i + 1 - k) - 1]
      BY <1>1, <1>3, <2>2
    <3>3. k + (i + 1 - k) - 1 = i
      BY <1>1
    <3> QED
      BY <2>2, <3>1, <3>2, <3>3
  <2> QED
    BY <2>1, <2>2
<1> QED
  BY <1>1, <1>6, <1>7, <1>8, <1>9 DEF InsertedAt

\* pushDelayed: the entry goes in front of the first one due earlier, so the
\* entries before it are due no earlier and those behind it no later.
LEMMA InsertTimerInserts ==
  ASSUME NEW ts \in Seq(Entry), Sorted(ts), NEW e \in Entry
  PROVE  \E k \in 1 .. Len(ts) + 1 :
           /\ InsertedAt(InsertTimer(ts, e), ts, k, e)
           /\ \A i \in 1 .. Len(ts) :
                IF i < k THEN e.at <= ts[i].at ELSE ts[i].at <= e.at
<1> DEFINE I == {i \in 1 .. Len(ts) : ts[i].at < e.at}
           k == IF I = {} THEN Len(ts) + 1 ELSE Min(I)
<1>1. /\ Len(ts) \in Nat /\ DOMAIN ts = 1 .. Len(ts)
      /\ \A i \in 1 .. Len(ts) : ts[i] \in Entry
  BY LenProperties, ElementOfSeq
<1>2. I # {} => Min(I) \in I /\ \A i \in I : Min(I) <= i
  <2>1. I \in SUBSET Nat
    BY <1>1
  <2> HIDE DEF I
  <2> QED
    BY <2>1, MinNat
<1>3. InsertTimer(ts, e) = InsertAt(ts, k, e)
  <2>1. I # {} => Min(I) # 0
    BY <1>1, <1>2
  <2> QED
    BY <2>1 DEF InsertTimer, SelectInSeq
<1>4. k \in 1 .. Len(ts) + 1
  BY <1>1, <1>2
<1>5. InsertedAt(InsertAt(ts, k, e), ts, k, e)
  BY <1>4, InsertAtInserts
<1>6. ASSUME NEW i \in 1 .. Len(ts), i < k PROVE e.at <= ts[i].at
  <2>1. i \notin I
    <3> SUFFICES ASSUME i \in I PROVE FALSE
      OBVIOUS
    <3>1. I # {} /\ k = Min(I) /\ k <= i
      BY <1>2
    <3> QED
      BY <1>1, <1>4, <1>6, <3>1
  <2> QED
    BY <1>1, <2>1 DEF Entry
<1>7. ASSUME NEW i \in 1 .. Len(ts), ~(i < k) PROVE ts[i].at <= e.at
  <2>1. k = IF I = {} THEN Len(ts) + 1 ELSE Min(I)
    OBVIOUS
  <2>2. \A j \in I : j \in 1 .. Len(ts) /\ ts[j].at < e.at
    OBVIOUS
  <2> HIDE DEF k, I
  <2>3. I # {}
    <3> SUFFICES ASSUME I = {} PROVE FALSE
      OBVIOUS
    <3> QED
      BY <1>1, <1>7, <2>1
  <2>4. k \in I
    BY <1>2, <2>1, <2>3
  <2>5. k \in 1 .. Len(ts) /\ ts[k].at < e.at /\ k <= i
    BY <1>1, <1>7, <2>2, <2>4
  <2>6. ts[i].at <= ts[k].at
    BY <1>1, <2>5 DEF Sorted
  <2>7. ts[k].at \in Nat /\ ts[i].at \in Nat /\ e.at \in Nat
    BY <1>1, <2>5 DEF Entry
  <2> QED
    BY <2>5, <2>6, <2>7
<1> QED
  BY <1>3, <1>4, <1>5, <1>6, <1>7

\* A vector of timers as the pool keeps it: sorted, one entry per task.
Distinct(ts) == \A i, j \in DOMAIN ts : ts[i].id = ts[j].id => i = j
Vector(ts) == ts \in Seq(Entry) /\ Sorted(ts) /\ Distinct(ts)
Ids(ts) == {ts[i].id : i \in DOMAIN ts}

\* pushDelayed keeps the vector in order and adds the one entry.
LEMMA InsertTimerKeeps ==
  ASSUME NEW ts, Vector(ts), NEW e \in Entry, e.id \notin Ids(ts)
  PROVE  /\ Vector(InsertTimer(ts, e))
         /\ ToSet(InsertTimer(ts, e)) = ToSet(ts) \cup {e}
<1> DEFINE r == InsertTimer(ts, e)
<1>1. PICK k \in 1 .. Len(ts) + 1 :
        /\ InsertedAt(r, ts, k, e)
        /\ \A i \in 1 .. Len(ts) :
             IF i < k THEN e.at <= ts[i].at ELSE ts[i].at <= e.at
  BY InsertTimerInserts DEF Vector
<1> HIDE DEF r
<1>2. /\ Len(ts) \in Nat /\ DOMAIN ts = 1 .. Len(ts)
      /\ \A i \in 1 .. Len(ts) : ts[i] \in Entry
  BY LenProperties, ElementOfSeq DEF Vector
<1>3. r \in Seq(Entry) /\ Len(r) = Len(ts) + 1 /\ DOMAIN r = 1 .. Len(ts) + 1
  BY <1>1, <1>2, LenProperties DEF InsertedAt
<1>4. /\ r[k] = e
      /\ \A i \in 1 .. Len(ts) + 1 :
           /\ i < k => r[i] = ts[i] /\ i \in 1 .. Len(ts)
           /\ i > k => r[i] = ts[i - 1] /\ i - 1 \in 1 .. Len(ts)
  <2>1. r[k] = e
    BY <1>1 DEF InsertedAt
  <2>2. ASSUME NEW i \in 1 .. Len(ts) + 1, i < k
        PROVE  r[i] = ts[i] /\ i \in 1 .. Len(ts)
    BY <1>1, <1>2, <2>2 DEF InsertedAt
  <2>3. ASSUME NEW i \in 1 .. Len(ts) + 1, i > k
        PROVE  r[i] = ts[i - 1] /\ i - 1 \in 1 .. Len(ts)
    <3>1. i - 1 \in 1 .. Len(ts) /\ ~(i - 1 < k) /\ (i - 1) + 1 = i
      BY <1>2, <2>3
    <3> QED
      BY <1>1, <3>1 DEF InsertedAt
  <2> QED
    BY <2>1, <2>2, <2>3
<1>5. Sorted(r)
  <2> SUFFICES ASSUME NEW i \in 1 .. Len(ts) + 1, NEW j \in 1 .. Len(ts) + 1,
                      i <= j
               PROVE  r[j].at <= r[i].at
    BY <1>3 DEF Sorted
  <2>1. \A a, b \in 1 .. Len(ts) : a <= b => ts[b].at <= ts[a].at
    BY <1>2 DEF Vector, Sorted
  <2>2. e.at \in Nat /\ \A a \in 1 .. Len(ts) : ts[a].at \in Nat
    BY <1>2 DEF Entry
  <2>3. CASE i = k /\ j = k
    BY <1>4, <2>2, <2>3
  <2>4. CASE i = k /\ j > k
    BY <1>1, <1>2, <1>4, <2>4
  <2>5. CASE i < k /\ j = k
    BY <1>1, <1>2, <1>4, <2>5
  <2>6. CASE i < k /\ j < k
    BY <1>4, <2>1, <2>6
  <2>7. CASE i < k /\ j > k
    <3>1. i <= j - 1
      BY <1>2, <2>7
    <3> QED
      BY <1>4, <2>1, <2>7, <3>1
  <2>8. CASE i > k
    <3>1. j > k /\ i - 1 <= j - 1
      BY <1>2, <2>8
    <3> QED
      BY <1>4, <2>1, <2>8, <3>1
  <2> QED
    BY <1>2, <2>3, <2>4, <2>5, <2>6, <2>7, <2>8
<1>6. Distinct(r)
  <2> SUFFICES ASSUME NEW i \in 1 .. Len(ts) + 1, NEW j \in 1 .. Len(ts) + 1,
                      r[i].id = r[j].id
               PROVE  i = j
    BY <1>3 DEF Distinct
  <2>1. \A a, b \in 1 .. Len(ts) : ts[a].id = ts[b].id => a = b
    BY <1>2 DEF Vector, Distinct
  <2>2. \A a \in 1 .. Len(ts) : ts[a].id # e.id
    BY <1>2 DEF Ids
  <2>3. CASE i = k \/ j = k
    BY <1>2, <1>4, <2>2, <2>3
  <2>4. CASE i < k /\ j < k
    BY <1>4, <2>1, <2>4
  <2>5. CASE i > k /\ j > k
    BY <1>2, <1>4, <2>1, <2>5
  <2>6. CASE i < k /\ j > k
    <3>1. i = j - 1
      BY <1>4, <2>1, <2>6
    <3> QED
      BY <1>2, <2>6, <3>1
  <2>7. CASE i > k /\ j < k
    <3>1. j = i - 1
      BY <1>4, <2>1, <2>7
    <3> QED
      BY <1>2, <2>7, <3>1
  <2> QED
    BY <1>2, <2>3, <2>4, <2>5, <2>6, <2>7
<1>7. ToSet(r) = ToSet(ts) \cup {e}
  <2>1. ASSUME NEW i \in DOMAIN r PROVE r[i] \in ToSet(ts) \cup {e}
    BY <1>2, <1>3, <1>4 DEF ToSet
  <2>2. ASSUME NEW i \in DOMAIN ts PROVE ts[i] \in ToSet(r)
    <3> DEFINE m == IF i < k THEN i ELSE i + 1
    <3>1. m \in DOMAIN r /\ r[m] = ts[i]
      BY <1>1, <1>2, <1>3 DEF InsertedAt
    <3> QED
      BY <3>1 DEF ToSet
  <2>3. e \in ToSet(r)
    BY <1>2, <1>3, <1>4 DEF ToSet
  <2> QED
    BY <2>1, <2>2, <2>3 DEF ToSet
<1> QED
  BY <1>3, <1>5, <1>6, <1>7 DEF Vector, r

\* cancel (and pop, at the back): erasing an entry keeps the vector in order,
\* removes that entry only, and brings no later deadline forward.
LEMMA RemoveAtKeeps ==
  ASSUME NEW ts, Vector(ts), NEW k \in DOMAIN ts
  PROVE  /\ Vector(RemoveAt(ts, k))
         /\ ToSet(RemoveAt(ts, k)) = {x \in ToSet(ts) : x.id # ts[k].id}
         /\ RemoveAt(ts, k) # <<>> =>
              Last(ts).at <= Last(RemoveAt(ts, k)).at
<1> DEFINE r == RemoveAt(ts, k)
           a == SubSeq(ts, 1, k - 1)
           b == SubSeq(ts, k + 1, Len(ts))
<1>1. /\ Len(ts) \in Nat /\ DOMAIN ts = 1 .. Len(ts)
      /\ \A i \in 1 .. Len(ts) : ts[i] \in Entry
  BY LenProperties, ElementOfSeq DEF Vector
<1>2. /\ a \in Seq(Entry) /\ Len(a) = k - 1
      /\ \A i \in 1 .. k - 1 : a[i] = ts[i]
  BY <1>1, SubSeqProperties
<1>3. /\ b \in Seq(Entry) /\ Len(b) = Len(ts) - k
      /\ \A i \in 1 .. Len(ts) - k : b[i] = ts[k + 1 + i - 1]
  <2>1. /\ \A i \in k + 1 .. Len(ts) : ts[i] \in Entry
        /\ k + 1 \in Int /\ Len(ts) \in Int
    BY <1>1
  <2>2. /\ b \in Seq(Entry)
        /\ Len(b) = IF k + 1 <= Len(ts) THEN Len(ts) - (k + 1) + 1 ELSE 0
        /\ \A i \in 1 .. Len(ts) - (k + 1) + 1 : b[i] = ts[k + 1 + i - 1]
    BY <2>1, SubSeqProperties
  <2> HIDE DEF b
  <2> QED
    BY <1>1, <2>2
<1>4. r = a \o b
  BY DEF RemoveAt
<1> HIDE DEF a, b, r
<1>5. /\ r \in Seq(Entry) /\ Len(r) = Len(ts) - 1
      /\ \A i \in 1 .. Len(ts) - 1 :
           r[i] = IF i <= k - 1 THEN a[i] ELSE b[i - (k - 1)]
  <2>1. /\ a \o b \in Seq(Entry) /\ Len(a \o b) = Len(a) + Len(b)
        /\ \A i \in 1 .. Len(a) + Len(b) :
             (a \o b)[i] = IF i <= Len(a) THEN a[i] ELSE b[i - Len(a)]
    BY <1>2, <1>3, ConcatProperties
  <2>2. Len(a) = k - 1 /\ Len(a) + Len(b) = Len(ts) - 1
    BY <1>1, <1>2, <1>3
  <2> QED
    BY <1>4, <2>1, <2>2
<1>6. ASSUME NEW i \in 1 .. Len(ts) - 1
      PROVE  r[i] = ts[IF i < k THEN i ELSE i + 1]
  <2>1. CASE i < k
    <3>1. i <= k - 1 /\ i \in 1 .. k - 1
      BY <1>1, <2>1
    <3> QED
      BY <1>2, <1>5, <2>1, <3>1
  <2>2. CASE ~(i < k)
    <3>1. r[i] = b[i - (k - 1)] /\ i - (k - 1) \in 1 .. Len(ts) - k
      BY <1>1, <1>5, <2>2
    <3>2. k + 1 + (i - (k - 1)) - 1 = i + 1
      BY <1>1
    <3> QED
      BY <1>3, <2>2, <3>1, <3>2
  <2> QED
    BY <2>1, <2>2
<1>7. DOMAIN r = 1 .. Len(ts) - 1
  BY <1>1, <1>5, LenProperties
<1>8. Sorted(r)
  <2> SUFFICES ASSUME NEW i \in 1 .. Len(ts) - 1, NEW j \in 1 .. Len(ts) - 1,
                      i <= j
               PROVE  r[j].at <= r[i].at
    BY <1>7 DEF Sorted
  <2> DEFINE m == IF i < k THEN i ELSE i + 1
             n == IF j < k THEN j ELSE j + 1
  <2>1. m \in DOMAIN ts /\ n \in DOMAIN ts /\ m <= n
    BY <1>1
  <2> QED
    BY <1>6, <2>1 DEF Vector, Sorted
<1>9. Distinct(r)
  <2> SUFFICES ASSUME NEW i \in 1 .. Len(ts) - 1, NEW j \in 1 .. Len(ts) - 1,
                      r[i].id = r[j].id
               PROVE  i = j
    BY <1>7 DEF Distinct
  <2> DEFINE m == IF i < k THEN i ELSE i + 1
             n == IF j < k THEN j ELSE j + 1
  <2>1. m \in DOMAIN ts /\ n \in DOMAIN ts /\ (m = n => i = j)
    BY <1>1
  <2> QED
    BY <1>6, <2>1 DEF Vector, Distinct
<1>10. ToSet(r) = {x \in ToSet(ts) : x.id # ts[k].id}
  <2>1. ASSUME NEW i \in DOMAIN r
        PROVE  r[i] \in ToSet(ts) /\ r[i].id # ts[k].id
    <3> DEFINE m == IF i < k THEN i ELSE i + 1
    <3>1. m \in DOMAIN ts /\ m # k /\ r[i] = ts[m]
      BY <1>1, <1>6, <1>7
    <3> QED
      BY <3>1 DEF ToSet, Vector, Distinct
  <2>2. ASSUME NEW m \in DOMAIN ts, ts[m].id # ts[k].id PROVE ts[m] \in ToSet(r)
    <3> DEFINE i == IF m < k THEN m ELSE m - 1
    <3>1. m # k
      BY <2>2
    <3>2. i \in DOMAIN r /\ r[i] = ts[m]
      BY <1>1, <1>6, <1>7, <3>1
    <3> QED
      BY <3>2 DEF ToSet
  <2> QED
    BY <2>1, <2>2 DEF ToSet
<1>11. ASSUME r # <<>> PROVE Last(ts).at <= Last(r).at
  <2>1. Len(ts) - 1 \in 1 .. Len(ts) - 1
    BY <1>1, <1>5, <1>11, EmptySeq
  <2> DEFINE m == IF Len(ts) - 1 < k THEN Len(ts) - 1 ELSE Len(ts)
  <2>2. Last(r) = ts[m] /\ m \in DOMAIN ts /\ m <= Len(ts)
    BY <1>1, <1>5, <1>6, <2>1 DEF Last
  <2>3. Len(ts) \in DOMAIN ts
    BY <1>1, <2>1
  <2> QED
    BY <2>2, <2>3 DEF Last, Vector, Sorted
<1> QED
  BY <1>5, <1>8, <1>9, <1>10, <1>11 DEF Vector, r

\* pop at the back is the erasure of the last entry.
LEMMA FrontRemoves ==
  ASSUME NEW ts, Vector(ts), ts # <<>>
  PROVE  Len(ts) \in DOMAIN ts /\ Front(ts) = RemoveAt(ts, Len(ts))
<1>1. Len(ts) \in Nat \ {0} /\ DOMAIN ts = 1 .. Len(ts)
  BY EmptySeq, LenProperties DEF Vector
<1>2. SubSeq(ts, Len(ts) + 1, Len(ts)) = <<>>
  BY <1>1, SubSeqEmpty
<1>3. \A i \in 1 .. Len(ts) - 1 : ts[i] \in Entry
  BY <1>1, ElementOfSeq DEF Vector
<1>4. SubSeq(ts, 1, Len(ts) - 1) \in Seq(Entry)
  BY <1>1, <1>3, SubSeqProperties
<1> QED
  BY <1>1, <1>2, <1>4, ConcatEmptySeq DEF Front, RemoveAt

\* delay: the entry takes a later time and moves to the front past the ones due
\* earlier; the vector stays in order, and no deadline comes forward.
LEMMA PostponeKeeps ==
  ASSUME NEW ts, Vector(ts), NEW i \in DOMAIN ts, NEW e \in Entry,
         e.id = ts[i].id, ts[i].at <= e.at
  PROVE  LET r == InsertTimer(SubSeq(ts, 1, i - 1), e)
                    \o SubSeq(ts, i + 1, Len(ts))
         IN  /\ Vector(r)
             /\ ToSet(r) = {x \in ToSet(ts) : x.id # e.id} \cup {e}
             /\ r # <<>> /\ Last(ts).at <= Last(r).at
<1> DEFINE a == SubSeq(ts, 1, i - 1)
           c == InsertTimer(a, e)
           b == SubSeq(ts, i + 1, Len(ts))
           r == c \o b
<1>1. /\ Len(ts) \in Nat /\ DOMAIN ts = 1 .. Len(ts)
      /\ \A j \in 1 .. Len(ts) : ts[j] \in Entry
  BY LenProperties, ElementOfSeq DEF Vector
<1>2. /\ a \in Seq(Entry) /\ Len(a) = i - 1 /\ DOMAIN a = 1 .. i - 1
      /\ \A j \in 1 .. i - 1 : a[j] = ts[j]
  <2>1. /\ a \in Seq(Entry) /\ Len(a) = i - 1
        /\ \A j \in 1 .. i - 1 : a[j] = ts[j]
    BY <1>1, SubSeqProperties
  <2> HIDE DEF a
  <2> QED
    BY <2>1, LenProperties
<1>3. /\ b \in Seq(Entry) /\ Len(b) = Len(ts) - i
      /\ DOMAIN b = 1 .. Len(ts) - i
      /\ \A j \in 1 .. Len(ts) - i : b[j] = ts[i + j]
  <2>1. /\ \A j \in i + 1 .. Len(ts) : ts[j] \in Entry
        /\ i + 1 \in Int /\ Len(ts) \in Int
    BY <1>1
  <2>2. /\ b \in Seq(Entry)
        /\ Len(b) = IF i + 1 <= Len(ts) THEN Len(ts) - (i + 1) + 1 ELSE 0
        /\ \A j \in 1 .. Len(ts) - (i + 1) + 1 : b[j] = ts[i + 1 + j - 1]
    BY <2>1, SubSeqProperties
  <2> HIDE DEF b
  <2>3. \A j \in 1 .. Len(ts) - i : i + 1 + j - 1 = i + j
    BY <1>1
  <2>4. Len(b) = Len(ts) - i /\ Len(ts) - (i + 1) + 1 = Len(ts) - i
    BY <1>1, <2>2
  <2> QED
    BY <2>2, <2>3, <2>4, LenProperties
<1> HIDE DEF a, b
<1>4. Vector(a) /\ e.id \notin Ids(a)
  <2>1. Sorted(a) /\ Distinct(a)
    BY <1>1, <1>2 DEF Vector, Sorted, Distinct
  <2>2. ASSUME NEW j \in 1 .. i - 1 PROVE a[j].id # e.id
    BY <1>1, <1>2 DEF Vector, Distinct
  <2> QED
    BY <1>2, <2>1, <2>2 DEF Vector, Ids
<1>5. Vector(c) /\ ToSet(c) = ToSet(a) \cup {e}
  BY <1>4, InsertTimerKeeps
<1>6. Len(c) = i /\ c \in Seq(Entry) /\ DOMAIN c = 1 .. i
  <2>1. \E k \in 1 .. Len(a) + 1 : InsertedAt(c, a, k, e)
    BY <1>4, InsertTimerInserts DEF Vector
  <2> HIDE DEF c
  <2>2. Len(c) = Len(a) + 1 /\ c \in Seq(Entry)
    BY <2>1 DEF InsertedAt
  <2>3. Len(a) + 1 = i
    BY <1>1, <1>2
  <2> QED
    BY <2>2, <2>3, LenProperties
<1> HIDE DEF c
<1>7. /\ r \in Seq(Entry) /\ Len(r) = Len(ts) /\ DOMAIN r = 1 .. Len(ts)
      /\ \A j \in 1 .. Len(ts) : r[j] = IF j <= i THEN c[j] ELSE ts[j]
  <2>1. /\ r \in Seq(Entry) /\ Len(r) = Len(c) + Len(b)
        /\ \A j \in 1 .. Len(c) + Len(b) :
             r[j] = IF j <= Len(c) THEN c[j] ELSE b[j - Len(c)]
    BY <1>3, <1>6, ConcatProperties
  <2> HIDE DEF r
  <2>2. Len(c) + Len(b) = Len(ts)
    BY <1>1, <1>3, <1>6
  <2>3. ASSUME NEW j \in 1 .. Len(ts), ~(j <= i) PROVE b[j - i] = ts[j]
    <3>1. j - i \in 1 .. Len(ts) - i /\ i + (j - i) = j
      BY <1>1, <2>3
    <3> QED
      BY <1>3, <3>1
  <2> QED
    BY <1>6, <2>1, <2>2, <2>3, LenProperties
<1> HIDE DEF r
\* The entries before position i come from the old ones before it, or are e.
<1>8. ASSUME NEW j \in 1 .. i
      PROVE  \/ c[j] = e
             \/ \E m \in 1 .. i - 1 : c[j] = ts[m]
  <2>1. c[j] \in ToSet(a) \cup {e}
    BY <1>5, <1>6 DEF ToSet
  <2> QED
    BY <1>2, <2>1 DEF ToSet
<1>9. ASSUME NEW j \in 1 .. i, NEW n \in 1 .. Len(ts), n > i
      PROVE  ts[n].at <= c[j].at /\ ts[n].id # c[j].id
  <2>1. ts[n].at <= ts[i].at /\ ts[n].id # ts[i].id
    BY <1>1, <1>9 DEF Vector, Sorted, Distinct
  <2>2. CASE c[j] = e
    BY <1>1, <2>1, <2>2 DEF Entry
  <2>3. ASSUME NEW m \in 1 .. i - 1, c[j] = ts[m]
        PROVE  ts[n].at <= c[j].at /\ ts[n].id # c[j].id
    BY <1>1, <1>9, <2>3 DEF Vector, Sorted, Distinct
  <2> QED
    BY <1>8, <2>2, <2>3
<1>10. Sorted(r)
  <2> SUFFICES ASSUME NEW j \in 1 .. Len(ts), NEW n \in 1 .. Len(ts), j <= n
               PROVE  r[n].at <= r[j].at
    BY <1>7 DEF Sorted
  <2>1. CASE n <= i
    <3>1. j \in DOMAIN c /\ n \in DOMAIN c /\ r[j] = c[j] /\ r[n] = c[n]
      BY <1>1, <1>6, <1>7, <2>1
    <3> QED
      BY <1>5, <3>1 DEF Vector, Sorted
  <2>2. CASE j <= i /\ n > i
    BY <1>1, <1>7, <1>9, <2>2
  <2>3. CASE j > i
    <3>1. r[j] = ts[j] /\ r[n] = ts[n]
      BY <1>1, <1>7, <2>3
    <3> QED
      BY <1>1, <3>1 DEF Vector, Sorted
  <2> QED
    BY <1>1, <2>1, <2>2, <2>3
<1>11. Distinct(r)
  <2> SUFFICES ASSUME NEW j \in 1 .. Len(ts), NEW n \in 1 .. Len(ts),
                      r[j].id = r[n].id
               PROVE  j = n
    BY <1>7 DEF Distinct
  <2>1. CASE j <= i /\ n <= i
    <3>1. j \in DOMAIN c /\ n \in DOMAIN c /\ r[j] = c[j] /\ r[n] = c[n]
      BY <1>1, <1>6, <1>7, <2>1
    <3> QED
      BY <1>5, <3>1 DEF Vector, Distinct
  <2>2. CASE j <= i /\ n > i
    BY <1>1, <1>7, <1>9, <2>2
  <2>3. CASE j > i /\ n <= i
    BY <1>1, <1>7, <1>9, <2>3
  <2>4. CASE j > i /\ n > i
    <3>1. r[j] = ts[j] /\ r[n] = ts[n]
      BY <1>1, <1>7, <2>4
    <3> QED
      BY <1>1, <3>1 DEF Vector, Distinct
  <2> QED
    BY <1>1, <2>1, <2>2, <2>3, <2>4
<1>12. ToSet(r) = {x \in ToSet(ts) : x.id # e.id} \cup {e}
  <2>1. ASSUME NEW j \in 1 .. Len(ts)
        PROVE  r[j] = e \/ (r[j] \in ToSet(ts) /\ r[j].id # e.id)
    <3>1. CASE j <= i
      <4>1. j \in 1 .. i /\ r[j] = c[j]
        BY <1>1, <1>7, <3>1
      <4>2. ASSUME NEW m \in 1 .. i - 1
            PROVE  ts[m] \in ToSet(ts) /\ ts[m].id # e.id
        BY <1>1 DEF ToSet, Vector, Distinct
      <4> QED
        BY <1>8, <4>1, <4>2
    <3>2. CASE ~(j <= i)
      <4>1. r[j] = ts[j]
        BY <1>7, <3>2
      <4> QED
        BY <1>1, <3>2, <4>1 DEF ToSet, Vector, Distinct
    <3> QED
      BY <3>1, <3>2
  <2>2. ASSUME NEW n \in 1 .. Len(ts), ts[n].id # e.id PROVE ts[n] \in ToSet(r)
    <3>1. CASE n < i
      <4>1. ts[n] \in ToSet(c)
        <5>1. n \in 1 .. i - 1
          BY <1>1, <3>1
        <5> QED
          BY <1>2, <1>5, <5>1 DEF ToSet
      <4>2. ASSUME NEW j \in 1 .. i PROVE c[j] \in ToSet(r)
        BY <1>1, <1>7 DEF ToSet
      <4> QED
        BY <1>6, <4>1, <4>2 DEF ToSet
    <3>2. CASE n > i
      BY <1>1, <1>7, <3>2 DEF ToSet
    <3> QED
      BY <1>1, <2>2, <3>1, <3>2
  <2>3. e \in ToSet(r)
    <3>1. e \in ToSet(c)
      BY <1>5
    <3>2. ASSUME NEW j \in 1 .. i PROVE c[j] \in ToSet(r)
      BY <1>1, <1>7 DEF ToSet
    <3> QED
      BY <1>6, <3>1, <3>2 DEF ToSet
  <2>4. ToSet(r) = {r[j] : j \in 1 .. Len(ts)}
    BY <1>7 DEF ToSet
  <2>5. ToSet(ts) = {ts[j] : j \in 1 .. Len(ts)}
    BY <1>1 DEF ToSet
  <2> QED
    BY <2>1, <2>2, <2>3, <2>4, <2>5
<1>13. r # <<>> /\ Last(ts).at <= Last(r).at
  <2>1. Len(ts) \in 1 .. Len(ts) /\ Len(r) = Len(ts)
    BY <1>1, <1>7
  <2>2. CASE Len(ts) > i
    <3>1. r[Len(ts)] = ts[Len(ts)]
      BY <1>1, <1>7, <2>1, <2>2
    <3> QED
      BY <1>1, <2>1, <3>1 DEF Last, Entry
  <2>3. CASE Len(ts) = i
    <3>1. r[i] = c[i]
      BY <1>1, <1>7
    <3>2. ASSUME c[i] = e PROVE ts[i].at <= c[i].at
      BY <3>2
    <3>3. ASSUME NEW m \in 1 .. i - 1, c[i] = ts[m]
          PROVE  ts[i].at <= c[i].at
      BY <1>1, <3>3 DEF Vector, Sorted
    <3>4. i \in 1 .. i
      BY <1>1
    <3>5. ts[i].at <= c[i].at
      BY <1>8, <3>2, <3>3, <3>4
    <3> QED
      BY <1>7, <2>3, <3>1, <3>5 DEF Last
  <2> QED
    BY <1>1, <2>1, <2>2, <2>3
<1> QED
  BY <1>7, <1>10, <1>11, <1>12, <1>13 DEF Vector, r, c, a, b

(***************************************************************************)
(* The inductive invariant.                                                *)
(***************************************************************************)
Place == {"loop", "run", "park", "waiting", "drain", "lastRun", "done"}

PoolType ==
  /\ clock \in 0 .. MaxTime /\ poolOn \in BOOLEAN /\ wpc \in Place
  /\ tasks \in Seq(Task) /\ timers \in Seq(Entry) /\ wuntil \in Nat
  /\ dueAt \in [Task -> 0 .. MaxTime]
  /\ begun \subseteq Task /\ dropped \subseteq Task

\* A task handed over is in one place: once in the queue, or once in the vector,
\* or begun or dropped.
OnePlace ==
  /\ \A i, j \in DOMAIN tasks : tasks[i] = tasks[j] => i = j
  /\ ToSet(tasks) \cap Ids(timers) = {}
  /\ (ToSet(tasks) \cup Ids(timers)) \cap (begun \cup dropped) = {}

\* What is queued is due as its user was told.
DueIsKept ==
  /\ \A x \in ToSet(timers) : x.at = dueAt[x.id]
  /\ \A t \in ToSet(tasks) : dueAt[t] <= clock

PoolInv == PoolType /\ Vector(timers) /\ OnePlace /\ DueIsKept /\ NoLostWakeup

\* The ids of a vector, from its set of entries.
LEMMA IdsOfEntries ==
  ASSUME NEW ts
  PROVE  Ids(ts) = {x.id : x \in ToSet(ts)}
BY DEF Ids, ToSet

\* Appending to the queue of immediate tasks adds the one task, at the end.
LEMMA AppendQueues ==
  ASSUME NEW q \in Seq(Task), NEW t \in Task, t \notin ToSet(q),
         \A i, j \in DOMAIN q : q[i] = q[j] => i = j
  PROVE  /\ Append(q, t) \in Seq(Task) /\ ToSet(Append(q, t)) = ToSet(q) \cup {t}
         /\ \A i, j \in DOMAIN Append(q, t) :
              Append(q, t)[i] = Append(q, t)[j] => i = j
<1> DEFINE r == Append(q, t)
<1>1. Len(q) \in Nat /\ DOMAIN q = 1 .. Len(q)
  BY LenProperties
<1>2. /\ r \in Seq(Task) /\ Len(r) = Len(q) + 1
      /\ \A i \in 1 .. Len(q) : r[i] = q[i]
      /\ r[Len(q) + 1] = t
  BY AppendProperties
<1> HIDE DEF r
<1>3. DOMAIN r = 1 .. Len(q) + 1
  BY <1>2, LenProperties
<1>4. ToSet(r) = ToSet(q) \cup {t}
  BY <1>1, <1>2, <1>3 DEF ToSet
<1>5. ASSUME NEW i \in 1 .. Len(q) + 1, NEW j \in 1 .. Len(q) + 1, r[i] = r[j]
      PROVE  i = j
  <2>1. \A k \in 1 .. Len(q) : q[k] # t
    BY <1>1 DEF ToSet
  <2> QED
    BY <1>1, <1>2, <1>5, <2>1
<1> QED
  BY <1>2, <1>3, <1>4, <1>5 DEF r

\* Taking the head of the queue removes that task only.
LEMMA TailDequeues ==
  ASSUME NEW q \in Seq(Task), q # <<>>,
         \A i, j \in DOMAIN q : q[i] = q[j] => i = j
  PROVE  /\ Head(q) \in ToSet(q) /\ Tail(q) \in Seq(Task)
         /\ ToSet(Tail(q)) = ToSet(q) \ {Head(q)}
         /\ \A i, j \in DOMAIN Tail(q) : Tail(q)[i] = Tail(q)[j] => i = j
<1> DEFINE r == Tail(q)
<1>1. Len(q) \in Nat \ {0} /\ DOMAIN q = 1 .. Len(q)
  BY LenProperties, EmptySeq
<1>2. /\ r \in Seq(Task) /\ Len(r) = Len(q) - 1
      /\ \A i \in 1 .. Len(q) - 1 : r[i] = q[i + 1]
  BY HeadTailProperties
<1>3. Head(q) = q[1]
  OBVIOUS
<1> HIDE DEF r
<1>4. DOMAIN r = 1 .. Len(q) - 1
  BY <1>2, LenProperties
<1>5. ToSet(r) = ToSet(q) \ {q[1]}
  <2>1. ASSUME NEW i \in 1 .. Len(q) - 1 PROVE r[i] \in ToSet(q) \ {q[1]}
    <3>1. r[i] = q[i + 1] /\ i + 1 \in DOMAIN q /\ 1 \in DOMAIN q /\ i + 1 # 1
      BY <1>1, <1>2
    <3> QED
      BY <3>1 DEF ToSet
  <2>2. ASSUME NEW k \in 1 .. Len(q), q[k] # q[1] PROVE q[k] \in ToSet(r)
    <3>1. k # 1
      BY <2>2
    <3>2. k - 1 \in 1 .. Len(q) - 1 /\ (k - 1) + 1 = k
      BY <1>1, <3>1
    <3>3. r[k - 1] = q[k] /\ k - 1 \in DOMAIN r
      BY <1>2, <1>4, <3>2
    <3> QED
      BY <3>3 DEF ToSet
  <2> QED
    BY <1>1, <1>4, <2>1, <2>2 DEF ToSet
<1>6. ASSUME NEW i \in 1 .. Len(q) - 1, NEW j \in 1 .. Len(q) - 1, r[i] = r[j]
      PROVE  i = j
  <2>1. i + 1 \in DOMAIN q /\ j + 1 \in DOMAIN q /\ q[i + 1] = q[j + 1]
    BY <1>1, <1>2, <1>6
  <2>2. i + 1 = j + 1
    BY <2>1
  <2> QED
    BY <1>1, <2>2
<1>7. q[1] \in ToSet(q)
  BY <1>1 DEF ToSet
<1> QED
  BY <1>2, <1>3, <1>4, <1>5, <1>6, <1>7 DEF r

\* The last entry of a sorted vector is due first.
LEMMA LastIsEarliest ==
  ASSUME NEW ts, Vector(ts), ts # <<>>
  PROVE  /\ Len(ts) \in DOMAIN ts /\ Last(ts) \in ToSet(ts) /\ Last(ts) \in Entry
         /\ \A i \in DOMAIN ts : Last(ts).at <= ts[i].at
<1>1. Len(ts) \in DOMAIN ts
  BY FrontRemoves
<1>2. DOMAIN ts = 1 .. Len(ts) /\ Len(ts) \in Nat /\ ts[Len(ts)] \in Entry
  BY <1>1, LenProperties, ElementOfSeq DEF Vector
<1> QED
  BY <1>1, <1>2 DEF Vector, Sorted, Last, ToSet

\* pop() takes a task that is queued and due, and leaves the others queued.
LEMMA PopTakes ==
  ASSUME PoolInv, Ready, Pop
  PROVE  /\ wcur' \in Task /\ wcur' \in Queued /\ dueAt[wcur'] <= clock
         /\ Queued' = Queued \ {wcur'}
         /\ tasks' \in Seq(Task) /\ Vector(timers')
         /\ ToSet(tasks') = ToSet(tasks) \ {wcur'}
         /\ ToSet(timers') = {x \in ToSet(timers) : x.id # wcur'}
         /\ \A i, j \in DOMAIN tasks' : tasks'[i] = tasks'[j] => i = j
<1> USE DEF PoolInv
<1>1. Queued = ToSet(tasks) \cup Ids(timers)
  BY DEF Queued, Ids
<1>2. Queued' = ToSet(tasks') \cup Ids(timers')
  BY DEF Queued, Ids
<1>3. CASE tasks # <<>>
  <2>1. wcur' = Head(tasks) /\ tasks' = Tail(tasks) /\ timers' = timers
    BY <1>3 DEF Pop
  <2>2. /\ wcur' \in ToSet(tasks) /\ tasks' \in Seq(Task)
        /\ ToSet(tasks') = ToSet(tasks) \ {wcur'}
        /\ \A i, j \in DOMAIN tasks' : tasks'[i] = tasks'[j] => i = j
    BY <1>3, <2>1, TailDequeues DEF PoolType, OnePlace
  <2>3. wcur' \in Task /\ dueAt[wcur'] <= clock
    <3>1. \A i \in DOMAIN tasks : tasks[i] \in Task
      BY LenProperties, ElementOfSeq DEF PoolType
    <3> QED
      BY <2>2, <3>1 DEF DueIsKept, ToSet
  <2>4. wcur' \notin Ids(timers)
    BY <2>2 DEF OnePlace
  <2>5. ToSet(timers') = {x \in ToSet(timers) : x.id # wcur'}
    BY <2>1, <2>4, IdsOfEntries
  <2> QED
    BY <1>1, <1>2, <2>1, <2>2, <2>3, <2>4, <2>5
<1>4. CASE tasks = <<>>
  <2>1. /\ timers # <<>> /\ Last(timers).at <= clock
        /\ wcur' = Last(timers).id /\ timers' = Front(timers) /\ tasks' = tasks
    BY <1>4 DEF Pop, Ready, TimerReady
  <2>2. Last(timers) \in ToSet(timers) /\ Last(timers) \in Entry
    BY <2>1, LastIsEarliest
  <2>3. wcur' \in Task /\ dueAt[wcur'] <= clock /\ wcur' \in Ids(timers)
    BY <2>1, <2>2, IdsOfEntries DEF DueIsKept, Entry
  <2>4. /\ Vector(timers')
        /\ ToSet(timers') = {x \in ToSet(timers) : x.id # wcur'}
    <3>1. Len(timers) \in DOMAIN timers /\ timers' = RemoveAt(timers, Len(timers))
      BY <2>1, FrontRemoves
    <3> QED
      BY <2>1, <3>1, RemoveAtKeeps DEF Last
  <2>5. Ids(timers') = Ids(timers) \ {wcur'}
    BY <2>4, IdsOfEntries
  <2>6. ToSet(tasks) = {}
    BY <1>4 DEF ToSet
  <2> QED
    BY <1>1, <1>2, <2>1, <2>3, <2>4, <2>5, <2>6 DEF PoolType, OnePlace
<1> QED
  BY <1>3, <1>4

\* What a vector holds are entries.
LEMMA ElementIsEntry ==
  ASSUME NEW ts \in Seq(Entry), NEW x \in ToSet(ts)
  PROVE  x \in Entry /\ x.id \in Task /\ x.at \in Nat
<1>1. PICK i \in DOMAIN ts : x = ts[i]
  BY DEF ToSet
<1>2. ts[i] \in Entry
  BY ElementOfSeq, LenProperties
<1> QED
  BY <1>1, <1>2 DEF Entry

\* A fresh task is nowhere in the pool.
LEMMA FreshIsNowhere ==
  ASSUME NEW t, Fresh(t)
  PROVE  t \notin ToSet(tasks) /\ t \notin Ids(timers)
         /\ t \notin begun /\ t \notin dropped
BY DEF Fresh, Queued, Ids

\* The pool starts empty.
LEMMA PoolInit ==
  ASSUME MaxTime \in Nat, Init
  PROVE  PoolInv
<1>1. ToSet(<<>>) = {} /\ Ids(<<>>) = {} /\ Vector(<<>>)
  BY EmptySeq DEF ToSet, Ids, Vector, Sorted, Distinct
<1>2. PoolType
  BY DEF Init, PoolType, Place
<1> QED
  BY <1>1, <1>2 DEF Init, PoolInv, OnePlace, DueIsKept, NoLostWakeup

\* push: a fresh task joins the queue, and a waiting worker is woken.
LEMMA PushStep ==
  ASSUME PoolInv, NEW t \in Task, Push(t)
  PROVE  PoolInv' /\ Queued' = Queued \cup {t}
<1> USE DEF PoolInv
<1>1. /\ Fresh(t) /\ tasks' = Append(tasks, t) /\ timers' = timers
      /\ dueAt' = [dueAt EXCEPT ![t] = clock] /\ wpc' = Notified
      /\ UNCHANGED <<clock, poolOn, wcur, wuntil, begun, dropped>>
  BY DEF Push
<1>2. /\ t \notin ToSet(tasks) /\ t \notin Ids(timers)
      /\ t \notin begun /\ t \notin dropped
  BY <1>1, FreshIsNowhere
<1>3. /\ tasks' \in Seq(Task) /\ ToSet(tasks') = ToSet(tasks) \cup {t}
      /\ \A i, j \in DOMAIN tasks' : tasks'[i] = tasks'[j] => i = j
  BY <1>1, <1>2, AppendQueues DEF PoolType, OnePlace
<1>4. wpc' \in Place /\ wpc' # "waiting"
  BY <1>1 DEF Notified, PoolType, Place
<1>5. PoolType'
  BY <1>1, <1>3, <1>4 DEF PoolType
<1>6. OnePlace' /\ Vector(timers)'
  BY <1>1, <1>2, <1>3 DEF OnePlace
<1>7. DueIsKept'
  <2>1. ASSUME NEW x \in ToSet(timers) PROVE x.at = dueAt'[x.id]
    <3>1. x.id # t
      BY <1>2, IdsOfEntries
    <3>2. x.id \in Task
      BY ElementIsEntry DEF PoolType
    <3> QED
      BY <1>1, <3>1, <3>2 DEF PoolType, DueIsKept
  <2>2. ASSUME NEW u \in ToSet(tasks') PROVE dueAt'[u] <= clock
    <3>1. u \in Task
      BY <1>3, ElementOfSeq, LenProperties DEF ToSet
    <3> QED
      BY <1>1, <1>3, <3>1 DEF PoolType, DueIsKept
  <2> QED
    BY <1>1, <2>1, <2>2 DEF DueIsKept
<1>8. NoLostWakeup'
  BY <1>4 DEF NoLostWakeup
<1>9. Queued' = Queued \cup {t}
  BY <1>1, <1>3 DEF Queued
<1> QED
  BY <1>5, <1>6, <1>7, <1>8, <1>9

\* pushDelayed: a fresh task joins the vector, and a waiting worker is woken.
LEMMA PushDelayedStep ==
  ASSUME MaxTime \in Nat, PoolInv, NEW t \in Task, NEW d \in 0 .. MaxTime,
         PushDelayed(t, d)
  PROVE  PoolInv' /\ Queued' = Queued \cup {t}
<1> USE DEF PoolInv
<1> DEFINE e == [at |-> clock + d, id |-> t]
<1>1. /\ Fresh(t) /\ clock + d <= MaxTime /\ tasks' = tasks
      /\ timers' = InsertTimer(timers, e)
      /\ dueAt' = [dueAt EXCEPT ![t] = clock + d] /\ wpc' = Notified
      /\ UNCHANGED <<clock, poolOn, wcur, wuntil, begun, dropped>>
  BY DEF PushDelayed
<1>2. /\ t \notin ToSet(tasks) /\ t \notin Ids(timers)
      /\ t \notin begun /\ t \notin dropped
  BY <1>1, FreshIsNowhere
<1>3. clock \in Nat /\ clock + d \in 0 .. MaxTime
  BY <1>1 DEF PoolType
<1>4. e \in Entry /\ e.id = t /\ e.at = clock + d
  BY <1>3 DEF Entry
<1> HIDE DEF e
<1>5. Vector(timers') /\ ToSet(timers') = ToSet(timers) \cup {e}
  BY <1>1, <1>2, <1>4, InsertTimerKeeps
<1>6. Ids(timers') = Ids(timers) \cup {t}
  BY <1>4, <1>5, IdsOfEntries
<1>7. wpc' \in Place /\ wpc' # "waiting"
  BY <1>1 DEF Notified, PoolType, Place
<1>8. PoolType'
  BY <1>1, <1>3, <1>5, <1>7 DEF PoolType, Vector
<1>9. OnePlace'
  BY <1>1, <1>2, <1>6 DEF OnePlace
<1>10. DueIsKept'
  <2>1. ASSUME NEW x \in ToSet(timers') PROVE x.at = dueAt'[x.id]
    <3>1. CASE x = e
      BY <1>1, <1>4, <3>1 DEF PoolType
    <3>2. CASE x \in ToSet(timers)
      <4>1. x.id # t
        BY <1>2, <3>2, IdsOfEntries
      <4>2. x.id \in Task
        BY <3>2, ElementIsEntry DEF PoolType
      <4> QED
        BY <1>1, <3>2, <4>1, <4>2 DEF PoolType, DueIsKept
    <3> QED
      BY <1>5, <3>1, <3>2
  <2>2. ASSUME NEW u \in ToSet(tasks) PROVE dueAt'[u] <= clock
    <3>1. u \in Task /\ u # t
      BY <1>2, ElementOfSeq, LenProperties DEF ToSet, PoolType
    <3> QED
      BY <1>1, <3>1 DEF PoolType, DueIsKept
  <2> QED
    BY <1>1, <2>1, <2>2 DEF DueIsKept
<1>11. NoLostWakeup'
  BY <1>7 DEF NoLostWakeup
<1>12. Queued' = Queued \cup {t}
  <2>1. Queued' = ToSet(tasks') \cup Ids(timers')
    BY DEF Queued, Ids
  <2>2. Queued = ToSet(tasks) \cup Ids(timers)
    BY DEF Queued, Ids
  <2> QED
    BY <1>1, <1>6, <2>1, <2>2
<1> QED
  BY <1>5, <1>8, <1>9, <1>10, <1>11, <1>12

\* delay: the entry moves back in time; nobody is woken and nobody need be.
LEMMA DelayStep ==
  ASSUME MaxTime \in Nat, PoolInv, NEW t \in Task, NEW d \in 0 .. MaxTime,
         Delay(t, d)
  PROVE  /\ PoolInv' /\ Queued' = Queued /\ t \in Queued
         /\ clock + d \in dueAt[t] .. MaxTime
<1> USE DEF PoolInv
<1> DEFINE e == [at |-> clock + d, id |-> t]
<1>1. PICK i \in DOMAIN timers :
        /\ timers[i].id = t /\ clock + d \in timers[i].at .. MaxTime
        /\ timers' = InsertTimer(SubSeq(timers, 1, i - 1), e)
                       \o SubSeq(timers, i + 1, Len(timers))
        /\ dueAt' = [dueAt EXCEPT ![t] = clock + d]
        /\ UNCHANGED <<clock, tasks, poolOn, wpc, wcur, wuntil, begun, dropped>>
  BY DEF Delay
<1>2. timers[i] \in Entry /\ timers[i] \in ToSet(timers)
  BY ElementOfSeq, LenProperties DEF PoolType, ToSet
<1>3. clock + d \in 0 .. MaxTime /\ timers[i].at <= clock + d
  BY <1>1, <1>2 DEF PoolType, Entry
<1>4. e \in Entry /\ e.id = t /\ e.at = clock + d
  BY <1>3 DEF Entry
<1> HIDE DEF e
<1>5. /\ Vector(timers')
      /\ ToSet(timers') = {x \in ToSet(timers) : x.id # t} \cup {e}
      /\ timers' # <<>> /\ Last(timers).at <= Last(timers').at
  BY <1>1, <1>3, <1>4, PostponeKeeps
<1>6. t \in Ids(timers) /\ Ids(timers') = Ids(timers)
  <2>1. t \in Ids(timers)
    BY <1>1 DEF Ids
  <2>2. ASSUME NEW x \in ToSet(timers), x.id # t PROVE x.id \in Ids(timers')
    BY <1>5, <2>2, IdsOfEntries
  <2>3. t \in Ids(timers')
    BY <1>4, <1>5, IdsOfEntries
  <2>4. ASSUME NEW x \in ToSet(timers') PROVE x.id \in Ids(timers)
    BY <1>4, <1>5, <2>1, IdsOfEntries
  <2> QED
    BY <2>1, <2>2, <2>3, <2>4, IdsOfEntries
<1>7. PoolType'
  BY <1>1, <1>3, <1>5 DEF PoolType, Vector
<1>8. OnePlace'
  BY <1>1, <1>6 DEF OnePlace
<1>9. DueIsKept'
  <2>1. ASSUME NEW x \in ToSet(timers') PROVE x.at = dueAt'[x.id]
    <3>1. CASE x = e
      BY <1>1, <1>4, <3>1 DEF PoolType
    <3>2. CASE x \in ToSet(timers) /\ x.id # t
      <4>1. x.id \in Task
        BY <3>2, ElementIsEntry DEF PoolType
      <4> QED
        BY <1>1, <3>2, <4>1 DEF PoolType, DueIsKept
    <3> QED
      BY <1>5, <3>1, <3>2
  <2>2. ASSUME NEW u \in ToSet(tasks) PROVE dueAt'[u] <= clock
    <3>1. u \in Task /\ u # t
      BY <1>6, ElementOfSeq, LenProperties DEF ToSet, PoolType, OnePlace
    <3> QED
      BY <1>1, <3>1 DEF PoolType, DueIsKept
  <2> QED
    BY <1>1, <2>1, <2>2 DEF DueIsKept
<1>10. NoLostWakeup'
  <2>1. timers # <<>> /\ Last(timers).at \in Nat /\ Last(timers').at \in Nat
    <3>1. timers # <<>>
      BY <1>1
    <3> QED
      BY <1>5, <3>1, LastIsEarliest DEF Entry
  <2> QED
    BY <1>1, <1>5, <2>1 DEF NoLostWakeup, PoolType
<1>11. Queued' = Queued /\ t \in Queued
  BY <1>1, <1>6 DEF Queued, Ids
<1>12. clock + d \in dueAt[t] .. MaxTime
  BY <1>1, <1>2 DEF DueIsKept
<1> QED
  BY <1>5, <1>7, <1>8, <1>9, <1>10, <1>11, <1>12

\* cancel: the entry is gone, and the task counts as dropped.
LEMMA CancelStep ==
  ASSUME PoolInv, NEW t \in Task, Cancel(t)
  PROVE  PoolInv' /\ Queued' = Queued \ {t} /\ t \in Queued
<1> USE DEF PoolInv
<1>1. PICK i \in DOMAIN timers :
        /\ timers[i].id = t /\ timers' = RemoveAt(timers, i)
        /\ dropped' = dropped \cup {t}
        /\ UNCHANGED <<clock, tasks, poolOn, wpc, wcur, wuntil, dueAt, begun>>
  BY DEF Cancel
<1>2. /\ Vector(timers')
      /\ ToSet(timers') = {x \in ToSet(timers) : x.id # t}
      /\ timers' # <<>> => Last(timers).at <= Last(timers').at
  BY <1>1, RemoveAtKeeps
<1>3. t \in Ids(timers) /\ Ids(timers') = Ids(timers) \ {t}
  <2>1. t \in Ids(timers)
    BY <1>1 DEF Ids
  <2> QED
    BY <1>2, <2>1, IdsOfEntries
<1>4. PoolType'
  BY <1>1, <1>2 DEF PoolType, Vector
<1>5. OnePlace'
  BY <1>1, <1>3 DEF OnePlace
<1>6. DueIsKept'
  BY <1>1, <1>2 DEF DueIsKept
<1>7. NoLostWakeup'
  <2>1. ASSUME timers' # <<>>
        PROVE  /\ timers # <<>> /\ Last(timers).at \in Nat
               /\ Last(timers').at \in Nat
    <3>1. timers # <<>>
      BY <1>1
    <3> QED
      BY <1>2, <2>1, <3>1, LastIsEarliest DEF Entry
  <2> QED
    BY <1>1, <1>2, <2>1 DEF NoLostWakeup, PoolType
<1>8. Queued' = Queued \ {t} /\ t \in Queued
  <2>1. Queued' = ToSet(tasks') \cup Ids(timers')
    BY DEF Queued, Ids
  <2>2. Queued = ToSet(tasks) \cup Ids(timers)
    BY DEF Queued, Ids
  <2> QED
    BY <1>1, <1>3, <2>1, <2>2 DEF OnePlace
<1> QED
  BY <1>2, <1>4, <1>5, <1>6, <1>7, <1>8

\* The worker takes a task: the invariant holds, and the task was due.
LEMMA WorkerPopStep ==
  ASSUME PoolInv, WorkerPop
  PROVE  /\ PoolInv' /\ wcur' \in Task /\ wcur' \in Queued
         /\ Queued' = Queued \ {wcur'} /\ dueAt[wcur'] <= clock
<1> USE DEF PoolInv
<1>1. /\ Ready /\ Pop /\ begun' = begun \cup {wcur'}
      /\ wpc' \in {"run", "lastRun"}
      /\ UNCHANGED <<clock, poolOn, wuntil, dueAt, dropped>>
  BY DEF WorkerPop
<1>2. /\ wcur' \in Task /\ wcur' \in Queued /\ dueAt[wcur'] <= clock
      /\ Queued' = Queued \ {wcur'}
      /\ tasks' \in Seq(Task) /\ Vector(timers')
      /\ ToSet(tasks') = ToSet(tasks) \ {wcur'}
      /\ ToSet(timers') = {x \in ToSet(timers) : x.id # wcur'}
      /\ \A i, j \in DOMAIN tasks' : tasks'[i] = tasks'[j] => i = j
  BY <1>1, PopTakes
<1>3. Ids(timers') \subseteq Ids(timers) \ {wcur'}
  BY <1>2, IdsOfEntries
<1>4. PoolType'
  BY <1>1, <1>2 DEF PoolType, Place, Vector
<1>5. OnePlace'
  BY <1>1, <1>2, <1>3 DEF OnePlace
<1>6. DueIsKept'
  BY <1>1, <1>2 DEF DueIsKept
<1>7. NoLostWakeup'
  BY <1>1 DEF NoLostWakeup
<1> QED
  BY <1>2, <1>4, <1>5, <1>6, <1>7

\* The worker's other steps, and the clock, leave the tasks where they are.
LEMMA WorkerMovesStep ==
  ASSUME MaxTime \in Nat, PoolInv,
         \/ Stop \/ WorkerNothing \/ WorkerStops \/ WorkerRun \/ WorkerPark
         \/ WaitExpires \/ Tick \/ UNCHANGED poolVars
  PROVE  PoolInv' /\ UNCHANGED <<Queued, dueAt, begun, dropped>>
<1> USE DEF PoolInv
<1>1. UNCHANGED <<tasks, timers, dueAt, begun, dropped>>
  BY DEF Stop, WorkerNothing, WorkerStops, WorkerRun, WorkerPark, WaitExpires,
     Tick, poolVars
<1>2. clock \in 0 .. MaxTime /\ clock' \in 0 .. MaxTime /\ clock <= clock'
  BY DEF PoolType, Stop, WorkerNothing, WorkerStops, WorkerRun, WorkerPark,
     WaitExpires, Tick, poolVars
<1>3. timers # <<>> => Last(timers).at \in Nat
  BY LastIsEarliest DEF Entry
<1>4. PoolType'
  <2>1. wpc' \in Place /\ poolOn' \in BOOLEAN
    BY DEF PoolType, Place, Notified, Stop, WorkerNothing, WorkerStops, WorkerRun,
       WorkerPark, WaitExpires, Tick, poolVars
  <2>2. wuntil' \in Nat
    BY <1>3 DEF PoolType, Stop, WorkerNothing, WorkerStops, WorkerRun, WorkerPark,
       WaitExpires, Tick, poolVars
  <2> QED
    BY <1>1, <1>2, <2>1, <2>2 DEF PoolType
<1>5. OnePlace' /\ Vector(timers)'
  BY <1>1 DEF OnePlace
<1>6. DueIsKept'
  <2>1. ASSUME NEW u \in ToSet(tasks) PROVE dueAt[u] <= clock'
    <3>1. u \in Task
      BY ElementOfSeq, LenProperties DEF ToSet, PoolType
    <3>2. dueAt[u] \in 0 .. MaxTime /\ dueAt[u] <= clock
      BY <3>1 DEF PoolType, DueIsKept
    <3> QED
      BY <1>2, <3>2
  <2> QED
    BY <1>1, <2>1 DEF DueIsKept
<1>7. NoLostWakeup'
  <2>1. CASE wpc' # "waiting"
    BY <2>1 DEF NoLostWakeup
  <2>2. CASE WorkerPark /\ wpc' = "waiting"
    <3>1. ~Ready /\ poolOn /\ poolOn' = poolOn
      BY <2>2 DEF WorkerPark
    <3>2. timers # <<>> => wuntil' = Last(timers).at
      BY <2>2 DEF WorkerPark
    <3> QED
      BY <1>1, <1>3, <3>1, <3>2 DEF NoLostWakeup, Ready
  <2>3. CASE (Tick \/ UNCHANGED poolVars) /\ wpc' = "waiting"
    <3>1. wpc = "waiting" /\ poolOn' = poolOn /\ wuntil' = wuntil
      BY <2>3 DEF Tick, poolVars
    <3> QED
      BY <1>1, <1>2, <3>1 DEF NoLostWakeup, PoolType
  <2>4. ASSUME Stop \/ WorkerNothing \/ WorkerStops \/ WorkerRun \/ WaitExpires
        PROVE  wpc' # "waiting"
    BY <2>4 DEF Stop, Notified, WorkerNothing, WorkerStops, WorkerRun, WaitExpires
  <2> QED
    BY <2>1, <2>2, <2>3, <2>4
<1> QED
  BY <1>1, <1>4, <1>5, <1>6, <1>7 DEF Queued

\* Every step of the pool, its users and its worker keeps the invariant.
LEMMA PoolStep ==
  ASSUME MaxTime \in Nat
  PROVE  PoolInv /\ [Next]_poolVars => PoolInv'
<1> SUFFICES ASSUME PoolInv, [Next]_poolVars PROVE PoolInv'
  OBVIOUS
<1>1. ASSUME NEW t \in Task, Push(t) \/ Cancel(t) PROVE PoolInv'
  BY <1>1, PushStep, CancelStep
<1>2. ASSUME NEW t \in Task, NEW d \in 0 .. MaxTime,
             PushDelayed(t, d) \/ Delay(t, d)
      PROVE  PoolInv'
  BY <1>2, PushDelayedStep, DelayStep
<1>3. CASE WorkerPop
  BY <1>3, WorkerPopStep
<1>4. CASE \/ Stop \/ WorkerNothing \/ WorkerStops \/ WorkerRun \/ WorkerPark
           \/ WaitExpires \/ Tick \/ UNCHANGED poolVars
  BY <1>4, WorkerMovesStep
<1> QED
  BY <1>1, <1>2, <1>3, <1>4 DEF Next, WorkerStep

\* The worker of the pool never sleeps over a task or a due timer, for any set of
\* tasks (thread_pool.h, _main): between its look at the pool and its wait it
\* holds the lock that push, pushDelayed and stop take before they notify.
THEOREM WorkerIsWoken ==
  ASSUME MaxTime \in Nat
  PROVE  Spec => []NoLostWakeup
<1>1. Init => PoolInv
  BY PoolInit
<1>2. PoolInv => NoLostWakeup
  BY DEF PoolInv
<1>3. PoolInv /\ [Next]_poolVars => PoolInv'
  BY PoolStep
<1> QED
  BY <1>1, <1>2, <1>3, PTL DEF Spec

\* The invariant puts the earliest timer at the back.
LEMMA PoolInvIsSorted ==
  ASSUME PoolInv
  PROVE  EarliestAtBack
<1>1. CASE timers # <<>>
  BY <1>1, LastIsEarliest DEF PoolInv, EarliestAtBack
<1>2. CASE timers = <<>>
  BY <1>2 DEF EarliestAtBack
<1> QED
  BY <1>1, <1>2

\* However tasks are pushed, delayed and cancelled, the earliest timer stands at
\* the back, where pop looks (task_pool.h).
THEOREM BackIsEarliest ==
  ASSUME MaxTime \in Nat
  PROVE  Spec => []EarliestAtBack
<1>1. Init => PoolInv
  BY PoolInit
<1>2. PoolInv => EarliestAtBack
  BY PoolInvIsSorted
<1>3. PoolInv /\ [Next]_poolVars => PoolInv'
  BY PoolStep
<1> QED
  BY <1>1, <1>2, <1>3, PTL DEF Spec

\* A step of the pool is a step of the service: push and pushDelayed submit,
\* delay postpones, cancel cancels, the worker's pop starts a task that is due,
\* the clock passes, and everything else changes nothing a user can see.
LEMMA PoolRefines ==
  ASSUME MaxTime \in Nat
  PROVE  PoolInv /\ [Next]_poolVars => [Service!Next]_(Service!vars)
<1> SUFFICES ASSUME PoolInv, [Next]_poolVars
             PROVE  Service!Next \/ UNCHANGED Service!vars
  OBVIOUS
<1>0. /\ Queued \cap begun = {} /\ Queued \cap dropped = {}
      /\ clock \in 0 .. MaxTime
  <2>1. Queued = ToSet(tasks) \cup Ids(timers)
    BY DEF Queued, Ids
  <2> QED
    BY <2>1 DEF PoolInv, OnePlace, PoolType
<1>1. ASSUME NEW t \in Task, Push(t) PROVE Service!Submit(t)
  <2>1. /\ Fresh(t) /\ dueAt' = [dueAt EXCEPT ![t] = clock]
        /\ UNCHANGED <<clock, begun, dropped>>
    BY <1>1 DEF Push
  <2>2. Queued' = Queued \cup {t}
    BY <1>1, PushStep
  <2>3. clock \in clock .. MaxTime
    BY <1>0
  <2> QED
    BY <2>1, <2>2, <2>3 DEF Service!Submit, Fresh
<1>2. ASSUME NEW t \in Task, NEW d \in 0 .. MaxTime, PushDelayed(t, d)
      PROVE  Service!Submit(t)
  <2>1. /\ Fresh(t) /\ dueAt' = [dueAt EXCEPT ![t] = clock + d]
        /\ clock + d <= MaxTime /\ UNCHANGED <<clock, begun, dropped>>
    BY <1>2 DEF PushDelayed
  <2>2. Queued' = Queued \cup {t}
    BY <1>2, PushDelayedStep
  <2>3. clock + d \in clock .. MaxTime
    BY <1>0, <2>1
  <2> QED
    BY <2>1, <2>2, <2>3 DEF Service!Submit, Fresh
<1>3. ASSUME NEW t \in Task, NEW d \in 0 .. MaxTime, Delay(t, d)
      PROVE  Service!Postpone(t)
  <2>1. /\ dueAt' = [dueAt EXCEPT ![t] = clock + d]
        /\ UNCHANGED <<clock, begun, dropped>>
    BY <1>3 DEF Delay
  <2>2. /\ Queued' = Queued /\ t \in Queued
        /\ clock + d \in dueAt[t] .. MaxTime
    BY <1>3, DelayStep
  <2> QED
    BY <1>0, <2>1, <2>2 DEF Service!Postpone
<1>4. ASSUME NEW t \in Task, Cancel(t) PROVE Service!Cancel(t)
  <2>1. dropped' = dropped \cup {t} /\ UNCHANGED <<clock, dueAt, begun>>
    BY <1>4 DEF Cancel
  <2>2. Queued' = Queued \ {t} /\ t \in Queued
    BY <1>4, CancelStep
  <2> QED
    BY <1>0, <2>1, <2>2 DEF Service!Cancel
<1>5. CASE WorkerPop
  <2>1. begun' = begun \cup {wcur'} /\ UNCHANGED <<clock, dueAt, dropped>>
    BY <1>5 DEF WorkerPop
  <2>2. /\ wcur' \in Task /\ wcur' \in Queued /\ dueAt[wcur'] <= clock
        /\ Queued' = Queued \ {wcur'}
    BY <1>5, WorkerPopStep
  <2>3. Service!Start(wcur')
    BY <1>0, <2>1, <2>2 DEF Service!Start
  <2> QED
    BY <2>2, <2>3 DEF Service!Next
<1>6. CASE Tick
  <2>1. UNCHANGED <<Queued, dueAt, begun, dropped>>
    BY <1>6, WorkerMovesStep
  <2>2. clock' > clock
    BY <1>0, <1>6 DEF Tick
  <2> QED
    BY <2>1, <2>2 DEF Service!Next, Service!Pass
<1>7. CASE \/ Stop \/ WorkerNothing \/ WorkerStops \/ WorkerRun \/ WorkerPark
           \/ WaitExpires \/ UNCHANGED poolVars
  <2>1. UNCHANGED <<Queued, dueAt, begun, dropped>>
    BY <1>7, WorkerMovesStep
  <2>2. clock' = clock
    BY <1>7 DEF Stop, WorkerNothing, WorkerStops, WorkerRun, WorkerPark,
       WaitExpires, poolVars
  <2> QED
    BY <2>1, <2>2 DEF Service!vars
<1> QED
  BY <1>1, <1>2, <1>3, <1>4, <1>5, <1>6, <1>7
     DEF Next, WorkerStep, Service!Next

\* The task pool implements the service its users rely on, for any set of tasks
\* and any clock: a task runs at most once, not before it is due, and never after
\* cancel returned true (task_pool.h, thread_pool.h).
THEOREM PoolImplementsService ==
  ASSUME MaxTime \in Nat
  PROVE  Spec => ImplementsService
<1>1. Init => PoolInv
  BY PoolInit
<1>2. Init => Service!Init
  <2>1. ASSUME Init PROVE Queued = {}
    BY <2>1 DEF Init, Queued, ToSet
  <2> QED
    BY <2>1 DEF Init, Service!Init
<1>3. PoolInv /\ [Next]_poolVars => PoolInv'
  BY PoolStep
<1>4. PoolInv /\ [Next]_poolVars => [Service!Next]_(Service!vars)
  BY PoolRefines
<1> QED
  BY <1>1, <1>2, <1>3, <1>4, PTL DEF Spec, ImplementsService, Service!Spec

(***************************************************************************)
(* Queues, events and the mail registry.                                   *)
(***************************************************************************)
\* A product is no smaller than a factor, if the other factor is positive.
LEMMA TimesGrows ==
  ASSUME NEW k \in Nat, NEW m \in Nat, m >= 1
  PROVE  k * m >= k
OBVIOUS

\* A multiple of the divisor leaves no remainder.
LEMMA ModStep ==
  ASSUME NEW c \in Nat, NEW k \in Nat \ {0}, c % k = 0
  PROVE  (c + k) % k = 0
<1> DEFINE d == c \div k
           r == (c + k) % k
           q == (c + k) \div k
<1>1. d \in Int /\ q \in Int /\ r \in 0 .. k - 1
  OBVIOUS
<1>2. c = k * d
  OBVIOUS
<1>3. c + k = k * q + r
  OBVIOUS
<1> HIDE DEF d, r, q
<1>4. r = k * (d + 1 - q)
  BY <1>1, <1>2, <1>3
<1>5. CASE d + 1 - q >= 1
  BY <1>1, <1>4, <1>5, TimesGrows
<1>6. CASE d + 1 - q <= -1
  BY <1>1, <1>4, <1>6, TimesGrows
<1>7. CASE d + 1 - q = 0
  BY <1>1, <1>4, <1>7 DEF r
<1> QED
  BY <1>1, <1>5, <1>6, <1>7

(***************************************************************************)
(* queue_t                                                                 *)
(***************************************************************************)
QueueType ==
  /\ queue \in Seq(Nat) /\ queueOn \in BOOLEAN /\ raised \in Nat
  /\ qpc \in [Consumer -> {"out", "wait", "timedWait", "woken", "timedWoken"}]
  /\ popped \in Seq(Nat) /\ lost \in SUBSET Nat

\* The queue holds the elements raised last, in order and without a gap, and
\* no more than its capacity.
QueueIsRecent ==
  /\ Len(queue) <= Cap /\ Len(queue) <= raised
  /\ \A i \in 1 .. Len(queue) : queue[i] = raised - Len(queue) + i

\* Everything older has been popped, in order, or was lost.
OlderIsGone ==
  /\ \A i, j \in DOMAIN popped : i < j => popped[i] < popped[j]
  /\ ToSet(popped) \cup lost = 1 .. raised - Len(queue)

\* A full queue is lost as a whole.
LostInWholes == IsFiniteSet(lost) /\ Cardinality(lost) % Cap = 0

QueueInv ==
  QueueType /\ QueueIsRecent /\ OlderIsGone /\ LostInWholes /\ QueueNoLostWakeup

\* The elements of the queue are the numbers after the older ones.
LEMMA QueueElements ==
  ASSUME QueueInv
  PROVE  ToSet(queue) = raised - Len(queue) + 1 .. raised
<1>1. Len(queue) \in Nat /\ DOMAIN queue = 1 .. Len(queue) /\ raised \in Nat
  BY LenProperties DEF QueueInv, QueueType
<1>2. \A i \in 1 .. Len(queue) : queue[i] = raised - Len(queue) + i
  BY DEF QueueInv, QueueIsRecent
<1>3. ASSUME NEW n \in raised - Len(queue) + 1 .. raised PROVE n \in ToSet(queue)
  <2>1. n - (raised - Len(queue)) \in 1 .. Len(queue)
    BY <1>1
  <2>2. queue[n - (raised - Len(queue))] = n
    BY <1>1, <1>2, <2>1
  <2> QED
    BY <1>1, <2>1, <2>2 DEF ToSet
<1>4. ASSUME NEW i \in 1 .. Len(queue)
      PROVE  queue[i] \in raised - Len(queue) + 1 .. raised
  BY <1>1, <1>2
<1> QED
  BY <1>1, <1>3, <1>4 DEF ToSet

\* The queue starts empty, and running.
LEMMA QueueInvInit ==
  ASSUME Cap \in Nat \ {0}, QueueInit
  PROVE  QueueInv
<1>1. QueueType
  BY EmptySeq DEF QueueInit, QueueType
<1>2. Len(queue) = 0 /\ raised = 0 /\ ToSet(popped) = {} /\ lost = {}
  BY DEF QueueInit, ToSet
<1>3. QueueIsRecent
  BY <1>2 DEF QueueIsRecent
<1>4. OlderIsGone
  BY <1>2 DEF OlderIsGone, QueueInit
<1>5. LostInWholes
  BY <1>2, FS_EmptySet DEF LostInWholes
<1>6. QueueNoLostWakeup
  BY DEF QueueInit, QueueNoLostWakeup
<1> QED
  BY <1>1, <1>3, <1>4, <1>5, <1>6 DEF QueueInv

\* raise: a full queue is dropped as a whole before the element is appended, and
\* everybody who waits is woken.
LEMMA QueueRaiseStep ==
  ASSUME Cap \in Nat \ {0}, QueueInv, QueueRaise
  PROVE  QueueInv'
<1> USE DEF QueueInv
<1>1. raised' = raised + 1 /\ qpc' = Woken /\ UNCHANGED <<queueOn, popped>>
  BY DEF QueueRaise
<1>2. Len(queue) \in Nat /\ DOMAIN queue = 1 .. Len(queue) /\ raised \in Nat
  BY LenProperties DEF QueueType
<1>3. \A c \in Consumer : qpc'[c] \in {"out", "woken", "timedWoken"}
  BY <1>1 DEF Woken, QueueType
<1>4. qpc' \in [Consumer -> {"out", "wait", "timedWait", "woken", "timedWoken"}]
  BY <1>1 DEF Woken, QueueType
<1>5. QueueNoLostWakeup'
  BY <1>3 DEF QueueNoLostWakeup
<1>6. CASE Len(queue) = Cap
  <2>1. queue' = <<raised + 1>> /\ lost' = lost \cup ToSet(queue)
    <3>1. queue' = Append(<<>>, raised + 1)
      BY <1>6 DEF QueueRaise
    <3> QED
      BY <1>6, <3>1 DEF QueueRaise
  <2>2. queue' \in Seq(Nat) /\ Len(queue') = 1 /\ queue'[1] = raised + 1
    BY <1>2, <2>1
  <2>3. ToSet(queue) = raised - Len(queue) + 1 .. raised
    BY QueueElements
  <2>4. QueueType'
    <3>1. \A n \in raised - Len(queue) + 1 .. raised : n \in Nat
      BY <1>2 DEF QueueIsRecent
    <3>2. lost' \in SUBSET Nat
      BY <2>1, <2>3, <3>1 DEF QueueType
    <3> QED
      BY <1>1, <1>2, <1>4, <2>2, <3>2 DEF QueueType
  <2>5. QueueIsRecent'
    BY <1>1, <1>2, <2>2 DEF QueueIsRecent
  <2>6. OlderIsGone'
    <3>1. ToSet(popped) \cup lost = 1 .. raised - Len(queue)
      BY DEF OlderIsGone
    <3>2. ToSet(popped) \cup lost' = 1 .. raised
      BY <1>2, <2>1, <2>3, <3>1 DEF QueueIsRecent
    <3>3. raised' - Len(queue') = raised
      BY <1>1, <1>2, <2>2
    <3> QED
      BY <1>1, <3>2, <3>3 DEF OlderIsGone
  <2>7. LostInWholes'
    <3>1. lost \cap ToSet(queue) = {}
      BY <1>2, <2>3 DEF OlderIsGone
    <3>2. IsFiniteSet(ToSet(queue)) /\ Cardinality(ToSet(queue)) = Cap
      <4>1. raised - Len(queue) + 1 \in Int /\ raised \in Int
        BY <1>2
      <4>2. /\ IsFiniteSet(raised - Len(queue) + 1 .. raised)
            /\ Cardinality(raised - Len(queue) + 1 .. raised)
                 = IF raised - Len(queue) + 1 > raised THEN 0
                   ELSE raised - (raised - Len(queue) + 1) + 1
        BY <4>1, FS_Interval
      <4> QED
        BY <1>2, <1>6, <2>3, <4>2
    <3>3. /\ IsFiniteSet(lost')
          /\ Cardinality(lost') = Cardinality(lost) + Cap
                                    - Cardinality(lost \cap ToSet(queue))
      BY <2>1, <3>2, FS_Union DEF LostInWholes
    <3>4. Cardinality(lost \cap ToSet(queue)) = 0 /\ Cardinality(lost) \in Nat
      BY <3>1, FS_EmptySet, FS_CardinalityType DEF LostInWholes
    <3>5. Cardinality(lost') = Cardinality(lost) + Cap
      BY <3>3, <3>4
    <3> QED
      BY <3>3, <3>4, <3>5, ModStep DEF LostInWholes
  <2> QED
    BY <1>5, <2>4, <2>5, <2>6, <2>7
<1>7. CASE Len(queue) # Cap
  <2>1. queue' = Append(queue, raised + 1) /\ lost' = lost
    BY <1>7 DEF QueueRaise
  <2>2. /\ queue' \in Seq(Nat) /\ Len(queue') = Len(queue) + 1
        /\ \A i \in 1 .. Len(queue) : queue'[i] = queue[i]
        /\ queue'[Len(queue) + 1] = raised + 1
    BY <1>2, <2>1, AppendProperties DEF QueueType
  <2>3. QueueType'
    BY <1>1, <1>2, <1>4, <2>1, <2>2 DEF QueueType
  <2>4. QueueIsRecent'
    <3>1. Len(queue') <= Cap /\ Len(queue') <= raised'
      <4>1. Len(queue) <= Cap /\ Len(queue) <= raised
        BY DEF QueueIsRecent
      <4>2. Len(queue') = Len(queue) + 1
        BY <2>2
      <4>3. Len(queue) < Cap
        <5>1. \A m, k \in Nat : m <= k /\ m # k => m < k
          OBVIOUS
        <5> QED
          BY <1>2, <1>7, <4>1, <5>1, Zenon
      <4>4. Len(queue) + 1 <= Cap /\ Len(queue) + 1 <= raised + 1
        BY <1>2, <4>1, <4>3
      <4> QED
        BY <1>1, <4>2, <4>4
    <3>2. ASSUME NEW i \in 1 .. Len(queue')
          PROVE  queue'[i] = raised' - Len(queue') + i
      BY <1>1, <1>2, <2>2 DEF QueueIsRecent
    <3> QED
      BY <3>1, <3>2 DEF QueueIsRecent
  <2>5. raised' - Len(queue') = raised - Len(queue)
    BY <1>1, <1>2, <2>2
  <2>6. OlderIsGone' /\ LostInWholes'
    BY <1>1, <2>1, <2>5 DEF OlderIsGone, LostInWholes
  <2> QED
    BY <1>5, <2>3, <2>4, <2>6
<1> QED
  BY <1>6, <1>7

\* pop with an element: the oldest one, and newer than every one popped before.
LEMMA PopTakeStep ==
  ASSUME Cap \in Nat \ {0}, QueueInv, NEW c \in Consumer, queue # <<>>, PopTake(c)
  PROVE  QueueInv'
<1> USE DEF QueueInv
<1>1. /\ popped' = Append(popped, Head(queue)) /\ queue' = Tail(queue)
      /\ qpc' = [qpc EXCEPT ![c] = "out"]
      /\ UNCHANGED <<queueOn, raised, lost>>
  BY DEF PopTake
<1>2. /\ Len(queue) \in Nat \ {0} /\ DOMAIN queue = 1 .. Len(queue)
      /\ raised \in Nat
  BY LenProperties, EmptySeq DEF QueueType
<1>3. /\ queue' \in Seq(Nat) /\ Len(queue') = Len(queue) - 1
      /\ \A i \in 1 .. Len(queue) - 1 : queue'[i] = queue[i + 1]
  BY <1>1, HeadTailProperties DEF QueueType
<1> DEFINE h == raised - Len(queue) + 1
<1>4. Head(queue) = h /\ h \in Nat
  <2>1. Head(queue) = queue[1]
    BY DEF QueueType
  <2> QED
    BY <1>2, <2>1 DEF QueueIsRecent
<1>5. /\ popped' \in Seq(Nat) /\ DOMAIN popped' = 1 .. Len(popped) + 1
      /\ DOMAIN popped = 1 .. Len(popped) /\ Len(popped) \in Nat
      /\ \A i \in 1 .. Len(popped) : popped'[i] = popped[i]
      /\ popped'[Len(popped) + 1] = h
  BY <1>1, <1>4, AppendProperties, LenProperties DEF QueueType
<1>6. QueueType'
  BY <1>1, <1>3, <1>5 DEF QueueType
<1>7. QueueIsRecent'
  <2>1. Len(queue') <= Cap /\ Len(queue') <= raised'
    BY <1>1, <1>2, <1>3 DEF QueueIsRecent
  <2>2. ASSUME NEW i \in 1 .. Len(queue')
        PROVE  queue'[i] = raised' - Len(queue') + i
    <3>1. queue'[i] = queue[i + 1] /\ i + 1 \in 1 .. Len(queue)
      BY <1>2, <1>3
    <3> QED
      BY <1>1, <1>2, <1>3, <3>1 DEF QueueIsRecent
  <2> QED
    BY <2>1, <2>2 DEF QueueIsRecent
<1>8. OlderIsGone'
  <2>1. ToSet(popped') = ToSet(popped) \cup {h}
    BY <1>5 DEF ToSet
  <2>2. ToSet(popped') \cup lost' = 1 .. h
    BY <1>1, <1>2, <2>1 DEF OlderIsGone, QueueIsRecent
  <2>3. raised' - Len(queue') = h
    BY <1>1, <1>2, <1>3
  <2>4. \A i \in 1 .. Len(popped) : popped[i] \in Nat /\ popped[i] < h
    <3>1. \A i \in 1 .. Len(popped) : popped[i] \in 1 .. raised - Len(queue)
      BY <1>5 DEF OlderIsGone, ToSet
    <3> QED
      BY <1>2, <3>1
  <2>5. ASSUME NEW i \in 1 .. Len(popped) + 1, NEW j \in 1 .. Len(popped) + 1,
               i < j
        PROVE  popped'[i] < popped'[j]
    <3>1. i \in 1 .. Len(popped)
      BY <1>5, <2>5
    <3>2. CASE j = Len(popped) + 1
      BY <1>5, <2>4, <3>1, <3>2
    <3>3. CASE j # Len(popped) + 1
      <4>1. j \in 1 .. Len(popped)
        BY <1>5, <3>3
      <4> QED
        BY <1>5, <2>5, <3>1, <4>1 DEF OlderIsGone
    <3> QED
      BY <3>2, <3>3
  <2> HIDE DEF h
  <2> QED
    BY <1>5, <2>2, <2>3, <2>5 DEF OlderIsGone
<1>9. LostInWholes'
  BY <1>1 DEF LostInWholes
<1>10. QueueNoLostWakeup'
  BY <1>1 DEF QueueNoLostWakeup, QueueType
<1> QED
  BY <1>6, <1>7, <1>8, <1>9, <1>10

\* Every other step leaves the elements alone; who goes to sleep does so only
\* while the queue is empty and not stopped.
LEMMA QueueMoveStep ==
  ASSUME QueueInv, UNCHANGED <<queue, raised, popped, lost>>,
         queueOn' \in BOOLEAN,
         qpc' \in [Consumer -> {"out", "wait", "timedWait", "woken", "timedWoken"}],
         QueueNoLostWakeup'
  PROVE  QueueInv'
BY DEF QueueInv, QueueType, QueueIsRecent, OlderIsGone, LostInWholes

\* Every step of producers, consumers and stop keeps the invariant.
LEMMA QueueStep ==
  ASSUME Cap \in Nat \ {0}
  PROVE  QueueInv /\ [QueueNext]_queueVars => QueueInv'
<1> SUFFICES ASSUME QueueInv, [QueueNext]_queueVars PROVE QueueInv'
  OBVIOUS
<1>1. CASE QueueRaise
  BY <1>1, QueueRaiseStep
<1>2. CASE QueueStop
  <2>1. /\ UNCHANGED <<queue, raised, popped, lost>> /\ queueOn' = FALSE
        /\ qpc' = Woken
    BY <1>2 DEF QueueStop
  <2>2. /\ \A c \in Consumer : qpc'[c] \in {"out", "woken", "timedWoken"}
        /\ qpc' \in [Consumer ->
                       {"out", "wait", "timedWait", "woken", "timedWoken"}]
    BY <2>1 DEF Woken, QueueInv, QueueType
  <2>3. QueueNoLostWakeup'
    BY <2>2 DEF QueueNoLostWakeup
  <2> QED
    BY <2>1, <2>2, <2>3, QueueMoveStep
<1>3. ASSUME NEW c \in Consumer, ConsumerStep(c) PROVE QueueInv'
  <2>1. \/ queue # <<>> /\ PopTake(c)
        \/ Become(c, "out")
        \/ queue = <<>> /\ queueOn /\ (Become(c, "wait") \/ Become(c, "timedWait"))
    BY <1>3 DEF ConsumerStep, PopEnter, TimedPopEnter, PopResume, TimedPopResume,
       TimedPopTimeout
  <2>2. CASE queue # <<>> /\ PopTake(c)
    BY <2>2, PopTakeStep
  <2>3. CASE Become(c, "out")
    <3>1. /\ UNCHANGED <<queue, queueOn, raised, popped, lost>>
          /\ qpc' = [qpc EXCEPT ![c] = "out"]
      BY <2>3 DEF Become
    <3>2. /\ qpc' \in [Consumer ->
                         {"out", "wait", "timedWait", "woken", "timedWoken"}]
          /\ queueOn' \in BOOLEAN
      BY <3>1 DEF QueueInv, QueueType
    <3>3. QueueNoLostWakeup'
      BY <3>1 DEF QueueInv, QueueType, QueueNoLostWakeup
    <3> QED
      BY <3>1, <3>2, <3>3, QueueMoveStep
  <2>4. ASSUME queue = <<>>, queueOn, NEW s \in {"wait", "timedWait"},
               Become(c, s)
        PROVE  QueueInv'
    <3>1. /\ UNCHANGED <<queue, queueOn, raised, popped, lost>>
          /\ qpc' = [qpc EXCEPT ![c] = s]
      BY <2>4 DEF Become
    <3>2. /\ qpc' \in [Consumer ->
                         {"out", "wait", "timedWait", "woken", "timedWoken"}]
          /\ queueOn' \in BOOLEAN
      BY <3>1 DEF QueueInv, QueueType
    <3>3. QueueNoLostWakeup'
      BY <2>4, <3>1 DEF QueueNoLostWakeup
    <3> QED
      BY <3>1, <3>2, <3>3, QueueMoveStep
  <2> QED
    BY <2>1, <2>2, <2>3, <2>4
<1>4. CASE UNCHANGED queueVars
  BY <1>4, QueueMoveStep DEF queueVars, QueueInv, QueueType, QueueNoLostWakeup
<1> QED
  BY <1>1, <1>2, <1>3, <1>4 DEF QueueNext

\* A consumer sleeps only while there is nothing for it: whatever the producers,
\* stop and the other consumers do, a raise is never missed (queue_t raise, pop).
THEOREM ConsumersAreWoken ==
  ASSUME Cap \in Nat \ {0}
  PROVE  QueueSpec => []QueueNoLostWakeup
<1>1. QueueInit => QueueInv
  BY QueueInvInit
<1>2. QueueInv => QueueNoLostWakeup
  BY DEF QueueInv
<1>3. QueueInv /\ [QueueNext]_queueVars => QueueInv'
  BY QueueStep
<1> QED
  BY <1>1, <1>2, <1>3, PTL DEF QueueSpec

\* The invariant says what consumers have seen: the queue holds the elements
\* raised last, everything older is popped or lost.
LEMMA QueueInvIsFifo ==
  ASSUME QueueInv
  PROVE  FifoUpToOverflow
<1>1. ToSet(queue) = raised - Len(queue) + 1 .. raised
  BY QueueElements
<1>2. Len(queue) \in Nat /\ raised \in Nat /\ Len(queue) <= raised
  BY LenProperties DEF QueueInv, QueueType, QueueIsRecent
<1>3. ToSet(popped) \cup ToSet(queue) \cup lost = 1 .. raised
  BY <1>1, <1>2 DEF QueueInv, OlderIsGone
<1> QED
  BY <1>3 DEF QueueInv, OlderIsGone, LostInWholes, FifoUpToOverflow

\* Consumers see the elements once and in order; one is missing only because the
\* queue was full, and then a whole queue is (queue_t raise, pop).
THEOREM QueueIsFifo ==
  ASSUME Cap \in Nat \ {0}
  PROVE  QueueSpec => []FifoUpToOverflow
<1>1. QueueInit => QueueInv
  BY QueueInvInit
<1>2. QueueInv => FifoUpToOverflow
  BY QueueInvIsFifo
<1>3. QueueInv /\ [QueueNext]_queueVars => QueueInv'
  BY QueueStep
<1> QED
  BY <1>1, <1>2, <1>3, PTL DEF QueueSpec

(***************************************************************************)
(* event_t                                                                 *)
(***************************************************************************)
EventType ==
  /\ status \in Nat /\ count \in Nat /\ eventOn \in BOOLEAN
  /\ taken \in Seq(Nat)
  /\ wstate \in [Waiter -> [op : {"out", "pop", "view"}, timed : BOOLEAN,
                            woken : BOOLEAN]]

\* The slot holds one of the values raised so far, and everything popped is older.
SlotIsNewest ==
  /\ status <= count
  /\ \A i \in DOMAIN taken : taken[i] \in 1 .. count
  /\ status # 0 => \A i \in DOMAIN taken : taken[i] < status
  /\ \A i, j \in DOMAIN taken : i < j => taken[i] < taken[j]

EventInv == EventType /\ SlotIsNewest /\ EventNoLostWakeup

\* The event starts empty and running.
LEMMA EventInvInit ==
  ASSUME EventInit
  PROVE  EventInv
<1>1. EventType
  BY EmptySeq DEF EventInit, EventType, Out
<1>2. SlotIsNewest
  BY DEF EventInit, SlotIsNewest
<1> QED
  BY <1>1, <1>2 DEF EventInit, EventInv, EventNoLostWakeup

\* notify_all leaves nobody asleep.
LEMMA NotifyWakes ==
  ASSUME EventType, wstate' = NotifyAll
  PROVE  /\ wstate' \in [Waiter -> [op : {"out", "pop", "view"}, timed : BOOLEAN,
                                    woken : BOOLEAN]]
         /\ \A w \in Waiter : wstate'[w] = Out \/ wstate'[w].woken
BY DEF NotifyAll, EventType, Out

\* raise overwrites the slot with a newer value and wakes everybody.
LEMMA EventRaiseStep ==
  ASSUME EventInv, EventRaise
  PROVE  EventInv'
<1>1. /\ count' = count + 1 /\ status' = count + 1 /\ wstate' = NotifyAll
      /\ UNCHANGED <<eventOn, taken>>
  BY DEF EventRaise
<1>2. EventType'
  BY <1>1, NotifyWakes DEF EventInv, EventType
<1>3. \A i \in DOMAIN taken : taken[i] \in 1 .. count' /\ taken[i] < count + 1
  BY <1>1 DEF EventInv, EventType, SlotIsNewest
<1>4. SlotIsNewest'
  BY <1>1, <1>3 DEF EventInv, EventType, SlotIsNewest
<1>5. EventNoLostWakeup'
  BY <1>1, NotifyWakes DEF EventInv, EventNoLostWakeup, Out
<1> QED
  BY <1>2, <1>4, <1>5 DEF EventInv

\* pop takes the value out of the slot; view leaves it there.
LEMMA DeliverStep ==
  ASSUME EventInv, NEW w \in Waiter, NEW op \in {"out", "pop", "view"}, status # 0,
         Deliver(w, op)
  PROVE  EventInv'
<1>1. wstate' = [wstate EXCEPT ![w] = Out] /\ UNCHANGED <<eventOn, count>>
  BY DEF Deliver
<1>2. /\ wstate' \in [Waiter -> [op : {"out", "pop", "view"}, timed : BOOLEAN,
                                 woken : BOOLEAN]]
      /\ \A v \in Waiter : wstate'[v] = wstate[v] \/ wstate'[v] = Out
  BY <1>1 DEF EventInv, EventType, Out
<1>3. CASE op = "pop"
  <2>1. taken' = Append(taken, status) /\ status' = 0
    BY <1>3 DEF Deliver
  <2>2. /\ taken' \in Seq(Nat) /\ DOMAIN taken' = 1 .. Len(taken) + 1
        /\ DOMAIN taken = 1 .. Len(taken) /\ Len(taken) \in Nat
        /\ \A i \in 1 .. Len(taken) : taken'[i] = taken[i]
        /\ taken'[Len(taken) + 1] = status
    BY <2>1, AppendProperties, LenProperties DEF EventInv, EventType
  <2>3. EventType'
    BY <1>1, <1>2, <2>1, <2>2 DEF EventInv, EventType
  <2>4. \A i \in 1 .. Len(taken) : taken[i] \in 1 .. count /\ taken[i] < status
    BY <2>2 DEF EventInv, SlotIsNewest
  <2>5. status \in 1 .. count
    BY DEF EventInv, EventType, SlotIsNewest
  <2>6. \A i \in DOMAIN taken' : taken'[i] \in 1 .. count
    BY <2>2, <2>4, <2>5
  <2>7. ASSUME NEW i \in DOMAIN taken', NEW j \in DOMAIN taken', i < j
        PROVE  taken'[i] < taken'[j]
    <3>1. i \in 1 .. Len(taken)
      BY <2>2, <2>7
    <3>2. CASE j = Len(taken) + 1
      BY <2>2, <2>4, <3>1, <3>2
    <3>3. CASE j \in 1 .. Len(taken)
      BY <2>2, <2>7, <3>1, <3>3 DEF EventInv, SlotIsNewest
    <3> QED
      BY <2>2, <3>2, <3>3
  <2>8. SlotIsNewest'
    BY <1>1, <2>1, <2>6, <2>7 DEF EventInv, EventType, SlotIsNewest
  <2>9. EventNoLostWakeup'
    BY <2>1 DEF EventNoLostWakeup
  <2> QED
    BY <2>3, <2>8, <2>9 DEF EventInv
<1>4. CASE op # "pop"
  <2>1. UNCHANGED <<status, taken>>
    BY <1>4 DEF Deliver
  <2>2. EventType' /\ SlotIsNewest'
    BY <1>1, <1>2, <2>1 DEF EventInv, EventType, SlotIsNewest
  <2>3. EventNoLostWakeup'
    BY <1>2, <2>1 DEF EventInv, EventNoLostWakeup
  <2> QED
    BY <2>2, <2>3 DEF EventInv
<1> QED
  BY <1>3, <1>4

\* A thread that comes, goes or goes back to sleep moves no value, and it sleeps
\* only while the slot is empty.
LEMMA GoStep ==
  ASSUME EventInv, NEW w \in Waiter,
         NEW s \in [op : {"out", "pop", "view"}, timed : BOOLEAN, woken : BOOLEAN],
         s = Out \/ status = 0, Go(w, s)
  PROVE  EventInv'
<1>1. /\ wstate' = [wstate EXCEPT ![w] = s]
      /\ UNCHANGED <<status, eventOn, count, taken>>
  BY DEF Go
<1>2. EventType' /\ SlotIsNewest'
  BY <1>1 DEF EventInv, EventType, SlotIsNewest
<1>3. EventNoLostWakeup'
  BY <1>1 DEF EventInv, EventType, EventNoLostWakeup
<1> QED
  BY <1>2, <1>3 DEF EventInv

\* Every step of raise, stop, reset and the waiting threads keeps the invariant.
LEMMA EventStep ==
  EventInv /\ [EventNext]_eventVars => EventInv'
<1> SUFFICES ASSUME EventInv, [EventNext]_eventVars PROVE EventInv'
  OBVIOUS
<1>1. CASE EventRaise
  BY <1>1, EventRaiseStep
<1>2. CASE EventStop
  <2>1. /\ wstate' = NotifyAll /\ eventOn' = FALSE
        /\ UNCHANGED <<status, count, taken>>
    BY <1>2 DEF EventStop
  <2>2. EventType' /\ SlotIsNewest'
    BY <2>1, NotifyWakes DEF EventInv, EventType, SlotIsNewest
  <2>3. EventNoLostWakeup'
    BY <2>1, NotifyWakes DEF EventInv, EventNoLostWakeup, Out
  <2> QED
    BY <2>2, <2>3 DEF EventInv
<1>3. CASE EventReset
  BY <1>3 DEF EventReset, EventInv, EventType, SlotIsNewest, EventNoLostWakeup
<1>4. ASSUME NEW w \in Waiter, NEW op \in {"pop", "view"}, NEW timed \in BOOLEAN,
             Enter(w, op, timed)
      PROVE  EventInv'
  <2>1. CASE status # 0
    BY <1>4, <2>1, DeliverStep DEF Enter
  <2>2. CASE status = 0
    <3>1. Go(w, [op |-> op, timed |-> timed, woken |-> FALSE])
      BY <1>4, <2>2 DEF Enter
    <3> QED
      BY <2>2, <3>1, GoStep
  <2> QED
    BY <2>1, <2>2
<1>5. ASSUME NEW w \in Waiter, Resume(w) \/ Timeout(w) PROVE EventInv'
  <2>1. /\ wstate[w] \in [op : {"out", "pop", "view"}, timed : BOOLEAN,
                          woken : BOOLEAN]
        /\ wstate[w].op \in {"out", "pop", "view"}
        /\ [wstate[w] EXCEPT !.woken = FALSE]
             \in [op : {"out", "pop", "view"}, timed : BOOLEAN, woken : BOOLEAN]
        /\ Out \in [op : {"out", "pop", "view"}, timed : BOOLEAN, woken : BOOLEAN]
    BY DEF EventInv, EventType, Out
  <2>2. \/ Go(w, Out)
        \/ status # 0 /\ Deliver(w, wstate[w].op)
        \/ status = 0 /\ Go(w, [wstate[w] EXCEPT !.woken = FALSE])
    BY <1>5 DEF Resume, Timeout
  <2> QED
    BY <2>1, <2>2, DeliverStep, GoStep
<1>6. CASE UNCHANGED eventVars
  BY <1>6 DEF eventVars, EventInv, EventType, SlotIsNewest, EventNoLostWakeup
<1> QED
  BY <1>1, <1>2, <1>3, <1>4, <1>5, <1>6 DEF EventNext

\* The invariant says that no value is popped twice.
LEMMA EventInvIsOnce ==
  ASSUME EventInv
  PROVE  PoppedOnce
<1>1. \A i \in DOMAIN taken : taken[i] # status
  BY DEF EventInv, EventType, SlotIsNewest
<1> QED
  BY <1>1 DEF EventInv, SlotIsNewest, PoppedOnce, ToSet

\* A value goes to one of the threads in pop and to no other, and values come out
\* in the order raised, through overwriting, stop and reset (event_t raise, pop,
\* view, stop, reset).
THEOREM EventIsPoppedOnce == EventSpec => []PoppedOnce
<1>1. EventInit => EventInv
  BY EventInvInit
<1>2. EventInv => PoppedOnce
  BY EventInvIsOnce
<1> QED
  BY <1>1, <1>2, EventStep, PTL DEF EventSpec

\* A thread sleeps in pop or view only while the slot is empty (event_t raise,
\* stop: notify_all under the lock).
THEOREM EventWaitersAreWoken == EventSpec => []EventNoLostWakeup
<1>1. EventInit => EventInv
  BY EventInvInit
<1>2. EventInv => EventNoLostWakeup
  BY DEF EventInv
<1> QED
  BY <1>1, <1>2, EventStep, PTL DEF EventSpec
(***************************************************************************)
(* mail_raw_t                                                              *)
(***************************************************************************)
MailType ==
  /\ postName \in Seq(Name) /\ held \in [User -> SUBSET Posts]
  /\ registry \in [Name -> Nat] /\ dying \in SUBSET Posts

\* An entry of the registry, expired or not, is a post of that name.
EntriesAreNamed ==
  \A n \in Name : registry[n] # 0 => registry[n] \in Posts /\ postName[registry[n]] = n

ExpiredNames == {n \in Name : Expired(n)}

MailInv ==
  /\ MailType /\ EntriesAreNamed /\ OnePostPerName /\ dying \cap Owned = {}
  /\ IsFiniteSet(dying) /\ Cardinality(ExpiredNames) = Cardinality(dying)

\* A non-empty set of names has a first one.
LEMMA FirstName ==
  ASSUME NEW S \in SUBSET Nat, S # {}
  PROVE  \E x \in S : \A y \in S : x <= y
<1>1. PICK x \in S : \A y \in S : ~(<<y, x>> \in OpToRel(<, Nat))
  BY NatLessThanWellFounded, WFMin
<1>2. \A y \in Nat : y < x => <<y, x>> \in OpToRel(<, Nat)
  BY DEF OpToRel
<1>3. \A y \in S : ~(y < x)
  BY <1>1, <1>2
<1> QED
  BY <1>3

\* There are finitely many names.
LEMMA NamesAreFinite ==
  ASSUME Names \in Nat, NEW S \in SUBSET Name
  PROVE  IsFiniteSet(S) /\ Cardinality(S) \in Nat
<1>1. IsFiniteSet(1 .. Names)
  BY FS_Interval
<1> QED
  BY <1>1, FS_Subset, FS_CardinalityType DEF Name

\* No post and no entry at the start.
LEMMA MailInvInit ==
  ASSUME MailInit
  PROVE  MailInv
<1>1. Posts = {} /\ Owned = {}
  BY DEF MailInit, Posts, Owned
<1>2. MailType
  BY <1>1, EmptySeq DEF MailInit, MailType
<1>3. ExpiredNames = {}
  BY DEF MailInit, ExpiredNames, Expired
<1> QED
  BY <1>1, <1>2, <1>3, FS_EmptySet
     DEF MailInit, MailInv, EntriesAreNamed, OnePostPerName

\* A lookup of a live name adds an owner to an owned post; of an expired one, it
\* returns a null pointer and changes nothing.
LEMMA FindStep ==
  ASSUME MailInv, NEW u \in User, NEW n \in Name, Find(u, n)
  PROVE  MailInv'
<1>1. registry[n] \in Posts
  BY DEF Find, MailInv, EntriesAreNamed
<1>2. UNCHANGED <<postName, registry, dying>> /\ Posts' = Posts
  BY DEF Find, Posts
<1>3. MailType' /\ Owned' = Owned
  <2>1. CASE Expired(n)
    BY <1>2, <2>1 DEF Find, MailInv, MailType, Owned
  <2>2. CASE ~Expired(n)
    <3>1. held' = [held EXCEPT ![u] = @ \cup {registry[n]}]
      BY <2>2 DEF Find
    <3>2. registry[n] \in Owned
      BY <2>2 DEF Find, Expired
    <3> QED
      BY <1>1, <1>2, <3>1, <3>2 DEF MailInv, MailType, Owned
  <2> QED
    BY <2>1, <2>2
<1>4. ExpiredNames' = ExpiredNames
  BY <1>2, <1>3 DEF ExpiredNames, Expired
<1> QED
  BY <1>2, <1>3, <1>4 DEF MailInv, EntriesAreNamed, OnePostPerName

\* A new post is owned and registered under a name that had no entry.
LEMMA CreateStep ==
  ASSUME MailInv, NEW u \in User, NEW n \in Name, Create(u, n)
  PROVE  MailInv'
<1> DEFINE p == Len(postName) + 1
<1>1. /\ registry[n] = 0 /\ postName' = Append(postName, n)
      /\ UNCHANGED <<dying, nulls>>
  BY DEF Create
<1>2. /\ postName' \in Seq(Name) /\ Len(postName') = p /\ p \in Nat \ {0}
      /\ Posts = 1 .. p - 1 /\ Posts' = 1 .. p
      /\ \A q \in Posts : postName'[q] = postName[q]
      /\ postName'[p] = n
  BY <1>1, AppendProperties, LenProperties DEF MailInv, MailType, Posts
<1>3. /\ registry' = [registry EXCEPT ![n] = p]
      /\ held' = [held EXCEPT ![u] = @ \cup {p}]
  BY <1>2 DEF Create
<1> HIDE DEF p
<1>4. Posts \subseteq Posts' /\ p \in Posts' /\ p \notin Posts
  BY <1>2
<1>5. MailType'
  BY <1>1, <1>2, <1>3, <1>4 DEF MailInv, MailType
<1>6. Owned' = Owned \cup {p} /\ Owned \subseteq Posts
  BY <1>3 DEF MailInv, MailType, Owned
<1>7. EntriesAreNamed'
  BY <1>2, <1>3, <1>4 DEF MailInv, MailType, EntriesAreNamed
<1>8. OnePostPerName'
  <2>1. ASSUME NEW q \in Owned PROVE registry'[postName'[q]] = q
    <3>1. /\ postName'[q] = postName[q] /\ registry[postName[q]] = q
          /\ q # 0 /\ postName[q] \in Name
      BY <1>2, <1>6 DEF MailInv, MailType, OnePostPerName, Posts
    <3> QED
      BY <1>1, <1>3, <3>1 DEF MailInv, MailType
  <2>2. registry'[postName'[p]] = p
    BY <1>2, <1>3 DEF MailInv, MailType
  <2> QED
    BY <1>6, <2>1, <2>2 DEF OnePostPerName
<1>9. dying' \cap Owned' = {}
  BY <1>1, <1>4, <1>6 DEF MailInv, MailType
<1>10. ExpiredNames' = ExpiredNames
  <2>1. ASSUME NEW m \in Name PROVE Expired(m)' <=> Expired(m)
    <3>1. CASE m = n
      BY <1>1, <1>2, <1>3, <1>6, <3>1 DEF MailInv, MailType, Expired
    <3>2. CASE m # n
      <4>1. registry'[m] = registry[m] /\ (registry[m] # 0 => registry[m] # p)
        BY <1>3, <1>4, <3>2 DEF MailInv, MailType, EntriesAreNamed
      <4> QED
        BY <1>6, <4>1 DEF Expired
    <3> QED
      BY <3>1, <3>2
  <2> QED
    BY <2>1 DEF ExpiredNames, Name
<1> QED
  BY <1>1, <1>5, <1>7, <1>8, <1>9, <1>10 DEF MailInv

\* The last owner's release makes the post's own name, and no other, expire.
LEMMA ReleaseStep ==
  ASSUME Names \in Nat, MailInv, NEW u \in User, NEW p \in Posts, Release(u, p)
  PROVE  MailInv'
<1>1. /\ p \in held[u] /\ held' = [held EXCEPT ![u] = @ \ {p}]
      /\ UNCHANGED <<postName, registry, nulls>> /\ Posts' = Posts
  BY DEF Release, Posts
<1>2. p \in Owned /\ Owned \subseteq Posts
  BY <1>1 DEF Owned, MailInv, MailType
<1>3. CASE \E v \in User \ {u} : p \in held[v]
  <2>1. Owned' = Owned
    BY <1>1, <1>3 DEF Owned, MailInv, MailType
  <2>2. dying' = dying
    BY <1>3 DEF Release
  <2>3. MailType'
    BY <1>1, <2>2 DEF MailInv, MailType
  <2>4. ExpiredNames' = ExpiredNames
    BY <1>1, <2>1 DEF ExpiredNames, Expired
  <2> QED
    BY <1>1, <2>1, <2>2, <2>3, <2>4 DEF MailInv, EntriesAreNamed, OnePostPerName
<1>4. CASE ~\E v \in User \ {u} : p \in held[v]
  <2>1. Owned' = Owned \ {p}
    BY <1>1, <1>4 DEF Owned, MailInv, MailType
  <2>2. dying' = dying \cup {p}
    BY <1>4 DEF Release
  <2>3. MailType'
    BY <1>1, <2>2 DEF MailInv, MailType
  <2>4. /\ postName[p] \in Name /\ registry[postName[p]] = p /\ p # 0
        /\ ~Expired(postName[p]) /\ p \notin dying
    BY <1>2, LenProperties
       DEF MailInv, MailType, OnePostPerName, Expired, Posts
  <2>5. ExpiredNames' = ExpiredNames \cup {postName[p]}
    <3>1. ASSUME NEW m \in Name
          PROVE  Expired(m)' <=> Expired(m) \/ m = postName[p]
      BY <1>1, <1>2, <2>1, <2>4 DEF MailInv, EntriesAreNamed, Expired
    <3> QED
      BY <2>4, <3>1 DEF ExpiredNames, Name
  <2>6. postName[p] \notin ExpiredNames /\ ExpiredNames \in SUBSET Name
    BY <2>4 DEF ExpiredNames
  <2>7. Cardinality(ExpiredNames') = Cardinality(ExpiredNames) + 1
    BY <2>5, <2>6, NamesAreFinite, FS_AddElement
  <2>8. IsFiniteSet(dying') /\ Cardinality(dying') = Cardinality(dying) + 1
    BY <2>2, <2>4, FS_AddElement DEF MailInv
  <2>9. Cardinality(ExpiredNames') = Cardinality(dying')
    BY <2>7, <2>8 DEF MailInv
  <2>10. dying' \cap Owned' = {}
    BY <2>1, <2>2 DEF MailInv
  <2> QED
    BY <1>1, <2>1, <2>3, <2>8, <2>9, <2>10
       DEF MailInv, EntriesAreNamed, OnePostPerName
<1> QED
  BY <1>3, <1>4

\* A destructor finds an expired entry to erase, and erases no live one.
LEMMA CleanupStep ==
  ASSUME Names \in Nat, MailInv, NEW p \in dying, Cleanup(p)
  PROVE  MailInv'
<1> DEFINE n == CHOOSE n \in Name : Expired(n) /\ \A m \in Name : Expired(m) => n <= m
<1>1. ExpiredNames \in SUBSET Name /\ Name \subseteq Nat
  BY DEF ExpiredNames, Name
<1>2. ExpiredNames # {}
  BY NamesAreFinite, <1>1, FS_EmptySet DEF MailInv
<1>3. \E m \in ExpiredNames : \A k \in ExpiredNames : m <= k
  BY <1>1, <1>2, FirstName
<1>4. n \in Name /\ Expired(n)
  BY <1>3 DEF ExpiredNames
<1>5. /\ dying' = dying \ {p} /\ registry' = [registry EXCEPT ![n] = 0]
      /\ UNCHANGED <<postName, held, nulls>> /\ Posts' = Posts /\ Owned' = Owned
  BY <1>4 DEF Cleanup, Posts, Owned
<1> HIDE DEF n
<1>6. MailType' /\ EntriesAreNamed'
  BY <1>4, <1>5 DEF MailInv, MailType, EntriesAreNamed
<1>7. OnePostPerName'
  <2>1. ASSUME NEW q \in Owned PROVE registry'[postName[q]] = q
    <3>1. registry[postName[q]] = q /\ postName[q] \in Name
      BY DEF MailInv, MailType, OnePostPerName, Owned, Posts
    <3>2. postName[q] # n
      BY <1>4, <3>1 DEF Expired
    <3> QED
      BY <1>5, <3>1, <3>2 DEF MailInv, MailType
  <2> QED
    BY <1>5, <2>1 DEF OnePostPerName
<1>8. ExpiredNames' = ExpiredNames \ {n}
  <2>1. ASSUME NEW m \in Name PROVE Expired(m)' <=> Expired(m) /\ m # n
    BY <1>4, <1>5 DEF MailInv, MailType, Expired
  <2> QED
    BY <2>1 DEF ExpiredNames, Name
<1>9. Cardinality(ExpiredNames') = Cardinality(ExpiredNames) - 1
  <2>1. n \in ExpiredNames
    BY <1>4 DEF ExpiredNames
  <2> QED
    BY <1>1, <1>8, <2>1, NamesAreFinite, FS_RemoveElement
<1>10. IsFiniteSet(dying') /\ Cardinality(dying') = Cardinality(dying) - 1
  BY <1>5, FS_RemoveElement DEF MailInv
<1>11. Cardinality(ExpiredNames') = Cardinality(dying')
  BY <1>9, <1>10 DEF MailInv
<1>12. dying' \cap Owned' = {}
  BY <1>5 DEF MailInv
<1> QED
  BY <1>6, <1>7, <1>10, <1>11, <1>12 DEF MailInv

\* Every lookup, release and destructor keeps the invariant.
LEMMA MailStep ==
  ASSUME Names \in Nat
  PROVE  MailInv /\ [MailNext]_mailVars => MailInv'
<1> SUFFICES ASSUME MailInv, [MailNext]_mailVars PROVE MailInv'
  OBVIOUS
<1>1. CASE MailNext
  BY <1>1, FindStep, CreateStep, ReleaseStep, CleanupStep DEF MailNext
<1>2. CASE UNCHANGED mailVars
  <2>1. UNCHANGED <<postName, held, registry, dying>> /\ Posts' = Posts /\ Owned' = Owned
    BY <1>2 DEF mailVars, Posts, Owned
  <2>2. ExpiredNames' = ExpiredNames
    BY <2>1 DEF ExpiredNames, Expired
  <2> QED
    BY <2>1, <2>2 DEF MailInv, MailType, EntriesAreNamed, OnePostPerName
<1> QED
  BY <1>1, <1>2

\* Threads that use one name share one post, although cleanup erases whichever
\* expired entry comes first (mail_raw_t event, queue, cleanup).
THEOREM NamesAreShared ==
  ASSUME Names \in Nat
  PROVE  MailSpec => []OnePostPerName
<1>1. MailInit => MailInv
  BY MailInvInit
<1>2. MailInv => OnePostPerName
  BY DEF MailInv
<1>3. MailInv /\ [MailNext]_mailVars => MailInv'
  BY MailStep
<1> QED
  BY <1>1, <1>2, <1>3, PTL DEF MailSpec

\* The invariant counts as many expired names as posts about to clean up.
LEMMA MailInvIsBalanced ==
  ASSUME MailInv
  PROVE  CleanupBalanced
BY DEF MailInv, CleanupBalanced, ExpiredNames

\* Every post that expires pays for one entry of the registry: there are exactly
\* as many expired names as destructors still to run (mail_raw_t cleanup).
THEOREM CleanupPaysOnce ==
  ASSUME Names \in Nat
  PROVE  MailSpec => []CleanupBalanced
<1>1. MailInit => MailInv
  BY MailInvInit
<1>2. MailInv => CleanupBalanced
  BY MailInvIsBalanced
<1>3. MailInv /\ [MailNext]_mailVars => MailInv'
  BY MailStep
<1> QED
  BY <1>1, <1>2, <1>3, PTL DEF MailSpec

=============================================================================
