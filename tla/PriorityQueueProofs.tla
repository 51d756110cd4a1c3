------------------------ MODULE PriorityQueueProofs ------------------------
(***************************************************************************)
(* Theorems about PriorityQueue, for every set of tasks, every assignment  *)
(* of IDs, every capacity and every number of levels: the lists, the index *)
(* and the counter agree, and the levels implement one priority line.      *)
(***************************************************************************)
EXTENDS PriorityQueue, FiniteSetTheorems, SequenceTheorems,
        WellFoundedInduction, TLAPS

Bounds == 0..(MaxPrio + 1)

-----------------------------------------------------------------------------
(***************************************************************************)
(* Induction over the levels, by least elements.                           *)
(***************************************************************************)

\* A set of numbers that is not empty has a least element.
LEMMA Least ==
  ASSUME NEW T, T \subseteq Nat, T # {}
  PROVE  \E x \in T : \A y \in T : x <= y
<1> DEFINE R == {p \in Nat \X Nat : p[1] < p[2]}
<1>1. IsWellFoundedOn(R, Nat)
  BY NatLessThanWellFounded DEF OpToRel
<1>2. PICK x \in T : \A y \in T : ~(<<y, x>> \in R)
  <2> HIDE DEF R
  <2> QED BY <1>1, WFMin
<1>3. \A a, b \in Nat : a < b => <<a, b>> \in R
  OBVIOUS
<1>4. ASSUME NEW y \in T PROVE x <= y
  <2>1. x \in Nat /\ y \in Nat
    OBVIOUS
  <2>2. ~(y < x)
    <3> HIDE DEF R
    <3> QED BY <1>2, <1>3, <2>1
  <2> QED BY <2>1, <2>2
<1> QED BY <1>2, <1>4

\* What holds past the top level and passes down from each level holds at all.
LEMMA Down ==
  ASSUME NEW P, MaxPrio + 1 \in P,
         \A p \in Levels : p + 1 \in P => p \in P
  PROVE  \A p \in Bounds : p \in P
<1> SUFFICES ASSUME NEW bad \in Bounds, bad \notin P
             PROVE  FALSE
  OBVIOUS
<1> DEFINE T == {(MaxPrio + 1) - p : p \in Bounds \ P}
<1>1. T \subseteq Nat /\ T # {}
  BY CapacityAssumption DEF Bounds
<1>2. PICK x \in T : \A y \in T : x <= y
  <2> HIDE DEF T
  <2> QED BY <1>1, Least
<1>3. PICK p \in Bounds \ P : x = (MaxPrio + 1) - p
  BY <1>2
<1>4. p \in Levels /\ p + 1 \in Bounds
  BY CapacityAssumption DEF Bounds, Levels
<1>5. p + 1 \notin P
  BY <1>4
<1>6. (MaxPrio + 1) - (p + 1) \in T
  BY <1>4, <1>5
<1>7. x <= (MaxPrio + 1) - (p + 1)
  <2> HIDE DEF T
  <2> QED BY <1>2, <1>6
<1> QED BY <1>3, <1>4, <1>7, CapacityAssumption DEF Levels

\* What holds at the bottom and passes up from each level holds at all.
LEMMA Up ==
  ASSUME NEW P, 0 \in P,
         \A p \in Levels : p \in P => p + 1 \in P
  PROVE  \A p \in Bounds : p \in P
<1> SUFFICES ASSUME NEW bad \in Bounds, bad \notin P
             PROVE  FALSE
  OBVIOUS
<1> DEFINE T == Bounds \ P
<1>1. T \subseteq Nat /\ T # {}
  BY DEF Bounds
<1>2. PICK x \in T : \A y \in T : x <= y
  <2> HIDE DEF T
  <2> QED BY <1>1, Least
<1>3. x \in 1..(MaxPrio + 1)
  BY CapacityAssumption DEF Bounds
<1>4. x - 1 \in Levels /\ x - 1 \in Bounds /\ (x - 1) + 1 = x
  BY <1>3, CapacityAssumption DEF Bounds, Levels
<1>5. x - 1 \notin P
  BY <1>4
<1>6. x <= x - 1
  BY <1>2, <1>4, <1>5
<1> QED BY <1>3, <1>6, CapacityAssumption

-----------------------------------------------------------------------------
(***************************************************************************)
(* The recursive functions of the model are what their equations say.      *)
(***************************************************************************)

ServedFrom(lv, f, q) ==
  \A p \in q..(MaxPrio + 1) :
    f[p] = IF p = MaxPrio + 1 THEN <<>> ELSE f[p + 1] \o lv[p]

ServedEqs(lv, w) ==
  /\ w \in [Bounds -> Seq(Task)]
  /\ w[MaxPrio + 1] = <<>>
  /\ \A p \in Levels : w[p] = w[p + 1] \o lv[p]

\* Served(lv) satisfies the equations of its definition.
LEMMA ServedDef ==
  ASSUME NEW lv \in [Levels -> Seq(Task)]
  PROVE  ServedEqs(lv, Served(lv))
<1> DEFINE P == {q \in Bounds : \E f \in [q..(MaxPrio + 1) -> Seq(Task)] :
                                   ServedFrom(lv, f, q)}
           M == MaxPrio + 1
<1>m. M \in Nat /\ M > 0 /\ Bounds = 0..M /\ Levels = 0..(M - 1)
  BY CapacityAssumption DEF Bounds, Levels
<1>1. M \in P
  <2>1. [p \in M..M |-> <<>>] \in [M..M -> Seq(Task)]
    OBVIOUS
  <2>2. ServedFrom(lv, [p \in M..M |-> <<>>], M)
    BY <1>m DEF ServedFrom
  <2> QED BY <1>m, <2>1, <2>2
<1>2. ASSUME NEW q \in Levels, q + 1 \in P PROVE q \in P
  <2>1. PICK f \in [(q + 1)..M -> Seq(Task)] : ServedFrom(lv, f, q + 1)
    BY <1>2
  <2> DEFINE g == [p \in q..M |-> IF p = q THEN f[q + 1] \o lv[q] ELSE f[p]]
  <2>2. q \in Int /\ M \in Int /\ 0 <= q /\ q < M /\ q \in Bounds
    BY <1>m
  <2>a. f[q + 1] \in Seq(Task) /\ lv[q] \in Seq(Task)
    BY <2>2
  <2>b. f[q + 1] \o lv[q] \in Seq(Task)
    BY <2>a, ConcatProperties
  <2>3. g \in [q..M -> Seq(Task)]
    <3> SUFFICES ASSUME NEW p \in q..M
                 PROVE  (IF p = q THEN f[q + 1] \o lv[q] ELSE f[p]) \in Seq(Task)
      OBVIOUS
    <3>1. p # q => p \in (q + 1)..M
      BY <2>2
    <3> QED BY <2>b, <3>1
  <2>4. ServedFrom(lv, g, q)
    <3> SUFFICES ASSUME NEW p \in q..M
                 PROVE  g[p] = IF p = M THEN <<>> ELSE g[p + 1] \o lv[p]
      BY DEF ServedFrom
    <3>1. CASE p = q
      <4>1. q + 1 \in q..M /\ q # M /\ q + 1 # q
        BY <2>2
      <4> QED BY <3>1, <4>1
    <3>2. CASE p # q
      <4>1. p \in (q + 1)..M /\ (p # M => p + 1 \in q..M /\ p + 1 # q)
        BY <2>2, <3>2
      <4> QED BY <2>1, <3>2, <4>1 DEF ServedFrom
    <3> QED BY <3>1, <3>2
  <2> HIDE DEF g
  <2> QED BY <2>2, <2>3, <2>4
<1>3. 0 \in P
  <2> HIDE DEF P
  <2> QED BY <1>1, <1>2, <1>m, Down
<1>4. PICK f \in [0..M -> Seq(Task)] : ServedFrom(lv, f, 0)
  BY <1>3
<1>5. f = [p \in 0..M |-> IF p = M THEN <<>> ELSE f[p + 1] \o lv[p]]
  BY <1>4 DEF ServedFrom
<1> DEFINE w == Served(lv)
<1>6. w = CHOOSE v : v = [p \in 0..M |-> IF p = M THEN <<>> ELSE v[p + 1] \o lv[p]]
  BY DEF Served
<1>7. w = [p \in 0..M |-> IF p = M THEN <<>> ELSE w[p + 1] \o lv[p]]
  BY <1>5, <1>6
<1> HIDE DEF w
<1> DEFINE Q == {p \in Bounds : w[p] \in Seq(Task)}
<1>8. M \in Q
  BY <1>7, <1>m
<1>9. ASSUME NEW p \in Levels, p + 1 \in Q PROVE p \in Q
  <2>1. p \in 0..M /\ p # M
    BY <1>m
  <2>2. w[p] = w[p + 1] \o lv[p]
    BY <1>7, <2>1
  <2>3. w[p + 1] \o lv[p] \in Seq(Task)
    BY <1>9, ConcatProperties
  <2> QED BY <2>1, <2>2, <2>3, <1>m
<1>10. \A p \in Bounds : p \in Q
  <2> HIDE DEF Q
  <2> QED BY <1>8, <1>9, Down
<1>11. w \in [Bounds -> Seq(Task)]
  BY <1>7, <1>10, <1>m
<1>12. w[M] = <<>>
  BY <1>7, <1>m
<1>13. ASSUME NEW p \in Levels PROVE w[p] = w[p + 1] \o lv[p]
  <2>1. p \in 0..M /\ p # M
    BY <1>m
  <2> QED BY <1>7, <2>1
<1> QED BY <1>11, <1>12, <1>13 DEF w, ServedEqs

-----------------------------------------------------------------------------
(***************************************************************************)
(* Inserting, removing and cutting, position by position.                  *)
(***************************************************************************)

Insert(s, k, t) == SubSeq(s, 1, k) \o <<t>> \o SubSeq(s, k + 1, Len(s))
Cut(s, n) == SubSeq(s, 1, IF Len(s) > n THEN n ELSE Len(s))
Rest(s, n) == SubSeq(s, (IF Len(s) > n THEN n ELSE Len(s)) + 1, Len(s))

InsertFacts(s, k, t) ==
  /\ Insert(s, k, t) \in Seq(Task)
  /\ Len(Insert(s, k, t)) = Len(s) + 1
  /\ \A j \in 1..k : Insert(s, k, t)[j] = s[j]
  /\ Insert(s, k, t)[k + 1] = t
  /\ \A j \in (k + 2)..(Len(s) + 1) : Insert(s, k, t)[j] = s[j - 1]

\* Insert puts t behind the first k tasks and shifts the others.
LEMMA InsertIs ==
  ASSUME NEW s \in Seq(Task), NEW k \in 0..Len(s), NEW t \in Task
  PROVE  InsertFacts(s, k, t)
<1> DEFINE a == SubSeq(s, 1, k)
           b == <<t>>
           c == SubSeq(s, k + 1, Len(s))
<1>0. Len(s) \in Nat /\ k \in Nat /\ k <= Len(s) /\ \A i \in 1..Len(s) : s[i] \in Task
  BY LenProperties
<1>1. a \in Seq(Task) /\ Len(a) = k /\ \A i \in 1..k : a[i] = s[i]
  <2>1. \A i \in 1..k : s[i] \in Task
    BY <1>0
  <2>2. /\ a \in Seq(Task)
        /\ Len(a) = IF 1 <= k THEN k - 1 + 1 ELSE 0
        /\ \A i \in 1..(k - 1 + 1) : a[i] = s[1 + i - 1]
    BY <1>0, <2>1, SubSeqProperties
  <2> QED BY <1>0, <2>2
<1>2. c \in Seq(Task) /\ Len(c) = Len(s) - k /\ \A i \in 1..(Len(s) - k) : c[i] = s[k + i]
  <2>1. \A i \in (k + 1)..Len(s) : s[i] \in Task
    BY <1>0
  <2>2. /\ c \in Seq(Task)
        /\ Len(c) = IF k + 1 <= Len(s) THEN Len(s) - (k + 1) + 1 ELSE 0
        /\ \A i \in 1..(Len(s) - (k + 1) + 1) : c[i] = s[(k + 1) + i - 1]
    BY <1>0, <2>1, SubSeqProperties
  <2> QED BY <1>0, <2>2
<1>3. b \in Seq(Task) /\ Len(b) = 1 /\ b[1] = t
  OBVIOUS
<1> DEFINE ab == a \o b
<1> HIDE DEF a, b, c
<1>4. /\ ab \in Seq(Task)
      /\ Len(ab) = Len(a) + Len(b)
      /\ \A i \in 1..(Len(a) + Len(b)) : ab[i] = IF i <= Len(a) THEN a[i] ELSE b[i - Len(a)]
  BY <1>1, <1>3, ConcatProperties
<1> DEFINE abc == ab \o c
<1> HIDE DEF ab
<1>5. /\ abc \in Seq(Task)
      /\ Len(abc) = Len(ab) + Len(c)
      /\ \A i \in 1..(Len(ab) + Len(c)) : abc[i] = IF i <= Len(ab) THEN ab[i] ELSE c[i - Len(ab)]
  <2>1. ab \in Seq(Task) /\ c \in Seq(Task)
    BY <1>2, <1>4
  <2> QED BY <2>1, ConcatProperties
<1>6. Insert(s, k, t) = abc
  BY DEF Insert, abc, ab, a, b, c
<1> HIDE DEF abc
<1>7. Len(ab) = k + 1 /\ ab[k + 1] = t /\ \A i \in 1..k : ab[i] = a[i]
  BY <1>0, <1>1, <1>3, <1>4
<1>8. Len(abc) = Len(s) + 1
  BY <1>0, <1>2, <1>5, <1>7
<1>9. ASSUME NEW i \in 1..k PROVE abc[i] = s[i]
  <2>1. i \in 1..(Len(ab) + Len(c)) /\ i <= Len(ab)
    BY <1>0, <1>2, <1>7
  <2> QED BY <1>1, <1>5, <1>7, <2>1
<1>10. abc[k + 1] = t
  BY <1>0, <1>2, <1>5, <1>7
<1>11. ASSUME NEW j \in (k + 2)..(Len(s) + 1) PROVE abc[j] = s[j - 1]
  <2>1. j \in 1..(Len(ab) + Len(c)) /\ ~(j <= Len(ab))
    BY <1>0, <1>2, <1>7
  <2>2. abc[j] = c[j - (k + 1)]
    BY <1>5, <1>7, <2>1
  <2>3. j - (k + 1) \in 1..(Len(s) - k) /\ k + (j - (k + 1)) = j - 1
    BY <1>0
  <2> QED BY <1>2, <2>2, <2>3
<1> QED BY <1>5, <1>6, <1>8, <1>9, <1>10, <1>11 DEF InsertFacts

RemoveFacts(s, k) ==
  /\ RemoveIndex(s, k) \in Seq(Task)
  /\ Len(RemoveIndex(s, k)) = Len(s) - 1
  /\ \A j \in 1..(k - 1) : RemoveIndex(s, k)[j] = s[j]
  /\ \A j \in k..(Len(s) - 1) : RemoveIndex(s, k)[j] = s[j + 1]

\* RemoveIndex closes the gap that the task at k leaves.
LEMMA RemoveIs ==
  ASSUME NEW s \in Seq(Task), NEW k \in 1..Len(s)
  PROVE  RemoveFacts(s, k)
<1> DEFINE a == SubSeq(s, 1, k - 1)
           c == SubSeq(s, k + 1, Len(s))
<1>0. Len(s) \in Nat /\ k \in Nat /\ 1 <= k /\ k <= Len(s) /\ \A i \in 1..Len(s) : s[i] \in Task
  BY LenProperties
<1>1. a \in Seq(Task) /\ Len(a) = k - 1 /\ \A i \in 1..(k - 1) : a[i] = s[i]
  <2>1. k - 1 \in Int /\ \A i \in 1..(k - 1) : s[i] \in Task
    BY <1>0
  <2>2. /\ a \in Seq(Task)
        /\ Len(a) = IF 1 <= k - 1 THEN k - 1 - 1 + 1 ELSE 0
        /\ \A i \in 1..(k - 1 - 1 + 1) : a[i] = s[1 + i - 1]
    BY <2>1, SubSeqProperties
  <2> QED BY <1>0, <2>2
<1>2. c \in Seq(Task) /\ Len(c) = Len(s) - k /\ \A i \in 1..(Len(s) - k) : c[i] = s[k + i]
  <2>1. \A i \in (k + 1)..Len(s) : s[i] \in Task
    BY <1>0
  <2>2. /\ c \in Seq(Task)
        /\ Len(c) = IF k + 1 <= Len(s) THEN Len(s) - (k + 1) + 1 ELSE 0
        /\ \A i \in 1..(Len(s) - (k + 1) + 1) : c[i] = s[(k + 1) + i - 1]
    BY <1>0, <2>1, SubSeqProperties
  <2> QED BY <1>0, <2>2
<1> DEFINE ac == a \o c
<1>3. RemoveIndex(s, k) = ac
  BY DEF RemoveIndex
<1> HIDE DEF a, c
<1>4. /\ ac \in Seq(Task)
      /\ Len(ac) = Len(a) + Len(c)
      /\ \A i \in 1..(Len(a) + Len(c)) : ac[i] = IF i <= Len(a) THEN a[i] ELSE c[i - Len(a)]
  BY <1>1, <1>2, ConcatProperties
<1> HIDE DEF ac
<1>5. \A i \in 1..(k - 1) : ac[i] = s[i]
  BY <1>0, <1>1, <1>2, <1>4
<1>6. ASSUME NEW j \in k..(Len(s) - 1) PROVE ac[j] = s[j + 1]
  <2>1. j \in 1..(Len(a) + Len(c)) /\ ~(j <= Len(a))
    BY <1>0, <1>1, <1>2
  <2>2. ac[j] = c[j - (k - 1)]
    BY <1>1, <1>4, <2>1
  <2>3. j - (k - 1) \in 1..(Len(s) - k) /\ k + (j - (k - 1)) = j + 1
    BY <1>0
  <2> QED BY <1>2, <2>2, <2>3
<1> QED BY <1>0, <1>1, <1>2, <1>3, <1>4, <1>5, <1>6 DEF RemoveFacts

\* How many of s a batch of n takes.
Took(s, n) == IF Len(s) > n THEN n ELSE Len(s)

CutFacts(s, n) ==
  /\ Took(s, n) \in 0..Len(s)
  /\ Cut(s, n) \in Seq(Task)
  /\ Len(Cut(s, n)) = Took(s, n)
  /\ \A j \in 1..Took(s, n) : Cut(s, n)[j] = s[j]
  /\ Rest(s, n) \in Seq(Task)
  /\ Len(Rest(s, n)) = Len(s) - Took(s, n)
  /\ \A j \in 1..(Len(s) - Took(s, n)) : Rest(s, n)[j] = s[Took(s, n) + j]

\* Cut is the front of s and Rest what stays.
LEMMA CutIs ==
  ASSUME NEW s \in Seq(Task), NEW n \in Nat
  PROVE  CutFacts(s, n)
<1> DEFINE m == Took(s, n)
<1>0. Len(s) \in Nat /\ \A i \in 1..Len(s) : s[i] \in Task
  BY LenProperties
<1>1. m \in 0..Len(s)
  BY <1>0 DEF Took
<1>2. Cut(s, n) = SubSeq(s, 1, m) /\ Rest(s, n) = SubSeq(s, m + 1, Len(s))
  BY DEF Cut, Rest, Took
<1> HIDE DEF m
<1>3. /\ SubSeq(s, 1, m) \in Seq(Task)
      /\ Len(SubSeq(s, 1, m)) = m
      /\ \A j \in 1..m : SubSeq(s, 1, m)[j] = s[j]
  <2>1. m \in Int /\ \A i \in 1..m : s[i] \in Task
    BY <1>0, <1>1
  <2>2. /\ SubSeq(s, 1, m) \in Seq(Task)
        /\ Len(SubSeq(s, 1, m)) = IF 1 <= m THEN m - 1 + 1 ELSE 0
        /\ \A i \in 1..(m - 1 + 1) : SubSeq(s, 1, m)[i] = s[1 + i - 1]
    BY <2>1, SubSeqProperties
  <2> QED BY <1>0, <1>1, <2>2
<1>4. /\ SubSeq(s, m + 1, Len(s)) \in Seq(Task)
      /\ Len(SubSeq(s, m + 1, Len(s))) = Len(s) - m
      /\ \A j \in 1..(Len(s) - m) : SubSeq(s, m + 1, Len(s))[j] = s[m + j]
  <2>1. m \in Int /\ Len(s) \in Int /\ \A i \in (m + 1)..Len(s) : s[i] \in Task
    BY <1>0, <1>1
  <2>2. /\ SubSeq(s, m + 1, Len(s)) \in Seq(Task)
        /\ Len(SubSeq(s, m + 1, Len(s))) = IF m + 1 <= Len(s) THEN Len(s) - (m + 1) + 1 ELSE 0
        /\ \A i \in 1..(Len(s) - (m + 1) + 1) : SubSeq(s, m + 1, Len(s))[i] = s[(m + 1) + i - 1]
    BY <2>1, SubSeqProperties
  <2> QED BY <1>0, <1>1, <2>2
<1> QED BY <1>1, <1>2, <1>3, <1>4 DEF CutFacts, m

-----------------------------------------------------------------------------
(***************************************************************************)
(* Where the tasks of the levels stand in the line.                        *)
(***************************************************************************)

StepFacts(lv, p, w) ==
  /\ w[p] \in Seq(Task) /\ w[p + 1] \in Seq(Task) /\ lv[p] \in Seq(Task)
  /\ Len(w[p]) \in Nat /\ Len(w[p + 1]) \in Nat /\ Len(lv[p]) \in Nat
  /\ Len(w[p]) = Len(w[p + 1]) + Len(lv[p])
  /\ \A k \in 1..Len(w[p + 1]) : w[p][k] = w[p + 1][k]
  /\ \A i \in 1..Len(lv[p]) : w[p][Len(w[p + 1]) + i] = lv[p][i]

\* A level stands behind the levels above it.
LEMMA ServedStep ==
  ASSUME NEW lv \in [Levels -> Seq(Task)], NEW p \in Levels
  PROVE  StepFacts(lv, p, Served(lv))
<1> DEFINE w == Served(lv)
           a == w[p + 1]
           b == lv[p]
           c == w[p]
<1>1. p \in Bounds /\ p + 1 \in Bounds
  BY CapacityAssumption DEF Bounds, Levels
<1>2. c = a \o b /\ a \in Seq(Task) /\ b \in Seq(Task) /\ c \in Seq(Task)
  BY <1>1, ServedDef DEF ServedEqs
<1>3. StepFacts(lv, p, w) <=>
        /\ c \in Seq(Task) /\ a \in Seq(Task) /\ b \in Seq(Task)
        /\ Len(c) \in Nat /\ Len(a) \in Nat /\ Len(b) \in Nat
        /\ Len(c) = Len(a) + Len(b)
        /\ \A k \in 1..Len(a) : c[k] = a[k]
        /\ \A i \in 1..Len(b) : c[Len(a) + i] = b[i]
  BY DEF StepFacts
<1> HIDE DEF w, a, b, c
<1>4. /\ Len(a) \in Nat /\ Len(b) \in Nat
      /\ Len(c) = Len(a) + Len(b)
      /\ \A i \in 1..(Len(a) + Len(b)) : c[i] = IF i <= Len(a) THEN a[i] ELSE b[i - Len(a)]
  BY <1>2, ConcatProperties, LenProperties
<1>5. ASSUME NEW k \in 1..Len(a) PROVE c[k] = a[k]
  BY <1>4
<1>6. ASSUME NEW i \in 1..Len(b) PROVE c[Len(a) + i] = b[i]
  <2>1. Len(a) + i \in 1..(Len(a) + Len(b)) /\ ~(Len(a) + i <= Len(a)) /\ (Len(a) + i) - Len(a) = i
    BY <1>4
  <2> QED BY <1>4, <2>1
<1> QED BY <1>2, <1>3, <1>4, <1>5, <1>6 DEF w

PrefixFacts(w, p) ==
  /\ w[p] \in Seq(Task) /\ Len(w[p]) \in Nat
  /\ Len(w[p]) <= Len(w[0])
  /\ \A k \in 1..Len(w[p]) : w[0][k] = w[p][k]

\* What the levels from the top down to p hold is the front of the line.
LEMMA Prefix ==
  ASSUME NEW lv \in [Levels -> Seq(Task)]
  PROVE  \A p \in Bounds : PrefixFacts(Served(lv), p)
<1> DEFINE w == Served(lv)
           P == {p \in Bounds : PrefixFacts(w, p)}
<1>1. 0 \in P
  <2>1. 0 \in Bounds
    BY CapacityAssumption DEF Bounds
  <2>2. w[0] \in Seq(Task)
    BY <2>1, ServedDef DEF ServedEqs
  <2> QED BY <2>1, <2>2, LenProperties DEF PrefixFacts
<1>2. ASSUME NEW p \in Levels, p \in P PROVE p + 1 \in P
  <2>1. p + 1 \in Bounds
    BY CapacityAssumption DEF Bounds, Levels
  <2>2. StepFacts(lv, p, w)
    BY ServedStep
  <2>3. PrefixFacts(w, p) /\ PrefixFacts(w, 0)
    BY <1>1, <1>2
  <2> HIDE DEF w
  <2>4. PrefixFacts(w, p + 1)
    BY <2>2, <2>3 DEF StepFacts, PrefixFacts
  <2> QED BY <2>1, <2>4
<1> HIDE DEF P
<1>3. \A p \in Bounds : p \in P
  BY <1>1, <1>2, Up
<1> QED BY <1>3 DEF P

\* Higher levels fill a shorter front.
LEMMA Shorter ==
  ASSUME NEW lv \in [Levels -> Seq(Task)], NEW p \in Bounds
  PROVE  \A q \in Bounds : p <= q => Len(Served(lv)[q]) <= Len(Served(lv)[p])
<1> DEFINE w == Served(lv)
           P == {q \in Bounds : p <= q => Len(w[q]) <= Len(w[p])}
<1>0. p \in Nat /\ Len(w[p]) \in Nat
  BY Prefix, CapacityAssumption DEF PrefixFacts, Bounds
<1>1. 0 \in P
  <2>1. 0 \in Bounds
    BY CapacityAssumption DEF Bounds
  <2>2. p <= 0 => p = 0
    BY <1>0
  <2> QED BY <1>0, <2>1, <2>2
<1>2. ASSUME NEW q \in Levels, q \in P PROVE q + 1 \in P
  <2>1. q + 1 \in Bounds /\ q \in Nat
    BY CapacityAssumption DEF Bounds, Levels
  <2>2. StepFacts(lv, q, w)
    BY ServedStep
  <2> HIDE DEF w
  <2>3. p <= q + 1 => p <= q \/ p = q + 1
    BY <1>0, <2>1
  <2>4. p <= q => Len(w[q + 1]) <= Len(w[p])
    BY <1>0, <1>2, <2>2 DEF StepFacts
  <2>5. p = q + 1 => Len(w[q + 1]) <= Len(w[p])
    BY <1>0
  <2> QED BY <2>1, <2>3, <2>4, <2>5
<1> HIDE DEF P
<1>3. \A q \in Bounds : q \in P
  BY <1>1, <1>2, Up
<1> QED BY <1>3 DEF P

\* The task at position i of level p stands in the line behind the higher levels.
LEMMA Place ==
  ASSUME NEW lv \in [Levels -> Seq(Task)], NEW p \in Levels, NEW i \in 1..Len(lv[p])
  PROVE  /\ Len(Served(lv)[p + 1]) + i \in 1..Len(Served(lv)[p])
         /\ Len(Served(lv)[p + 1]) + i \in 1..Len(Served(lv)[0])
         /\ Served(lv)[0][Len(Served(lv)[p + 1]) + i] = lv[p][i]
<1> DEFINE w == Served(lv)
<1>1. p \in Bounds /\ 0 \in Bounds
  BY CapacityAssumption DEF Bounds, Levels
<1>2. StepFacts(lv, p, w) /\ PrefixFacts(w, p) /\ PrefixFacts(w, 0)
  BY <1>1, ServedStep, Prefix
<1> HIDE DEF w
<1> DEFINE k == Len(w[p + 1]) + i
<1>3. k \in 1..Len(w[p]) /\ k \in 1..Len(w[0])
  BY <1>2 DEF StepFacts, PrefixFacts
<1>4. w[p][k] = lv[p][i]
  BY <1>2 DEF StepFacts
<1> HIDE DEF k
<1>5. w[0][k] = lv[p][i]
  BY <1>2, <1>3, <1>4 DEF PrefixFacts
<1> QED BY <1>3, <1>5 DEF k, w

From(lv, w, q, k) ==
  \E p \in Levels : p >= q /\ \E i \in 1..Len(lv[p]) : k = Len(w[p + 1]) + i

\* Every position of the line comes from one of a level.
LEMMA Origin ==
  ASSUME NEW lv \in [Levels -> Seq(Task)]
  PROVE  \A q \in Bounds : \A k \in 1..Len(Served(lv)[q]) : From(lv, Served(lv), q, k)
<1> DEFINE w == Served(lv)
           P == {q \in Bounds : \A k \in 1..Len(w[q]) : From(lv, w, q, k)}
<1>1. MaxPrio + 1 \in P
  <2>1. MaxPrio + 1 \in Bounds
    BY CapacityAssumption DEF Bounds
  <2>2. w[MaxPrio + 1] = <<>>
    BY ServedDef DEF ServedEqs
  <2> HIDE DEF w
  <2>3. Len(w[MaxPrio + 1]) = 0
    BY <2>2
  <2> QED BY <2>1, <2>3
<1>2. ASSUME NEW q \in Levels, q + 1 \in P PROVE q \in P
  <2>1. q \in Bounds /\ q \in Nat
    BY CapacityAssumption DEF Bounds, Levels
  <2>2. StepFacts(lv, q, w)
    BY ServedStep
  <2> HIDE DEF w
  <2>3. ASSUME NEW k \in 1..Len(w[q]) PROVE From(lv, w, q, k)
    <3>1. CASE k <= Len(w[q + 1])
      <4>1. k \in 1..Len(w[q + 1])
        BY <2>2, <3>1 DEF StepFacts
      <4>2. From(lv, w, q + 1, k)
        BY <1>2, <4>1
      <4>3. \A p \in Levels : p >= q + 1 => p >= q
        BY <2>1, CapacityAssumption DEF Levels
      <4> QED BY <4>2, <4>3 DEF From
    <3>2. CASE ~(k <= Len(w[q + 1]))
      <4> DEFINE i == k - Len(w[q + 1])
      <4>1. i \in 1..Len(lv[q]) /\ k = Len(w[q + 1]) + i
        BY <2>2, <3>2 DEF StepFacts
      <4>2. q >= q
        BY <2>1
      <4> HIDE DEF i
      <4> QED BY <4>1, <4>2 DEF From
    <3> QED BY <3>1, <3>2
  <2> QED BY <2>1, <2>3
<1> HIDE DEF P
<1>3. \A q \in Bounds : q \in P
  BY <1>1, <1>2, Down
<1> QED BY <1>3 DEF P

\* When Priority names the level of every task, those of level p or more are the front.
LEMMA Counted ==
  ASSUME NEW lv \in [Levels -> Seq(Task)], NEW pr \in [Task -> Int], NEW p \in Levels,
         \A q \in Levels : \A i \in 1..Len(lv[q]) : pr[lv[q][i]] = q
  PROVE  {k \in 1..Len(Served(lv)[0]) : pr[Served(lv)[0][k]] >= p} = 1..Len(Served(lv)[p])
<1> DEFINE w == Served(lv)
<1>1. p \in Bounds /\ 0 \in Bounds /\ p \in Nat
  BY CapacityAssumption DEF Bounds, Levels
<1>2. PrefixFacts(w, p) /\ PrefixFacts(w, 0)
  BY <1>1, Prefix
<1>3. ASSUME NEW k \in 1..Len(w[0])
      PROVE  pr[w[0][k]] >= p <=> k \in 1..Len(w[p])
  <2>1. From(lv, w, 0, k)
    BY <1>1, Origin
  <2>2. PICK q \in Levels : \E i \in 1..Len(lv[q]) : k = Len(w[q + 1]) + i
    BY <2>1 DEF From
  <2>3. PICK i \in 1..Len(lv[q]) : k = Len(w[q + 1]) + i
    BY <2>2
  <2>4. w[0][k] = lv[q][i] /\ k \in 1..Len(w[q])
    BY <2>3, Place
  <2>5. pr[w[0][k]] = q
    BY <2>4
  <2>6. q \in Nat /\ q \in Bounds /\ q + 1 \in Bounds
    BY CapacityAssumption DEF Bounds, Levels
  <2>7. q >= p => Len(w[q]) <= Len(w[p])
    BY <1>1, <2>6, Shorter
  <2>8. q < p => Len(w[p]) <= Len(w[q + 1])
    <3>1. q < p => q + 1 <= p
      BY <1>1, <2>6
    <3> QED BY <1>1, <2>6, <3>1, Shorter
  <2>9. Len(w[q]) \in Nat /\ Len(w[q + 1]) \in Nat /\ i \in Nat /\ i >= 1
    BY <2>6, Prefix DEF PrefixFacts
  <2>10. Len(w[p]) \in Nat
    BY <1>2 DEF PrefixFacts
  <2> HIDE DEF w
  <2>11. CASE q >= p
    BY <2>4, <2>5, <2>7, <2>9, <2>10, <2>11
  <2>12. CASE q < p
    BY <1>1, <2>3, <2>5, <2>6, <2>8, <2>9, <2>10, <2>12
  <2> QED BY <1>1, <2>6, <2>11, <2>12
<1>4. 1..Len(w[p]) \subseteq 1..Len(w[0])
  <2> HIDE DEF w
  <2> QED BY <1>2 DEF PrefixFacts
<1> HIDE DEF w
<1>5. {k \in 1..Len(w[0]) : pr[w[0][k]] >= p} = 1..Len(w[p])
  BY <1>3, <1>4
<1> QED BY <1>5 DEF w

-----------------------------------------------------------------------------
(***************************************************************************)
(* The same change seen on a level and on the line.                        *)
(***************************************************************************)

JoinFacts(a, b, c) ==
  /\ c \in Seq(Task) /\ Len(a) \in Nat /\ Len(b) \in Nat
  /\ Len(c) = Len(a) + Len(b)
  /\ \A k \in 1..Len(a) : c[k] = a[k]
  /\ \A k \in (Len(a) + 1)..(Len(a) + Len(b)) : c[k] = b[k - Len(a)]

\* Concatenation, position by position.
LEMMA JoinIs ==
  ASSUME NEW a \in Seq(Task), NEW b \in Seq(Task)
  PROVE  JoinFacts(a, b, a \o b)
<1> DEFINE c == a \o b
<1>1. /\ c \in Seq(Task) /\ Len(a) \in Nat /\ Len(b) \in Nat
      /\ Len(c) = Len(a) + Len(b)
      /\ \A i \in 1..(Len(a) + Len(b)) : c[i] = IF i <= Len(a) THEN a[i] ELSE b[i - Len(a)]
  BY ConcatProperties, LenProperties
<1> HIDE DEF c
<1>2. JoinFacts(a, b, c)
  BY <1>1 DEF JoinFacts
<1> QED BY <1>2 DEF c

\* Appending to the last part is inserting at the end.
LEMMA InsertLast ==
  ASSUME NEW a \in Seq(Task), NEW b \in Seq(Task), NEW t \in Task
  PROVE  a \o Append(b, t) = Insert(a \o b, Len(a \o b), t)
<1> DEFINE c == a \o b
           d == Append(b, t)
           e == a \o d
           f == Insert(c, Len(c), t)
<1>1. d \in Seq(Task) /\ Len(d) = Len(b) + 1 /\ d[Len(b) + 1] = t
      /\ \A k \in 1..Len(b) : d[k] = b[k]
  OBVIOUS
<1> HIDE DEF d
<1>2. JoinFacts(a, b, c) /\ JoinFacts(a, d, e)
  BY <1>1, JoinIs
<1> HIDE DEF c, e
<1>3. Len(c) \in 0..Len(c) /\ c \in Seq(Task)
  BY <1>2 DEF JoinFacts
<1>4. InsertFacts(c, Len(c), t)
  BY <1>3, InsertIs
<1>5. f \in Seq(Task) /\ Len(f) = Len(c) + 1 /\ f[Len(c) + 1] = t
      /\ \A j \in 1..Len(c) : f[j] = c[j]
  BY <1>4 DEF InsertFacts
<1> HIDE DEF f
<1>6. Len(e) = Len(f) /\ Len(e) \in Nat /\ e \in Seq(Task)
  BY <1>1, <1>2, <1>5 DEF JoinFacts
<1>7. ASSUME NEW k \in 1..Len(e) PROVE e[k] = f[k]
  <2>1. CASE k <= Len(a)
    BY <1>1, <1>2, <1>5, <2>1 DEF JoinFacts
  <2>2. CASE k > Len(a) /\ k <= Len(c)
    <3>1. k \in (Len(a) + 1)..(Len(a) + Len(b)) /\ k \in (Len(a) + 1)..(Len(a) + Len(d))
          /\ k - Len(a) \in 1..Len(b) /\ k \in 1..Len(c)
      BY <1>1, <1>2, <2>2 DEF JoinFacts
    <3> QED BY <1>1, <1>2, <1>5, <3>1 DEF JoinFacts
  <2>3. CASE k = Len(c) + 1
    <3>1. k \in (Len(a) + 1)..(Len(a) + Len(d)) /\ k - Len(a) = Len(b) + 1
      BY <1>1, <1>2, <2>3 DEF JoinFacts
    <3> QED BY <1>1, <1>2, <1>5, <2>3, <3>1 DEF JoinFacts
  <2> QED BY <1>2, <1>5, <1>6, <2>1, <2>2, <2>3 DEF JoinFacts
<1>8. e = f
  BY <1>5, <1>6, <1>7, SeqEqual
<1> QED BY <1>8 DEF c, d, e, f

\* Inserting in the first part is inserting in the whole.
LEMMA InsertFirst ==
  ASSUME NEW a \in Seq(Task), NEW b \in Seq(Task), NEW n \in 0..Len(a), NEW t \in Task
  PROVE  Insert(a, n, t) \o b = Insert(a \o b, n, t)
<1> DEFINE c == a \o b
           d == Insert(a, n, t)
           e == d \o b
           f == Insert(c, n, t)
<1>1. InsertFacts(a, n, t)
  BY InsertIs
<1>2. d \in Seq(Task) /\ Len(d) = Len(a) + 1 /\ d[n + 1] = t
      /\ (\A j \in 1..n : d[j] = a[j]) /\ \A j \in (n + 2)..(Len(a) + 1) : d[j] = a[j - 1]
  BY <1>1 DEF InsertFacts
<1> HIDE DEF d
<1>3. JoinFacts(a, b, c) /\ JoinFacts(d, b, e)
  BY <1>2, JoinIs
<1> HIDE DEF c, e
<1>4. n \in 0..Len(c) /\ c \in Seq(Task) /\ n \in Nat /\ n <= Len(a)
  BY <1>3 DEF JoinFacts
<1>5. InsertFacts(c, n, t)
  BY <1>4, InsertIs
<1>6. f \in Seq(Task) /\ Len(f) = Len(c) + 1 /\ f[n + 1] = t
      /\ (\A j \in 1..n : f[j] = c[j]) /\ \A j \in (n + 2)..(Len(c) + 1) : f[j] = c[j - 1]
  BY <1>5 DEF InsertFacts
<1> HIDE DEF f
<1>7. Len(e) = Len(f) /\ Len(e) \in Nat /\ e \in Seq(Task) /\ Len(e) = Len(a) + Len(b) + 1
  BY <1>2, <1>3, <1>6 DEF JoinFacts
<1>8. ASSUME NEW k \in 1..Len(e) PROVE e[k] = f[k]
  <2>0. k \in Nat /\ Len(a) \in Nat /\ Len(b) \in Nat /\ Len(c) = Len(a) + Len(b)
    BY <1>3, <1>7 DEF JoinFacts
  <2>1. CASE k <= n
    <3>1. k \in 1..Len(d) /\ k \in 1..n /\ k \in 1..Len(a)
      BY <1>2, <1>4, <2>0, <2>1
    <3> QED BY <1>2, <1>3, <1>6, <3>1 DEF JoinFacts
  <2>2. CASE k = n + 1
    <3>1. k \in 1..Len(d)
      BY <1>2, <1>4, <2>0, <2>2
    <3> QED BY <1>2, <1>3, <1>6, <2>2, <3>1 DEF JoinFacts
  <2>3. CASE k > n + 1 /\ k <= Len(a) + 1
    <3>1. k \in 1..Len(d) /\ k \in (n + 2)..(Len(a) + 1) /\ k \in (n + 2)..(Len(c) + 1)
          /\ k - 1 \in 1..Len(a)
      BY <1>2, <1>4, <2>0, <2>3
    <3> QED BY <1>2, <1>3, <1>6, <3>1 DEF JoinFacts
  <2>4. CASE k > Len(a) + 1
    <3>1. k \in (Len(d) + 1)..(Len(d) + Len(b)) /\ k \in (n + 2)..(Len(c) + 1)
          /\ k - 1 \in (Len(a) + 1)..(Len(a) + Len(b)) /\ (k - 1) - Len(a) = k - Len(d)
      BY <1>2, <1>4, <1>7, <2>0, <2>4
    <3> QED BY <1>3, <1>6, <3>1 DEF JoinFacts
  <2> QED BY <1>4, <2>0, <2>1, <2>2, <2>3, <2>4
<1>9. e = f
  BY <1>6, <1>7, <1>8, SeqEqual
<1> QED BY <1>9 DEF c, d, e, f

\* Removing from the last part is removing from the whole.
LEMMA RemoveLast ==
  ASSUME NEW a \in Seq(Task), NEW b \in Seq(Task), NEW n \in 1..Len(b)
  PROVE  a \o RemoveIndex(b, n) = RemoveIndex(a \o b, Len(a) + n)
<1> DEFINE c == a \o b
           d == RemoveIndex(b, n)
           e == a \o d
           m == Len(a) + n
           f == RemoveIndex(c, m)
<1>1. RemoveFacts(b, n)
  BY RemoveIs
<1>2. d \in Seq(Task) /\ Len(d) = Len(b) - 1
      /\ (\A j \in 1..(n - 1) : d[j] = b[j]) /\ \A j \in n..(Len(b) - 1) : d[j] = b[j + 1]
  BY <1>1 DEF RemoveFacts
<1> HIDE DEF d
<1>3. JoinFacts(a, b, c) /\ JoinFacts(a, d, e)
  BY <1>2, JoinIs
<1> HIDE DEF c, e
<1>4. /\ Len(a) \in Nat /\ Len(b) \in Nat /\ Len(c) = Len(a) + Len(b) /\ c \in Seq(Task)
      /\ n \in Nat /\ 1 <= n /\ n <= Len(b) /\ m \in 1..Len(c)
  BY <1>3 DEF JoinFacts
<1>m. m = Len(a) + n
  OBVIOUS
<1> HIDE DEF m
<1>5. RemoveFacts(c, m)
  BY <1>4, RemoveIs
<1>6. f \in Seq(Task) /\ Len(f) = Len(c) - 1
      /\ (\A j \in 1..(m - 1) : f[j] = c[j]) /\ \A j \in m..(Len(c) - 1) : f[j] = c[j + 1]
  BY <1>5 DEF RemoveFacts
<1> HIDE DEF f
<1>7. Len(e) = Len(f) /\ Len(e) \in Nat /\ e \in Seq(Task) /\ Len(e) = Len(a) + Len(b) - 1
  BY <1>2, <1>3, <1>4, <1>6 DEF JoinFacts
<1>8. ASSUME NEW k \in 1..Len(e) PROVE e[k] = f[k]
  <2>1. CASE k <= Len(a)
    <3>1. k \in 1..Len(a) /\ k \in 1..(m - 1)
      BY <1>4, <1>m, <2>1
    <3> QED BY <1>3, <1>6, <3>1 DEF JoinFacts
  <2>2. CASE k > Len(a) /\ k < m
    <3>1. k \in (Len(a) + 1)..(Len(a) + Len(d)) /\ k \in 1..(m - 1) /\ k - Len(a) \in 1..(n - 1)
          /\ k \in (Len(a) + 1)..(Len(a) + Len(b))
      BY <1>2, <1>4, <1>m, <2>2
    <3> QED BY <1>2, <1>3, <1>6, <3>1 DEF JoinFacts
  <2>3. CASE k >= m
    <3>1. k \in (Len(a) + 1)..(Len(a) + Len(d)) /\ k \in m..(Len(c) - 1)
          /\ k - Len(a) \in n..(Len(b) - 1) /\ (k - Len(a)) + 1 = (k + 1) - Len(a)
          /\ k + 1 \in (Len(a) + 1)..(Len(a) + Len(b))
      BY <1>2, <1>4, <1>7, <1>m, <2>3
    <3>2. e[k] = d[k - Len(a)]
      BY <1>3, <3>1 DEF JoinFacts
    <3>3. d[k - Len(a)] = b[(k - Len(a)) + 1]
      BY <1>2, <3>1
    <3>4. f[k] = c[k + 1]
      BY <1>6, <3>1
    <3>5. c[k + 1] = b[(k + 1) - Len(a)]
      BY <1>3, <3>1 DEF JoinFacts
    <3> QED BY <3>1, <3>2, <3>3, <3>4, <3>5
  <2> QED BY <1>4, <1>7, <1>m, <2>1, <2>2, <2>3
<1>9. e = f
  BY <1>6, <1>7, <1>8, SeqEqual
<1> QED BY <1>9 DEF c, d, e, f, m

\* Removing from the first part is removing from the whole.
LEMMA RemoveFirst ==
  ASSUME NEW a \in Seq(Task), NEW b \in Seq(Task), NEW n \in 1..Len(a)
  PROVE  RemoveIndex(a, n) \o b = RemoveIndex(a \o b, n)
<1> DEFINE c == a \o b
           d == RemoveIndex(a, n)
           e == d \o b
           f == RemoveIndex(c, n)
<1>1. RemoveFacts(a, n)
  BY RemoveIs
<1>2. d \in Seq(Task) /\ Len(d) = Len(a) - 1
      /\ (\A j \in 1..(n - 1) : d[j] = a[j]) /\ \A j \in n..(Len(a) - 1) : d[j] = a[j + 1]
  BY <1>1 DEF RemoveFacts
<1> HIDE DEF d
<1>3. JoinFacts(a, b, c) /\ JoinFacts(d, b, e)
  BY <1>2, JoinIs
<1> HIDE DEF c, e
<1>4. /\ Len(a) \in Nat /\ Len(b) \in Nat /\ Len(c) = Len(a) + Len(b) /\ c \in Seq(Task)
      /\ n \in Nat /\ 1 <= n /\ n <= Len(a) /\ n \in 1..Len(c)
  BY <1>3 DEF JoinFacts
<1>5. RemoveFacts(c, n)
  BY <1>4, RemoveIs
<1>6. f \in Seq(Task) /\ Len(f) = Len(c) - 1
      /\ (\A j \in 1..(n - 1) : f[j] = c[j]) /\ \A j \in n..(Len(c) - 1) : f[j] = c[j + 1]
  BY <1>5 DEF RemoveFacts
<1> HIDE DEF f
<1>7. Len(e) = Len(f) /\ Len(e) \in Nat /\ e \in Seq(Task) /\ Len(e) = Len(a) + Len(b) - 1
  BY <1>2, <1>3, <1>4, <1>6 DEF JoinFacts
<1>8. ASSUME NEW k \in 1..Len(e) PROVE e[k] = f[k]
  <2>1. CASE k < n
    <3>1. k \in 1..Len(d) /\ k \in 1..(n - 1) /\ k \in 1..Len(a)
      BY <1>2, <1>4, <2>1
    <3> QED BY <1>2, <1>3, <1>6, <3>1 DEF JoinFacts
  <2>2. CASE k >= n /\ k < Len(a)
    <3>1. k \in 1..Len(d) /\ k \in n..(Len(a) - 1) /\ k + 1 \in 1..Len(a) /\ k \in n..(Len(c) - 1)
      BY <1>2, <1>4, <2>2
    <3> QED BY <1>2, <1>3, <1>6, <3>1 DEF JoinFacts
  <2>3. CASE k >= Len(a)
    <3>1. k \in (Len(d) + 1)..(Len(d) + Len(b)) /\ k \in n..(Len(c) - 1)
          /\ k + 1 \in (Len(a) + 1)..(Len(a) + Len(b)) /\ (k + 1) - Len(a) = k - Len(d)
      BY <1>2, <1>4, <1>7, <2>3
    <3> QED BY <1>3, <1>6, <3>1 DEF JoinFacts
  <2> QED BY <1>4, <1>7, <2>1, <2>2, <2>3
<1>9. e = f
  BY <1>6, <1>7, <1>8, SeqEqual
<1> QED BY <1>9 DEF c, d, e, f

\* A task appended to level p stands in the line behind all of level p or more.
LEMMA LevelInsert ==
  ASSUME NEW lv \in [Levels -> Seq(Task)], NEW p \in Levels, NEW t \in Task
  PROVE  /\ [lv EXCEPT ![p] = Append(@, t)] \in [Levels -> Seq(Task)]
         /\ Served([lv EXCEPT ![p] = Append(@, t)])[0]
              = Insert(Served(lv)[0], Len(Served(lv)[p]), t)
<1> DEFINE lv2 == [lv EXCEPT ![p] = Append(@, t)]
           w == Served(lv)
           v == Served(lv2)
           n == Len(w[p])
           P == {q \in Bounds : v[q] = IF q > p THEN w[q] ELSE Insert(w[q], n, t)}
<1>1. lv2 \in [Levels -> Seq(Task)]
  OBVIOUS
<1>2. lv2[p] = Append(lv[p], t) /\ \A q \in Levels : q # p => lv2[q] = lv[q]
  OBVIOUS
<1> HIDE DEF lv2
<1>3. ServedEqs(lv, w) /\ ServedEqs(lv2, v)
  BY <1>1, ServedDef
<1>4. p \in Bounds /\ p \in Nat /\ p < MaxPrio + 1
  BY CapacityAssumption DEF Bounds, Levels
<1>5. \A q \in Bounds : q <= p => n \in 0..Len(w[q])
  <2> SUFFICES ASSUME NEW q \in Bounds, q <= p PROVE n \in 0..Len(w[q])
    OBVIOUS
  <2>1. Len(w[p]) <= Len(w[q])
    BY <1>4, Shorter
  <2>2. PrefixFacts(w, p) /\ PrefixFacts(w, q)
    BY <1>4, Prefix
  <2> QED BY <2>1, <2>2 DEF PrefixFacts
<1> HIDE DEF w, v
<1>6. MaxPrio + 1 \in P
  <2>1. MaxPrio + 1 \in Bounds
    BY CapacityAssumption DEF Bounds
  <2> QED BY <1>3, <1>4, <2>1 DEF ServedEqs
<1>7. ASSUME NEW q \in Levels, q + 1 \in P PROVE q \in P
  <2>1. q \in Bounds /\ q + 1 \in Bounds /\ q \in Nat
    BY CapacityAssumption DEF Bounds, Levels
  <2>2. v[q + 1] = IF q + 1 > p THEN w[q + 1] ELSE Insert(w[q + 1], n, t)
    BY <1>7
  <2>3. w[q] = w[q + 1] \o lv[q] /\ v[q] = v[q + 1] \o lv2[q] /\ w[q + 1] \in Seq(Task)
    BY <1>3, <2>1 DEF ServedEqs
  <2>4. CASE q > p
    <3>1. q + 1 > p /\ q # p
      BY <1>4, <2>1, <2>4
    <3>2. v[q + 1] = w[q + 1] /\ lv2[q] = lv[q]
      BY <1>2, <2>2, <3>1
    <3>3. v[q] = w[q]
      BY ONLY <2>3, <3>2
    <3> QED BY <2>1, <2>4, <3>3
  <2>5. CASE q = p
    <3>a. q + 1 > p
      BY <1>4, <2>5
    <3>b. v[q + 1] = w[q + 1] /\ lv2[q] = Append(lv[q], t)
      BY <1>2, <2>2, <2>5, <3>a
    <3>1. v[q] = w[q + 1] \o Append(lv[q], t)
      BY ONLY <2>3, <3>b
    <3>2. w[q + 1] \o Append(lv[q], t) = Insert(w[q], Len(w[q]), t)
      BY <2>3, InsertLast
    <3> QED BY <1>4, <2>1, <2>5, <3>1, <3>2
  <2>6. CASE q < p
    <3>1. q + 1 <= p /\ q # p
      BY <1>4, <2>1, <2>6
    <3>a. ~(q + 1 > p)
      BY <1>4, <2>1, <3>1
    <3>b. v[q + 1] = Insert(w[q + 1], n, t) /\ lv2[q] = lv[q]
      BY <1>2, <2>2, <3>1, <3>a
    <3>2. v[q] = Insert(w[q + 1], n, t) \o lv[q]
      BY ONLY <2>3, <3>b
    <3>3. n \in 0..Len(w[q + 1])
      BY <1>5, <2>1, <3>1
    <3> HIDE DEF n
    <3>4. Insert(w[q + 1], n, t) \o lv[q] = Insert(w[q], n, t)
      BY <2>3, <3>3, InsertFirst
    <3> QED BY <1>4, <2>1, <2>6, <3>2, <3>4
  <2> QED BY <1>4, <2>1, <2>4, <2>5, <2>6
<1> HIDE DEF P
<1>8. 0 \in P
  <2>1. 0 \in Bounds
    BY CapacityAssumption DEF Bounds
  <2> QED BY <1>6, <1>7, <2>1, Down
<1>9. v[0] = Insert(w[0], n, t)
  BY <1>4, <1>8 DEF P
<1> QED BY <1>1, <1>9 DEF lv2, w, v, n

\* A task removed from level p leaves the line at its place.
LEMMA LevelRemove ==
  ASSUME NEW lv \in [Levels -> Seq(Task)], NEW p \in Levels, NEW i \in 1..Len(lv[p])
  PROVE  /\ [lv EXCEPT ![p] = RemoveIndex(@, i)] \in [Levels -> Seq(Task)]
         /\ Served([lv EXCEPT ![p] = RemoveIndex(@, i)])[0]
              = RemoveIndex(Served(lv)[0], Len(Served(lv)[p + 1]) + i)
<1> DEFINE lv2 == [lv EXCEPT ![p] = RemoveIndex(@, i)]
           w == Served(lv)
           v == Served(lv2)
           n == Len(w[p + 1]) + i
           P == {q \in Bounds : v[q] = IF q > p THEN w[q] ELSE RemoveIndex(w[q], n)}
<1>0. RemoveFacts(lv[p], i)
  BY RemoveIs
<1>1. lv2 \in [Levels -> Seq(Task)]
  BY <1>0 DEF RemoveFacts
<1>2. lv2[p] = RemoveIndex(lv[p], i) /\ \A q \in Levels : q # p => lv2[q] = lv[q]
  OBVIOUS
<1> HIDE DEF lv2
<1>3. ServedEqs(lv, w) /\ ServedEqs(lv2, v)
  BY <1>1, ServedDef
<1>4. p \in Bounds /\ p \in Nat /\ p < MaxPrio + 1
  BY CapacityAssumption DEF Bounds, Levels
<1>5. \A q \in Bounds : q <= p => n \in 1..Len(w[q])
  <2> SUFFICES ASSUME NEW q \in Bounds, q <= p PROVE n \in 1..Len(w[q])
    OBVIOUS
  <2>1. Len(w[p]) <= Len(w[q])
    BY <1>4, Shorter
  <2>2. PrefixFacts(w, p) /\ PrefixFacts(w, q)
    BY <1>4, Prefix
  <2>3. n \in 1..Len(w[p])
    BY Place
  <2> QED BY <2>1, <2>2, <2>3 DEF PrefixFacts
<1> HIDE DEF w, v
<1>6. MaxPrio + 1 \in P
  <2>1. MaxPrio + 1 \in Bounds
    BY CapacityAssumption DEF Bounds
  <2> QED BY <1>3, <1>4, <2>1 DEF ServedEqs
<1>7. ASSUME NEW q \in Levels, q + 1 \in P PROVE q \in P
  <2>1. q \in Bounds /\ q + 1 \in Bounds /\ q \in Nat
    BY CapacityAssumption DEF Bounds, Levels
  <2>2. v[q + 1] = IF q + 1 > p THEN w[q + 1] ELSE RemoveIndex(w[q + 1], n)
    BY <1>7
  <2>3. w[q] = w[q + 1] \o lv[q] /\ v[q] = v[q + 1] \o lv2[q] /\ w[q + 1] \in Seq(Task)
    BY <1>3, <2>1 DEF ServedEqs
  <2>4. CASE q > p
    <3>1. q + 1 > p /\ q # p
      BY <1>4, <2>1, <2>4
    <3>2. v[q + 1] = w[q + 1] /\ lv2[q] = lv[q]
      BY <1>2, <2>2, <3>1
    <3>3. v[q] = w[q]
      BY ONLY <2>3, <3>2
    <3> QED BY <2>1, <2>4, <3>3
  <2>5. CASE q = p
    <3>a. q + 1 > p
      BY <1>4, <2>5
    <3>b. v[q + 1] = w[q + 1] /\ lv2[q] = RemoveIndex(lv[q], i)
      BY <1>2, <2>2, <2>5, <3>a
    <3>1. v[q] = w[q + 1] \o RemoveIndex(lv[q], i)
      BY ONLY <2>3, <3>b
    <3>2. w[q + 1] \o RemoveIndex(lv[q], i) = RemoveIndex(w[q], Len(w[q + 1]) + i)
      <4>1. w[q + 1] \in Seq(Task) /\ lv[q] \in Seq(Task) /\ i \in 1..Len(lv[q])
        BY <2>3, <2>5
      <4>2. w[q + 1] \o RemoveIndex(lv[q], i) = RemoveIndex(w[q + 1] \o lv[q], Len(w[q + 1]) + i)
        BY <4>1, RemoveLast
      <4> QED BY ONLY <2>3, <4>2
    <3> QED BY <1>4, <2>1, <2>5, <3>1, <3>2
  <2>6. CASE q < p
    <3>1. q + 1 <= p /\ q # p
      BY <1>4, <2>1, <2>6
    <3>a. ~(q + 1 > p)
      BY <1>4, <2>1, <3>1
    <3>b. v[q + 1] = RemoveIndex(w[q + 1], n) /\ lv2[q] = lv[q]
      BY <1>2, <2>2, <3>1, <3>a
    <3>2. v[q] = RemoveIndex(w[q + 1], n) \o lv[q]
      BY ONLY <2>3, <3>b
    <3>3. n \in 1..Len(w[q + 1])
      BY <1>5, <2>1, <3>1
    <3> HIDE DEF n
    <3>4. RemoveIndex(w[q + 1], n) \o lv[q] = RemoveIndex(w[q], n)
      BY <2>3, <3>3, RemoveFirst
    <3> QED BY <1>4, <2>1, <2>6, <3>2, <3>4
  <2> QED BY <1>4, <2>1, <2>4, <2>5, <2>6
<1> HIDE DEF P
<1>8. 0 \in P
  <2>1. 0 \in Bounds
    BY CapacityAssumption DEF Bounds
  <2> QED BY <1>6, <1>7, <2>1, Down
<1>9. v[0] = RemoveIndex(w[0], n)
  BY <1>4, <1>8 DEF P
<1> QED BY <1>1, <1>9 DEF lv2, w, v, n

TookFacts(a, b, n) ==
  /\ n - Took(a, n) \in Nat
  /\ Took(a \o b, n) = Took(a, n) + Took(b, n - Took(a, n))
  /\ Took(a, n) < Len(a) => Took(b, n - Took(a, n)) = 0

\* The second part of a sequence gives up what the first leaves room for.
LEMMA TookJoin ==
  ASSUME NEW a \in Seq(Task), NEW b \in Seq(Task), NEW n \in Nat
  PROVE  TookFacts(a, b, n)
<1> DEFINE c == a \o b
<1>1. JoinFacts(a, b, c)
  BY JoinIs
<1> HIDE DEF c
<1> DEFINE i == Took(a, n)
           j == Took(b, n - i)
<1>2. Len(a) \in Nat /\ Len(b) \in Nat /\ Len(c) = Len(a) + Len(b)
  BY <1>1 DEF JoinFacts
<1>3. i = IF Len(a) > n THEN n ELSE Len(a)
  BY DEF Took
<1>4. j = IF Len(b) > n - i THEN n - i ELSE Len(b)
  BY DEF Took
<1>5. Took(c, n) = IF Len(c) > n THEN n ELSE Len(c)
  BY DEF Took
<1> HIDE DEF i, j
<1>6. n - i \in Nat /\ (i < Len(a) => n - i = 0)
  BY <1>2, <1>3
<1>7. i < Len(a) => j = 0
  BY <1>2, <1>4, <1>6
<1>8. Took(c, n) = i + j
  <2>1. CASE Len(a) > n
    BY <1>2, <1>3, <1>4, <1>5, <2>1
  <2>2. CASE ~(Len(a) > n)
    BY <1>2, <1>3, <1>4, <1>5, <2>2
  <2> QED BY <2>1, <2>2
<1> QED BY <1>6, <1>7, <1>8 DEF c, i, j, TookFacts

\* A batch takes the front of the first part, then what room is left for of the second.
LEMMA CutJoin ==
  ASSUME NEW a \in Seq(Task), NEW b \in Seq(Task), NEW n \in Nat
  PROVE  Cut(a \o b, n) = Cut(a, n) \o Cut(b, n - Took(a, n))
<1> DEFINE c == a \o b
           i == Took(a, n)
           m == n - i
           j == Took(b, m)
           x == Cut(a, n)
           y == Cut(b, m)
           d == x \o y
           e == Cut(c, n)
<1>1. JoinFacts(a, b, c)
  BY JoinIs
<1>2. TookFacts(a, b, n)
  BY TookJoin
<1>3. m \in Nat /\ Took(c, n) = i + j /\ (i < Len(a) => j = 0)
  BY <1>2 DEF TookFacts
<1> HIDE DEF c, m
<1>4. CutFacts(a, n)
  BY CutIs
<1>5. CutFacts(b, m)
  BY <1>3, CutIs
<1>6. CutFacts(c, n)
  BY <1>1, CutIs DEF JoinFacts
<1>7. x \in Seq(Task) /\ Len(x) = i /\ i \in 0..Len(a) /\ \A k \in 1..i : x[k] = a[k]
  BY <1>4 DEF CutFacts
<1>8. y \in Seq(Task) /\ Len(y) = j /\ j \in 0..Len(b) /\ \A k \in 1..j : y[k] = b[k]
  BY <1>5 DEF CutFacts
<1>9. e \in Seq(Task) /\ Len(e) = i + j /\ \A k \in 1..(i + j) : e[k] = c[k]
  BY <1>3, <1>6 DEF CutFacts
<1> HIDE DEF x, y, e, i, j
<1>10. JoinFacts(x, y, d)
  BY <1>7, <1>8, JoinIs
<1> HIDE DEF d
<1>11. d \in Seq(Task) /\ Len(d) = Len(e) /\ Len(e) = i + j /\ i \in Nat /\ j \in Nat
       /\ Len(a) \in Nat /\ Len(b) \in Nat
  BY <1>1, <1>7, <1>8, <1>9, <1>10 DEF JoinFacts
<1>12. ASSUME NEW k \in 1..Len(d) PROVE d[k] = e[k]
  <2>1. k \in 1..(i + j) /\ e[k] = c[k]
    BY <1>9, <1>11
  <2>2. CASE k <= i
    <3>1. k \in 1..i /\ k \in 1..Len(a) /\ k \in 1..Len(x)
      BY <1>7, <1>11, <2>1, <2>2
    <3> QED BY <1>1, <1>7, <1>10, <2>1, <3>1 DEF JoinFacts
  <2>3. CASE k > i
    <3>1. i = Len(a)
      BY <1>3, <1>7, <1>11, <2>1, <2>3
    <3>2. k \in (Len(a) + 1)..(Len(a) + Len(b)) /\ k \in (Len(x) + 1)..(Len(x) + Len(y))
          /\ k - Len(a) \in 1..j /\ Len(x) = Len(a)
      BY <1>7, <1>8, <1>11, <2>1, <2>3, <3>1
    <3>3. d[k] = y[k - Len(x)]
      BY <1>10, <3>2 DEF JoinFacts
    <3>4. c[k] = b[k - Len(a)]
      BY <1>1, <3>2 DEF JoinFacts
    <3> QED BY <1>8, <2>1, <3>2, <3>3, <3>4
  <2> QED BY <1>11, <2>1, <2>2, <2>3
<1>13. d = e
  BY <1>9, <1>11, <1>12, SeqEqual
<1> QED BY <1>13 DEF c, d, e, x, y, m, i

\* What a batch leaves of a sequence is what it leaves of its parts.
LEMMA RestJoin ==
  ASSUME NEW a \in Seq(Task), NEW b \in Seq(Task), NEW n \in Nat
  PROVE  Rest(a \o b, n) = Rest(a, n) \o Rest(b, n - Took(a, n))
<1> DEFINE c == a \o b
           i == Took(a, n)
           m == n - i
           j == Took(b, m)
           x == Rest(a, n)
           y == Rest(b, m)
           d == x \o y
           e == Rest(c, n)
<1>1. JoinFacts(a, b, c)
  BY JoinIs
<1>2. TookFacts(a, b, n)
  BY TookJoin
<1>3. m \in Nat /\ Took(c, n) = i + j /\ (i < Len(a) => j = 0)
  BY <1>2 DEF TookFacts
<1> HIDE DEF c, m
<1>4. CutFacts(a, n)
  BY CutIs
<1>5. CutFacts(b, m)
  BY <1>3, CutIs
<1>6. CutFacts(c, n)
  BY <1>1, CutIs DEF JoinFacts
<1>7. /\ x \in Seq(Task) /\ Len(x) = Len(a) - i /\ i \in 0..Len(a)
      /\ \A k \in 1..(Len(a) - i) : x[k] = a[i + k]
  BY <1>4 DEF CutFacts
<1>8. /\ y \in Seq(Task) /\ Len(y) = Len(b) - j /\ j \in 0..Len(b)
      /\ \A k \in 1..(Len(b) - j) : y[k] = b[j + k]
  BY <1>5 DEF CutFacts
<1>9. /\ e \in Seq(Task) /\ Len(e) = Len(c) - (i + j)
      /\ \A k \in 1..(Len(c) - (i + j)) : e[k] = c[(i + j) + k]
  BY <1>3, <1>6 DEF CutFacts
<1> HIDE DEF x, y, e, i, j
<1>10. JoinFacts(x, y, d)
  BY <1>7, <1>8, JoinIs
<1> HIDE DEF d
<1>11. /\ d \in Seq(Task) /\ i \in Nat /\ j \in Nat /\ Len(a) \in Nat /\ Len(b) \in Nat
       /\ Len(c) = Len(a) + Len(b) /\ i <= Len(a) /\ j <= Len(b)
  BY <1>1, <1>7, <1>8, <1>10 DEF JoinFacts
<1>12. Len(d) = Len(e) /\ Len(d) = (Len(a) - i) + (Len(b) - j)
  BY <1>7, <1>8, <1>9, <1>10, <1>11 DEF JoinFacts
<1>13. ASSUME NEW k \in 1..Len(d) PROVE d[k] = e[k]
  <2>1. k \in 1..(Len(c) - (i + j)) /\ k \in Nat
    BY <1>11, <1>12
  <2>2. e[k] = c[(i + j) + k]
    BY <1>9, <2>1
  <2>3. CASE k <= Len(a) - i
    <3>1. j = 0
      BY <1>3, <1>11, <2>1, <2>3
    <3>2. k \in 1..(Len(a) - i) /\ k \in 1..Len(x) /\ i + k \in 1..Len(a) /\ (i + j) + k = i + k
      BY <1>7, <1>11, <2>1, <2>3, <3>1
    <3>3. d[k] = x[k]
      BY <1>10, <3>2 DEF JoinFacts
    <3>4. c[i + k] = a[i + k]
      BY <1>1, <3>2 DEF JoinFacts
    <3> QED BY <1>7, <2>2, <3>2, <3>3, <3>4
  <2>4. CASE k > Len(a) - i
    <3> DEFINE l == k - Len(x)
    <3>1. k \in (Len(x) + 1)..(Len(x) + Len(y)) /\ l \in 1..(Len(b) - j)
      BY <1>7, <1>8, <1>11, <1>12, <2>1, <2>4
    <3>2. (i + j) + k \in (Len(a) + 1)..(Len(a) + Len(b)) /\ ((i + j) + k) - Len(a) = j + l
      BY <1>7, <1>11, <2>1, <2>4
    <3>3. d[k] = y[l]
      BY <1>10, <3>1 DEF JoinFacts
    <3> HIDE DEF l
    <3>4. c[(i + j) + k] = b[((i + j) + k) - Len(a)]
      BY <1>1, <3>2 DEF JoinFacts
    <3>5. y[l] = b[j + l]
      BY <1>8, <3>1
    <3> QED BY <2>2, <3>2, <3>3, <3>4, <3>5
  <2> QED BY <1>11, <2>1, <2>3, <2>4
<1>14. d = e
  BY <1>9, <1>11, <1>12, <1>13, SeqEqual
<1> QED BY <1>14 DEF c, d, e, x, y, m, i

\* What the loop of PopBatch and PeekBatch has collected at p is the front of what the
\* levels down to p hold.
LEMMA CollectedIs ==
  ASSUME levels \in [Levels -> Seq(Task)], NEW n \in Nat
  PROVE  \A p \in Bounds : Collected(n)[p] = Cut(Served(levels)[p], n)
<1> DEFINE M == MaxPrio + 1
           w == Served(levels)
           \* What level p adds to what s holds already.
           Add(s, p) == s \o SubSeq(levels[p], 1,
                          IF Len(levels[p]) > n - Len(s) THEN n - Len(s) ELSE Len(levels[p]))
           c == [p \in 0..M |-> Cut(w[p], n)]
           b == Collected(n)
<1>m. M \in Nat /\ M > 0 /\ Bounds = 0..M /\ Levels = 0..(M - 1)
  BY CapacityAssumption DEF Bounds, Levels
<1>1. ServedEqs(levels, w)
  BY ServedDef
<1> HIDE DEF w
<1>2. ASSUME NEW p \in Levels PROVE Cut(w[p], n) = Add(Cut(w[p + 1], n), p)
  <2>1. p + 1 \in Bounds
    BY <1>m
  <2>2. w[p] = w[p + 1] \o levels[p] /\ w[p + 1] \in Seq(Task) /\ levels[p] \in Seq(Task)
    BY <1>1, <2>1 DEF ServedEqs
  <2>3. Cut(w[p + 1] \o levels[p], n) = Cut(w[p + 1], n) \o Cut(levels[p], n - Took(w[p + 1], n))
    BY <2>2, CutJoin
  <2>4. CutFacts(w[p + 1], n)
    BY <2>2, CutIs
  <2>5. Len(Cut(w[p + 1], n)) = Took(w[p + 1], n)
    BY <2>4 DEF CutFacts
  <2>6. Cut(w[p], n) = Cut(w[p + 1], n) \o Cut(levels[p], n - Len(Cut(w[p + 1], n)))
    BY ONLY <2>2, <2>3, <2>5
  <2> QED BY <2>6 DEF Cut
<1>3. Cut(w[M], n) = <<>>
  <2>1. w[M] = <<>>
    BY <1>1 DEF ServedEqs
  <2>2. Cut(<<>>, n) = <<>>
    <3>1. <<>> \in Seq(Task)
      OBVIOUS
    <3>2. CutFacts(<<>>, n)
      BY <3>1, CutIs
    <3>3. Cut(<<>>, n) \in Seq(Task) /\ Len(Cut(<<>>, n)) = 0
      BY <3>2 DEF CutFacts
    <3> QED BY <3>3, EmptySeq
  <2> QED BY <2>1, <2>2
<1>4. b = CHOOSE v : v = [p \in 0..M |-> IF p = M THEN <<>> ELSE Add(v[p + 1], p)]
  BY DEF Collected
<1> HIDE DEF Add
<1>5. c = [p \in 0..M |-> IF p = M THEN <<>> ELSE Add(c[p + 1], p)]
  <2>1. ASSUME NEW p \in 0..M
        PROVE  Cut(w[p], n) = IF p = M THEN <<>> ELSE Add(c[p + 1], p)
    <3>1. CASE p = M
      BY <1>3, <3>1
    <3>2. CASE p # M
      <4>1. p \in Levels /\ p + 1 \in 0..M
        BY <1>m, <3>2
      <4>2. c[p + 1] = Cut(w[p + 1], n)
        BY <4>1
      <4> HIDE DEF c
      <4> QED BY <1>2, <3>2, <4>1, <4>2
    <3> QED BY <3>1, <3>2
  <2> QED BY <2>1
<1> HIDE DEF c, b
<1>6. b = [p \in 0..M |-> IF p = M THEN <<>> ELSE Add(b[p + 1], p)]
  BY <1>4, <1>5
<1> DEFINE P == {p \in Bounds : b[p] = c[p]}
<1>7. M \in P
  <2>1. b[M] = <<>> /\ c[M] = <<>> /\ M \in Bounds
    BY <1>5, <1>6, <1>m
  <2> QED BY <2>1
<1>8. ASSUME NEW p \in Levels, p + 1 \in P PROVE p \in P
  <2>1. p \in 0..M /\ p # M /\ p \in Bounds
    BY <1>m
  <2>2. b[p] = Add(b[p + 1], p) /\ c[p] = Add(c[p + 1], p)
    BY <1>5, <1>6, <2>1
  <2>3. b[p + 1] = c[p + 1]
    BY <1>8
  <2> QED BY <2>1, <2>2, <2>3
<1> HIDE DEF P
<1>9. \A p \in Bounds : p \in P
  BY <1>7, <1>8, Down
<1>10. \A p \in Bounds : b[p] = Cut(w[p], n)
  BY <1>9, <1>m DEF P, c
<1> QED BY <1>10 DEF b, w

\* The levels after a batch of n, and the line they form.
LEMMA LevelRest ==
  ASSUME NEW lv \in [Levels -> Seq(Task)], NEW n \in Nat, NEW lv2,
         lv2 = [p \in Levels |-> Rest(lv[p], n - Took(Served(lv)[p + 1], n))]
  PROVE  /\ lv2 \in [Levels -> Seq(Task)]
         /\ Served(lv2)[0] = Rest(Served(lv)[0], n)
<1> DEFINE w == Served(lv)
           v == Served(lv2)
           P == {p \in Bounds : v[p] = Rest(w[p], n)}
<1>1. ServedEqs(lv, w)
  BY ServedDef
<1>2. lv2 = [p \in Levels |-> Rest(lv[p], n - Took(w[p + 1], n))]
  OBVIOUS
<1> HIDE DEF w
<1>3. ASSUME NEW p \in Levels PROVE p + 1 \in Bounds /\ p \in Bounds /\ w[p + 1] \in Seq(Task)
  <2>1. p + 1 \in Bounds /\ p \in Bounds
    BY CapacityAssumption DEF Bounds, Levels
  <2> QED BY <1>1, <2>1 DEF ServedEqs
<1>4. lv2 \in [Levels -> Seq(Task)]
  <2>1. ASSUME NEW p \in Levels PROVE Rest(lv[p], n - Took(w[p + 1], n)) \in Seq(Task)
    <3>1. w[p + 1] \in Seq(Task) /\ lv[p] \in Seq(Task)
      BY <1>3
    <3>2. TookFacts(w[p + 1], lv[p], n)
      BY <3>1, TookJoin
    <3>3. n - Took(w[p + 1], n) \in Nat
      BY <3>2 DEF TookFacts
    <3>4. CutFacts(lv[p], n - Took(w[p + 1], n))
      BY <3>1, <3>3, CutIs
    <3> QED BY <3>4 DEF CutFacts
  <2> QED BY <1>2, <2>1
<1>5. ServedEqs(lv2, v)
  BY <1>4, ServedDef
<1> HIDE DEF v
<1>6. MaxPrio + 1 \in P
  <2>1. v[MaxPrio + 1] = <<>> /\ w[MaxPrio + 1] = <<>>
    BY <1>1, <1>5 DEF ServedEqs
  <2>2. Rest(<<>>, n) = <<>>
    <3>1. <<>> \in Seq(Task)
      OBVIOUS
    <3>2. CutFacts(<<>>, n)
      BY <3>1, CutIs
    <3>3. Rest(<<>>, n) \in Seq(Task) /\ Len(Rest(<<>>, n)) = 0
      BY <3>2 DEF CutFacts, Took
    <3> QED BY <3>3, EmptySeq
  <2>3. MaxPrio + 1 \in Bounds
    BY CapacityAssumption DEF Bounds
  <2> QED BY <2>1, <2>2, <2>3
<1>7. ASSUME NEW p \in Levels, p + 1 \in P PROVE p \in P
  <2>1. w[p] = w[p + 1] \o lv[p] /\ v[p] = v[p + 1] \o lv2[p]
    BY <1>1, <1>5 DEF ServedEqs
  <2>2. v[p + 1] = Rest(w[p + 1], n) /\ lv2[p] = Rest(lv[p], n - Took(w[p + 1], n))
    BY <1>2, <1>7
  <2>3. Rest(w[p + 1] \o lv[p], n) = Rest(w[p + 1], n) \o Rest(lv[p], n - Took(w[p + 1], n))
    BY <1>3, RestJoin
  <2>4. v[p] = Rest(w[p], n)
    BY ONLY <2>1, <2>2, <2>3
  <2> QED BY <1>3, <2>4
<1> HIDE DEF P
<1>8. 0 \in P
  <2>1. 0 \in Bounds
    BY CapacityAssumption DEF Bounds
  <2> QED BY <1>6, <1>7, <2>1, Down
<1>9. v[0] = Rest(w[0], n)
  BY <1>8 DEF P
<1> QED BY <1>4, <1>9 DEF v, w

-----------------------------------------------------------------------------
(***************************************************************************)
(* The inductive invariant: the line and the index hold the same tasks,    *)
(* each once, and Priority names the level of each.                        *)
(***************************************************************************)

Agree(L, lk) ==
  /\ \A k \in 1..Len(L) : lk[IdOf[L[k]]] = L[k]
  /\ \A id \in ID : lk[id] # NoTask =>
       IdOf[lk[id]] = id /\ \E k \in 1..Len(L) : L[k] = lk[id]
  /\ \A k, l \in 1..Len(L) : L[k] = L[l] => k = l

Ranked(lv, pr) ==
  \A p \in Levels : \A i \in 1..Len(lv[p]) : pr[lv[p][i]] = p

IInv == TypeOK /\ Agree(Line, lookup) /\ Ranked(levels, prio) /\ SizeMatches

LookupType(lk) == lk \in [ID -> Task \cup {NoTask}]

\* A task whose ID is free may join the line anywhere.
LEMMA AgreeInsert ==
  ASSUME NEW L \in Seq(Task), NEW lk, LookupType(lk), Agree(L, lk),
         NEW k \in 0..Len(L), NEW t \in Task, lk[IdOf[t]] = NoTask
  PROVE  Agree(Insert(L, k, t), [lk EXCEPT ![IdOf[t]] = t])
<1> DEFINE S == Insert(L, k, t)
           lk2 == [lk EXCEPT ![IdOf[t]] = t]
<1>1. InsertFacts(L, k, t)
  BY InsertIs
<1>2. /\ S \in Seq(Task) /\ Len(S) = Len(L) + 1 /\ S[k + 1] = t
      /\ \A j \in 1..k : S[j] = L[j]
      /\ \A j \in (k + 2)..(Len(L) + 1) : S[j] = L[j - 1]
  BY <1>1 DEF InsertFacts
<1>3. Len(L) \in Nat /\ k \in Nat /\ k <= Len(L) /\ IdOf[t] \in ID
  BY LenProperties DEF ID
<1>4. /\ lk2[IdOf[t]] = t /\ \A id \in ID : id # IdOf[t] => lk2[id] = lk[id]
  BY <1>3 DEF LookupType
<1> HIDE DEF S, lk2
<1>5. \A j \in 1..Len(L) : L[j] \in Task /\ IdOf[L[j]] \in ID /\ IdOf[L[j]] # IdOf[t] /\ L[j] # t
  <2> SUFFICES ASSUME NEW j \in 1..Len(L)
               PROVE  L[j] \in Task /\ IdOf[L[j]] \in ID /\ IdOf[L[j]] # IdOf[t] /\ L[j] # t
    OBVIOUS
  <2>1. L[j] \in Task
    BY ElementOfSeq
  <2>2. lk[IdOf[L[j]]] = L[j]
    BY DEF Agree
  <2> QED BY <2>1, <2>2, TaskAssumption DEF ID
\* Where the positions of S come from.
<1> DEFINE old(j) == IF j <= k THEN j ELSE j - 1
<1>6. \A j \in 1..Len(S) : j # k + 1 => old(j) \in 1..Len(L) /\ S[j] = L[old(j)]
  <2> SUFFICES ASSUME NEW j \in 1..Len(S), j # k + 1
               PROVE  old(j) \in 1..Len(L) /\ S[j] = L[old(j)]
    OBVIOUS
  <2>1. CASE j <= k
    BY <1>2, <1>3, <2>1
  <2>2. CASE j > k
    <3>1. j \in (k + 2)..(Len(L) + 1) /\ ~(j <= k) /\ j - 1 \in 1..Len(L)
      BY <1>2, <1>3, <2>2
    <3> QED BY <1>2, <3>1
  <2> QED BY <1>3, <2>1, <2>2
<1>7. ASSUME NEW j \in 1..Len(S) PROVE lk2[IdOf[S[j]]] = S[j]
  <2>1. CASE j = k + 1
    BY <1>2, <1>4, <2>1
  <2>2. CASE j # k + 1
    <3>1. PICK i \in 1..Len(L) : S[j] = L[i]
      BY <1>6, <2>2
    <3>2. lk[IdOf[L[i]]] = L[i]
      BY DEF Agree
    <3> QED BY <1>4, <1>5, <3>1, <3>2
  <2> QED BY <2>1, <2>2
<1>8. ASSUME NEW id \in ID, lk2[id] # NoTask
      PROVE  IdOf[lk2[id]] = id /\ \E j \in 1..Len(S) : S[j] = lk2[id]
  <2>1. CASE id = IdOf[t]
    <3>1. k + 1 \in 1..Len(S)
      BY <1>2, <1>3
    <3> QED BY <1>2, <1>4, <2>1, <3>1
  <2>2. CASE id # IdOf[t]
    <3>1. lk2[id] = lk[id]
      BY <1>4, <2>2
    <3>2. IdOf[lk[id]] = id /\ \E j \in 1..Len(L) : L[j] = lk[id]
      BY <1>8, <3>1 DEF Agree
    <3>3. PICK i \in 1..Len(L) : L[i] = lk[id]
      BY <3>2
    <3>4. \E j \in 1..Len(S) : S[j] = L[i]
      <4>1. CASE i <= k
        <5>1. i \in 1..Len(S) /\ i \in 1..k
          BY <1>2, <1>3, <4>1
        <5> QED BY <1>2, <5>1
      <4>2. CASE i > k
        <5>1. i + 1 \in 1..Len(S) /\ i + 1 \in (k + 2)..(Len(L) + 1) /\ (i + 1) - 1 = i
          BY <1>2, <1>3, <4>2
        <5> QED BY <1>2, <5>1
      <4> QED BY <1>3, <4>1, <4>2
    <3> QED BY <3>1, <3>2, <3>3, <3>4
  <2> QED BY <2>1, <2>2
<1>9. ASSUME NEW i \in 1..Len(S), NEW j \in 1..Len(S), S[i] = S[j] PROVE i = j
  <2>1. CASE i = k + 1 \/ j = k + 1
    <3>1. S[i] = t
      BY <1>2, <1>9, <2>1
    <3> QED BY <1>2, <1>5, <1>6, <1>9, <2>1, <3>1
  <2>2. CASE i # k + 1 /\ j # k + 1
    <3>1. old(i) \in 1..Len(L) /\ old(j) \in 1..Len(L) /\ L[old(i)] = L[old(j)]
      BY <1>6, <1>9, <2>2
    <3>2. old(i) = old(j)
      <4> HIDE DEF old
      <4> QED BY <3>1 DEF Agree
    <3> QED BY <1>2, <1>3, <2>2, <3>2
  <2> QED BY <2>1, <2>2
<1>10. Agree(S, lk2)
  BY <1>7, <1>8, <1>9 DEF Agree
<1> QED BY <1>10 DEF S, lk2

\* The line without its task at n, and the index without the ID of that task.
LEMMA AgreeRemove ==
  ASSUME NEW L \in Seq(Task), NEW lk, LookupType(lk), Agree(L, lk), NEW n \in 1..Len(L)
  PROVE  /\ Agree(RemoveIndex(L, n), [lk EXCEPT ![IdOf[L[n]]] = NoTask])
         /\ \A j \in 1..Len(RemoveIndex(L, n)) : RemoveIndex(L, n)[j] # L[n]
<1> DEFINE S == RemoveIndex(L, n)
           t == L[n]
           lk2 == [lk EXCEPT ![IdOf[t]] = NoTask]
           old(j) == IF j < n THEN j ELSE j + 1
<1>1. RemoveFacts(L, n)
  BY RemoveIs
<1>2. /\ S \in Seq(Task) /\ Len(S) = Len(L) - 1
      /\ \A j \in 1..(n - 1) : S[j] = L[j]
      /\ \A j \in n..(Len(L) - 1) : S[j] = L[j + 1]
  BY <1>1 DEF RemoveFacts
<1>3. Len(L) \in Nat /\ n \in Nat /\ 1 <= n /\ n <= Len(L) /\ t \in Task /\ IdOf[t] \in ID
  BY LenProperties, ElementOfSeq DEF ID
<1>4. /\ lk2[IdOf[t]] = NoTask /\ \A id \in ID : id # IdOf[t] => lk2[id] = lk[id]
  BY <1>3 DEF LookupType
<1>5. lk[IdOf[t]] = t
  BY DEF Agree
<1> HIDE DEF S, lk2
<1>6. \A j \in 1..Len(S) : old(j) \in 1..Len(L) /\ old(j) # n /\ S[j] = L[old(j)]
  <2> SUFFICES ASSUME NEW j \in 1..Len(S)
               PROVE  old(j) \in 1..Len(L) /\ old(j) # n /\ S[j] = L[old(j)]
    OBVIOUS
  <2>1. CASE j < n
    BY <1>2, <1>3, <2>1
  <2>2. CASE ~(j < n)
    <3>1. j \in n..(Len(L) - 1) /\ j + 1 \in 1..Len(L) /\ j + 1 # n
      BY <1>2, <1>3, <2>2
    <3> QED BY <1>2, <2>2, <3>1
  <2> QED BY <2>1, <2>2
<1>7. ASSUME NEW j \in 1..Len(S) PROVE S[j] # t /\ IdOf[S[j]] # IdOf[t] /\ IdOf[S[j]] \in ID
  <2> DEFINE i == old(j)
  <2>1. i \in 1..Len(L) /\ i # n /\ S[j] = L[i]
    BY <1>6
  <2> HIDE DEF i
  <2>2. L[i] # t /\ lk[IdOf[L[i]]] = L[i]
    BY <2>1 DEF Agree
  <2>3. L[i] \in Task
    BY <2>1, ElementOfSeq
  <2> QED BY <1>5, <2>1, <2>2, <2>3 DEF ID
<1>8. ASSUME NEW j \in 1..Len(S) PROVE lk2[IdOf[S[j]]] = S[j]
  <2> DEFINE i == old(j)
  <2>1. i \in 1..Len(L) /\ S[j] = L[i]
    BY <1>6
  <2> HIDE DEF i
  <2>2. lk[IdOf[L[i]]] = L[i]
    BY <2>1 DEF Agree
  <2> QED BY <1>4, <1>7, <2>1, <2>2
<1>9. ASSUME NEW id \in ID, lk2[id] # NoTask
      PROVE  IdOf[lk2[id]] = id /\ \E j \in 1..Len(S) : S[j] = lk2[id]
  <2>1. id # IdOf[t] /\ lk2[id] = lk[id]
    BY <1>4, <1>9
  <2>2. IdOf[lk[id]] = id /\ \E j \in 1..Len(L) : L[j] = lk[id]
    BY <1>9, <2>1 DEF Agree
  <2>3. PICK i \in 1..Len(L) : L[i] = lk[id]
    BY <2>2
  <2>4. i # n
    BY <2>1, <2>2, <2>3
  <2>5. \E j \in 1..Len(S) : S[j] = L[i]
    <3>1. CASE i < n
      <4>1. i \in 1..Len(S) /\ i \in 1..(n - 1)
        BY <1>2, <1>3, <3>1
      <4> QED BY <1>2, <4>1
    <3>2. CASE i > n
      <4>1. i - 1 \in 1..Len(S) /\ i - 1 \in n..(Len(L) - 1) /\ (i - 1) + 1 = i
        BY <1>2, <1>3, <3>2
      <4> QED BY <1>2, <4>1
    <3> QED BY <1>3, <2>4, <3>1, <3>2
  <2> QED BY <2>1, <2>2, <2>3, <2>5
<1>10. ASSUME NEW i \in 1..Len(S), NEW j \in 1..Len(S), S[i] = S[j] PROVE i = j
  <2>1. old(i) \in 1..Len(L) /\ old(j) \in 1..Len(L) /\ L[old(i)] = L[old(j)]
    BY <1>6, <1>10
  <2>2. old(i) = old(j)
    <3> HIDE DEF old
    <3> QED BY <2>1 DEF Agree
  <2> QED BY <1>2, <1>3, <2>2
<1>11. Agree(S, lk2)
  BY <1>8, <1>9, <1>10 DEF Agree
<1> QED BY <1>7, <1>11 DEF S, lk2

\* A task may move to another place in the line; the index stays.
LEMMA AgreeMove ==
  ASSUME NEW L \in Seq(Task), NEW lk, LookupType(lk), Agree(L, lk), NEW n \in 1..Len(L),
         NEW k \in 0..Len(RemoveIndex(L, n))
  PROVE  Agree(Insert(RemoveIndex(L, n), k, L[n]), lk)
<1> DEFINE t == L[n]
           S == RemoveIndex(L, n)
           lk2 == [lk EXCEPT ![IdOf[t]] = NoTask]
<1>1. RemoveFacts(L, n)
  BY RemoveIs
<1>2. S \in Seq(Task)
  BY <1>1 DEF RemoveFacts
<1>3. Agree(S, lk2)
  BY AgreeRemove
<1>4. t \in Task /\ IdOf[t] \in ID /\ lk[IdOf[t]] = t
  BY ElementOfSeq DEF ID, Agree
<1>5. LookupType(lk2) /\ lk2[IdOf[t]] = NoTask /\ [lk2 EXCEPT ![IdOf[t]] = t] = lk
  BY <1>4 DEF LookupType
<1> HIDE DEF lk2, S, t
<1>6. k \in 0..Len(S)
  BY DEF S
<1>7. Agree(Insert(S, k, t), [lk2 EXCEPT ![IdOf[t]] = t])
  BY <1>2, <1>3, <1>4, <1>5, <1>6, AgreeInsert
<1> QED BY <1>5, <1>7 DEF S, t

\* The line without its first n tasks, and the index without their IDs.
LEMMA AgreeRest ==
  ASSUME NEW L \in Seq(Task), NEW lk, LookupType(lk), Agree(L, lk), NEW n \in Nat,
         NEW ids, ids = {IdOf[Cut(L, n)[i]] : i \in 1..Len(Cut(L, n))}
  PROVE  Agree(Rest(L, n), [id \in ID |-> IF id \in ids THEN NoTask ELSE lk[id]])
<1> DEFINE S == Rest(L, n)
           m == Took(L, n)
           lk2 == [id \in ID |-> IF id \in ids THEN NoTask ELSE lk[id]]
<1>1. CutFacts(L, n)
  BY CutIs
<1>2. /\ m \in 0..Len(L) /\ S \in Seq(Task) /\ Len(S) = Len(L) - m
      /\ \A j \in 1..(Len(L) - m) : S[j] = L[m + j]
  BY <1>1 DEF CutFacts
<1>3. ids = {IdOf[L[i]] : i \in 1..m}
  <2>1. Len(Cut(L, n)) = m /\ \A j \in 1..m : Cut(L, n)[j] = L[j]
    BY <1>1 DEF CutFacts
  <2> HIDE DEF m
  <2> QED BY <2>1
<1>4. Len(L) \in Nat /\ m \in Nat /\ m <= Len(L)
  BY <1>2, LenProperties
<1>5. \A id \in ID : lk2[id] = IF id \in ids THEN NoTask ELSE lk[id]
  OBVIOUS
<1> HIDE DEF S, m, lk2
<1>6. ASSUME NEW j \in 1..Len(S)
      PROVE  /\ m + j \in 1..Len(L) /\ S[j] = L[m + j]
             /\ IdOf[S[j]] \in ID /\ IdOf[S[j]] \notin ids
  <2>1. m + j \in 1..Len(L) /\ S[j] = L[m + j]
    BY <1>2, <1>4
  <2>2. L[m + j] \in Task /\ lk[IdOf[L[m + j]]] = L[m + j]
    BY <2>1, ElementOfSeq DEF Agree
  <2>3. ASSUME NEW i \in 1..m PROVE IdOf[L[i]] # IdOf[L[m + j]]
    <3>1. i \in 1..Len(L) /\ i # m + j
      BY <1>4, <2>1
    <3>2. lk[IdOf[L[i]]] = L[i] /\ L[i] # L[m + j]
      BY <2>1, <3>1 DEF Agree
    <3> QED BY <2>2, <3>2
  <2> QED BY <1>3, <2>1, <2>2, <2>3 DEF ID
<1>7. ASSUME NEW j \in 1..Len(S) PROVE lk2[IdOf[S[j]]] = S[j]
  <2>1. lk2[IdOf[S[j]]] = lk[IdOf[S[j]]]
    BY <1>5, <1>6
  <2>2. lk[IdOf[L[m + j]]] = L[m + j]
    BY <1>6 DEF Agree
  <2> QED BY <1>6, <2>1, <2>2
<1>8. ASSUME NEW id \in ID, lk2[id] # NoTask
      PROVE  IdOf[lk2[id]] = id /\ \E j \in 1..Len(S) : S[j] = lk2[id]
  <2>1. id \notin ids /\ lk2[id] = lk[id]
    BY <1>5, <1>8
  <2>2. IdOf[lk[id]] = id /\ \E j \in 1..Len(L) : L[j] = lk[id]
    BY <1>8, <2>1 DEF Agree
  <2>3. PICK i \in 1..Len(L) : L[i] = lk[id]
    BY <2>2
  <2>4. ~(i \in 1..m)
    BY <1>3, <2>1, <2>2, <2>3
  <2>5. i - m \in 1..Len(S) /\ m + (i - m) = i
    BY <1>2, <1>4, <2>4
  <2>6. S[i - m] = L[i]
    BY <1>6, <2>5
  <2> QED BY <2>1, <2>2, <2>3, <2>5, <2>6
<1>9. ASSUME NEW i \in 1..Len(S), NEW j \in 1..Len(S), S[i] = S[j] PROVE i = j
  <2>1. m + i \in 1..Len(L) /\ m + j \in 1..Len(L) /\ L[m + i] = L[m + j]
    BY <1>6, <1>9
  <2>2. m + i = m + j
    BY <2>1 DEF Agree
  <2> QED BY <1>2, <1>4, <2>2
<1>10. Agree(S, lk2)
  BY <1>7, <1>8, <1>9 DEF Agree
<1> QED BY <1>10 DEF S, lk2

\* A task that is not in the line stands on no level.
LEMMA Absent ==
  ASSUME NEW lv \in [Levels -> Seq(Task)], NEW t,
         \A k \in 1..Len(Served(lv)[0]) : Served(lv)[0][k] # t
  PROVE  \A q \in Levels : \A i \in 1..Len(lv[q]) : lv[q][i] # t
<1> SUFFICES ASSUME NEW q \in Levels, NEW i \in 1..Len(lv[q])
             PROVE  lv[q][i] # t
  OBVIOUS
<1> DEFINE k == Len(Served(lv)[q + 1]) + i
<1>1. k \in 1..Len(Served(lv)[0]) /\ Served(lv)[0][k] = lv[q][i]
  BY Place
<1> HIDE DEF k
<1> QED BY <1>1

\* A newcomer to level p whose Priority is set to p keeps the ranks.
LEMMA RankedInsert ==
  ASSUME NEW lv \in [Levels -> Seq(Task)], NEW pr \in [Task -> Int], Ranked(lv, pr),
         NEW p \in Levels, NEW t \in Task,
         \A q \in Levels : \A i \in 1..Len(lv[q]) : lv[q][i] # t
  PROVE  Ranked([lv EXCEPT ![p] = Append(@, t)], [pr EXCEPT ![t] = p])
<1> DEFINE lv2 == [lv EXCEPT ![p] = Append(@, t)]
           pr2 == [pr EXCEPT ![t] = p]
<1>1. lv2[p] = Append(lv[p], t) /\ \A q \in Levels : q # p => lv2[q] = lv[q]
  OBVIOUS
<1>2. pr2[t] = p /\ \A u \in Task : u # t => pr2[u] = pr[u]
  OBVIOUS
<1> HIDE DEF lv2, pr2
<1>3. ASSUME NEW q \in Levels, NEW i \in 1..Len(lv[q])
      PROVE  pr2[lv[q][i]] = q
  <2>1. lv[q][i] \in Task /\ lv[q][i] # t
    BY ElementOfSeq
  <2> QED BY <1>2, <2>1 DEF Ranked
<1>4. ASSUME NEW q \in Levels, NEW i \in 1..Len(lv2[q])
      PROVE  pr2[lv2[q][i]] = q
  <2>1. CASE q # p
    BY <1>1, <1>3, <2>1
  <2>2. CASE q = p
    <3> DEFINE s == lv[p]
    <3>1. s \in Seq(Task) /\ lv2[q] = Append(s, t) /\ Len(s) \in Nat
      BY <1>1, <2>2, LenProperties
    <3> HIDE DEF s
    <3>2. Len(Append(s, t)) = Len(s) + 1 /\ Append(s, t)[Len(s) + 1] = t
          /\ \A j \in 1..Len(s) : Append(s, t)[j] = s[j]
      BY <3>1
    <3>3. i \in 1..Len(s) \/ i = Len(s) + 1
      BY <3>1, <3>2
    <3>4. CASE i \in 1..Len(s)
      BY <1>3, <2>2, <3>1, <3>2, <3>4 DEF s
    <3>5. CASE i = Len(s) + 1
      BY <1>2, <2>2, <3>1, <3>2, <3>5
    <3> QED BY <3>3, <3>4, <3>5
  <2> QED BY <2>1, <2>2
<1> QED BY <1>4 DEF Ranked, lv2, pr2

\* The tasks that stay on their level keep their ranks.
LEMMA RankedRemove ==
  ASSUME NEW lv \in [Levels -> Seq(Task)], NEW pr \in [Task -> Int], Ranked(lv, pr),
         NEW p \in Levels, NEW n \in 1..Len(lv[p])
  PROVE  Ranked([lv EXCEPT ![p] = RemoveIndex(@, n)], pr)
<1> DEFINE lv2 == [lv EXCEPT ![p] = RemoveIndex(@, n)]
<1>1. lv2[p] = RemoveIndex(lv[p], n) /\ \A q \in Levels : q # p => lv2[q] = lv[q]
  OBVIOUS
<1> HIDE DEF lv2
<1>2. ASSUME NEW q \in Levels, NEW i \in 1..Len(lv2[q])
      PROVE  pr[lv2[q][i]] = q
  <2>1. CASE q # p
    BY <1>1, <2>1 DEF Ranked
  <2>2. CASE q = p
    <3> DEFINE s == lv[p]
               r == lv2[q]
    <3>1. s \in Seq(Task) /\ r = RemoveIndex(s, n) /\ Len(s) \in Nat
      BY <1>1, <2>2, LenProperties
    <3>2. RemoveFacts(s, n)
      BY RemoveIs
    <3>3. /\ Len(r) = Len(s) - 1
          /\ \A j \in 1..(n - 1) : r[j] = s[j]
          /\ \A j \in n..(Len(s) - 1) : r[j] = s[j + 1]
      BY <3>1, <3>2 DEF RemoveFacts
    <3> HIDE DEF s, r
    <3>4. n \in Nat /\ i \in 1..Len(r)
      BY DEF r
    <3>5. \E j \in 1..Len(s) : r[i] = s[j]
      <4>1. CASE i < n
        <5>1. i \in 1..(n - 1) /\ i \in 1..Len(s)
          BY <3>1, <3>3, <3>4, <4>1
        <5> QED BY <3>3, <5>1
      <4>2. CASE ~(i < n)
        <5>1. i \in n..(Len(s) - 1) /\ i + 1 \in 1..Len(s)
          BY <3>1, <3>3, <3>4, <4>2
        <5> QED BY <3>3, <5>1
      <4> QED BY <4>1, <4>2
    <3>6. \A j \in 1..Len(s) : pr[s[j]] = q
      BY <2>2 DEF Ranked, s
    <3> QED BY <3>5, <3>6 DEF r
  <2> QED BY <2>1, <2>2
<1> QED BY <1>2 DEF Ranked, lv2

\* What a batch leaves on a level keeps its rank.
LEMMA RankedRest ==
  ASSUME NEW lv \in [Levels -> Seq(Task)], NEW pr \in [Task -> Int], Ranked(lv, pr),
         NEW n \in Nat, NEW lv2,
         lv2 = [p \in Levels |-> Rest(lv[p], n - Took(Served(lv)[p + 1], n))]
  PROVE  Ranked(lv2, pr)
<1> SUFFICES ASSUME NEW p \in Levels, NEW i \in 1..Len(lv2[p])
             PROVE  pr[lv2[p][i]] = p
  BY DEF Ranked
<1> DEFINE a == Served(lv)[p + 1]
           s == lv[p]
           m == n - Took(a, n)
           r == lv2[p]
<1>1. StepFacts(lv, p, Served(lv))
  BY ServedStep
<1>2. a \in Seq(Task) /\ s \in Seq(Task) /\ r = Rest(s, m)
  BY <1>1 DEF StepFacts
<1>3. i \in 1..Len(r) /\ \A j \in 1..Len(s) : pr[s[j]] = p
  BY DEF Ranked
<1> HIDE DEF a, s, r
<1>4. TookFacts(a, s, n)
  BY <1>2, TookJoin
<1>5. m \in Nat
  BY <1>4 DEF TookFacts
<1> HIDE DEF m
<1>6. CutFacts(s, m)
  BY <1>2, <1>5, CutIs
<1>7. /\ Len(r) = Len(s) - Took(s, m) /\ Took(s, m) \in 0..Len(s)
      /\ \A j \in 1..(Len(s) - Took(s, m)) : r[j] = s[Took(s, m) + j]
  BY <1>2, <1>6 DEF CutFacts
<1>8. Len(s) \in Nat
  BY <1>2, LenProperties
<1> DEFINE k == Took(s, m)
<1> HIDE DEF k
<1>9. /\ Len(r) = Len(s) - k /\ k \in 0..Len(s)
      /\ \A j \in 1..(Len(s) - k) : r[j] = s[k + j]
  BY <1>7 DEF k
<1>10. i \in 1..(Len(s) - k) /\ k + i \in 1..Len(s)
  BY <1>3, <1>8, <1>9
<1>11. pr[r[i]] = p
  BY <1>3, <1>9, <1>10
<1> QED BY <1>11 DEF r

-----------------------------------------------------------------------------
(***************************************************************************)
(* The steps.                                                              *)
(***************************************************************************)

Basics(L) ==
  /\ L \in Seq(Task) /\ Len(L) \in Nat /\ L = Served(levels)[0]
  /\ levels \in [Levels -> Seq(Task)] /\ prio \in [Task -> Int] /\ LookupType(lookup)
  /\ Agree(L, lookup) /\ Ranked(levels, prio)
  /\ size = Len(L) /\ size <= Capacity

\* What the invariant says of the line.
LEMMA LineFacts ==
  ASSUME IInv
  PROVE  Basics(Line)
<1>1. levels \in [Levels -> Seq(Task)] /\ prio \in [Task -> Int] /\ LookupType(lookup)
  BY DEF IInv, TypeOK, LookupType
<1>2. 0 \in Bounds
  BY CapacityAssumption DEF Bounds
<1>3. PrefixFacts(Served(levels), 0)
  BY <1>1, <1>2, Prefix
<1>4. Line \in Seq(Task) /\ Len(Line) \in Nat
  BY <1>3 DEF PrefixFacts, Line
<1> QED BY <1>1, <1>4 DEF IInv, SizeMatches, Basics, Line

\* An ID is free exactly when no task of the line has it.
LEMMA FreeId ==
  ASSUME IInv, NEW id \in ID
  PROVE  /\ lookup[id] = NoTask <=> PL!Spot(id) = {}
         /\ \A k \in PL!Spot(id) : k \in 1..Len(Line) /\ Line[k] = lookup[id] /\ IdOf[Line[k]] = id
<1>1. Basics(Line)
  BY LineFacts
<1>2. PL!Spot(id) = {k \in 1..Len(Line) : IdOf[Line[k]] = id}
  BY DEF PL!Spot
<1> DEFINE L == Line
<1> HIDE DEF L
<1>3. ASSUME NEW k \in 1..Len(L), IdOf[L[k]] = id
      PROVE  L[k] = lookup[id] /\ lookup[id] # NoTask
  <2>1. L[k] \in Task /\ lookup[IdOf[L[k]]] = L[k]
    BY <1>1, ElementOfSeq DEF Basics, Agree, L
  <2> QED BY <1>3, <2>1, TaskAssumption
<1>4. ASSUME lookup[id] # NoTask
      PROVE  \E k \in 1..Len(L) : IdOf[L[k]] = id
  BY <1>1, <1>4 DEF Basics, Agree, L
<1> QED BY <1>2, <1>3, <1>4 DEF L

\* The queue and the line bring a priority into range in the same way.
LEMMA NormalizeIs ==
  ASSUME NEW p \in Int
  PROVE  Normalize(p) \in Levels /\ PL!Level(p) = Normalize(p)
BY CapacityAssumption DEF Normalize, PL!Level, Levels

\* The place that the priority line gives to a newcomer is behind the levels from p up.
LEMMA JoinPlace ==
  ASSUME NEW lv \in [Levels -> Seq(Task)], prio \in [Task -> Int], Ranked(lv, prio),
         NEW p \in Levels, NEW t \in Task
  PROVE  PL!Join(Served(lv)[0], t, p) = Insert(Served(lv)[0], Len(Served(lv)[p]), t)
<1> DEFINE w == Served(lv)
           C == {k \in 1..Len(w[0]) : prio[w[0][k]] >= p}
<1>1. C = 1..Len(w[p])
  BY Counted DEF Ranked
<1>2. p \in Bounds
  BY CapacityAssumption DEF Bounds, Levels
<1>3. PrefixFacts(w, p)
  BY <1>2, Prefix
<1>4. Len(w[p]) \in Nat
  BY <1>3 DEF PrefixFacts
<1> HIDE DEF w
<1>5. Cardinality(1..Len(w[p])) = Len(w[p])
  BY <1>4, FS_Interval
<1>6. PL!Join(w[0], t, p)
        = SubSeq(w[0], 1, PL!Cardinality(C)) \o <<t>>
            \o SubSeq(w[0], PL!Cardinality(C) + 1, Len(w[0]))
  BY DEF PL!Join
<1>7. PL!Cardinality(C) = Cardinality(C)
  BY DEF PL!Cardinality, Cardinality
<1> QED BY <1>1, <1>5, <1>6, <1>7 DEF Insert, w

\* A rejected Push changes nothing but the answer, and the line rejects it too.
LEMMA PushRejectedStep ==
  ASSUME IInv, NEW t \in Task, PushRejected(t)
  PROVE  IInv' /\ PL!Push(t)
<1>1. UNCHANGED <<levels, lookup, size, prio, enqueueCount, dequeueCount>> /\ answer' = <<>>
  BY DEF PushRejected, counts
<1>2. IdOf[t] \in ID
  BY DEF ID
<1>3. ~(Len(Line) < Capacity /\ PL!Spot(IdOf[t]) = {})
  <2>1. size = Len(Line) /\ size \in Nat
    BY DEF IInv, SizeMatches, TypeOK
  <2>2. lookup[IdOf[t]] = NoTask <=> PL!Spot(IdOf[t]) = {}
    BY <1>2, FreeId
  <2> QED BY <2>1, <2>2, CapacityAssumption DEF PushRejected
<1>4. Line' = Line
  BY <1>1 DEF Line
<1>5. PL!Push(t)
  BY <1>1, <1>3, <1>4 DEF PL!Push
<1>6. TypeOK' /\ SizeMatches'
  BY <1>1, <1>4 DEF IInv, TypeOK, SizeMatches
<1>7. Agree(Line, lookup)' /\ Ranked(levels, prio)'
  BY <1>1, <1>4 DEF IInv, Agree, Ranked
<1> QED BY <1>5, <1>6, <1>7 DEF IInv

\* An accepted Push puts the task where the line would.
LEMMA PushAcceptedStep ==
  ASSUME IInv, NEW t \in Task, PushAccepted(t)
  PROVE  IInv' /\ PL!Push(t)
<1> DEFINE p == Normalize(prio[t])
           n == Len(Served(levels)[p])
<1>1. /\ size < Capacity /\ lookup[IdOf[t]] = NoTask
      /\ prio' = [prio EXCEPT ![t] = p]
      /\ levels' = [levels EXCEPT ![p] = Append(@, t)]
      /\ lookup' = [lookup EXCEPT ![IdOf[t]] = t]
      /\ size' = size + 1 /\ enqueueCount' = enqueueCount + 1
      /\ answer' = <<>> /\ dequeueCount' = dequeueCount
  BY DEF PushAccepted
<1>2. Basics(Line)
  BY LineFacts
<1>3. /\ Line \in Seq(Task) /\ Len(Line) \in Nat /\ Line = Served(levels)[0]
      /\ levels \in [Levels -> Seq(Task)] /\ prio \in [Task -> Int] /\ LookupType(lookup)
      /\ Agree(Line, lookup) /\ Ranked(levels, prio) /\ size = Len(Line) /\ size <= Capacity
  BY <1>2 DEF Basics
<1>4. IdOf[t] \in ID /\ prio[t] \in Int
  BY <1>3 DEF ID
<1>5. p \in Levels /\ PL!Level(prio[t]) = p
  BY <1>4, NormalizeIs
<1> HIDE DEF p
<1>6. Line' = Served(levels')[0]
  BY DEF Line
<1>7. levels' \in [Levels -> Seq(Task)] /\ Line' = Insert(Line, n, t)
  <2> DEFINE lv2 == [levels EXCEPT ![p] = Append(@, t)]
  <2>1. lv2 \in [Levels -> Seq(Task)] /\ Served(lv2)[0] = Insert(Served(levels)[0], n, t)
    BY <1>3, <1>5, LevelInsert
  <2>2. levels' = lv2
    BY <1>1
  <2> HIDE DEF lv2, n
  <2> QED BY <1>3, <1>6, <2>1, <2>2
<1>8. n \in 0..Len(Line)
  <2>1. p \in Bounds
    BY <1>5, CapacityAssumption DEF Bounds, Levels
  <2>2. PrefixFacts(Served(levels), p)
    BY <1>3, <2>1, Prefix
  <2> QED BY <1>3, <2>2 DEF PrefixFacts
<1>9. PL!Join(Line, t, p) = Insert(Line, n, t)
  BY <1>3, <1>5, JoinPlace
<1> HIDE DEF n
<1>10. PL!Push(t)
  <2>1. lookup[IdOf[t]] = NoTask <=> PL!Spot(IdOf[t]) = {}
    BY <1>4, FreeId
  <2>2. Len(Line) < Capacity /\ PL!Spot(IdOf[t]) = {}
    BY <1>1, <1>3, <2>1
  <2>3. Line' = PL!Join(Line, t, PL!Level(prio[t]))
    BY <1>5, <1>7, <1>9
  <2>4. prio' = [prio EXCEPT ![t] = PL!Level(@)]
    BY <1>1, <1>3, <1>5
  <2> QED BY <1>1, <2>2, <2>3, <2>4 DEF PL!Push
<1>11. Agree(Line', lookup')
  <2>1. Agree(Insert(Line, n, t), [lookup EXCEPT ![IdOf[t]] = t])
    BY <1>1, <1>3, <1>8, AgreeInsert
  <2> QED BY <1>1, <1>7, <2>1
<1>12. Ranked(levels', prio')
  <2>1. ASSUME NEW k \in 1..Len(Line) PROVE Line[k] # t
    <3>1. lookup[IdOf[Line[k]]] = Line[k] /\ Line[k] \in Task
      BY <1>3, ElementOfSeq DEF Agree
    <3> QED BY <1>1, <3>1, TaskAssumption
  <2>2. \A q \in Levels : \A i \in 1..Len(levels[q]) : levels[q][i] # t
    BY <1>3, <2>1, Absent
  <2>3. Ranked([levels EXCEPT ![p] = Append(@, t)], [prio EXCEPT ![t] = p])
    BY <1>3, <1>5, <2>2, RankedInsert
  <2> QED BY <1>1, <2>3
<1>13. Len(Line') = Len(Line) + 1
  <2>1. InsertFacts(Line, n, t)
    BY <1>3, <1>8, InsertIs
  <2> QED BY <1>7, <2>1 DEF InsertFacts
<1>14. SizeMatches'
  <2>1. size + dequeueCount <= enqueueCount /\ size \in Nat /\ dequeueCount \in Nat /\ enqueueCount \in Nat
    BY DEF IInv, SizeMatches, TypeOK
  <2>2. size' = Len(Line')
    BY <1>1, <1>3, <1>13
  <2>3. size' <= Capacity /\ size' + dequeueCount' <= enqueueCount'
    BY <1>1, <2>1, CapacityAssumption
  <2> QED BY <2>2, <2>3 DEF SizeMatches
<1>15. TypeOK'
  <2>1. lookup' \in [ID -> Task \cup {NoTask}]
    BY <1>1, <1>3, <1>4 DEF LookupType
  <2>2. prio' \in [Task -> Int]
    BY <1>1, <1>3, <1>5, CapacityAssumption DEF Levels
  <2>3. size' \in Nat /\ enqueueCount' \in Nat /\ dequeueCount' \in Nat /\ answer' \in Seq(Task)
    BY <1>1 DEF IInv, TypeOK
  <2> QED BY <1>7, <2>1, <2>2, <2>3 DEF TypeOK
<1> QED BY <1>10, <1>11, <1>12, <1>14, <1>15 DEF IInv, Agree, Ranked

TakenOut(p, i, n, lv2, S) ==
  /\ n \in 1..Len(Line) /\ Line[n] = levels[p][i] /\ levels[p][i] \in Task
  /\ lv2 \in [Levels -> Seq(Task)] /\ Served(lv2)[0] = S /\ Ranked(lv2, prio)
  /\ S = RemoveIndex(Line, n) /\ S \in Seq(Task) /\ Len(S) = Len(Line) - 1
  /\ Agree(S, [lookup EXCEPT ![IdOf[levels[p][i]]] = NoTask])
  /\ \A j \in 1..Len(S) : S[j] # levels[p][i]

\* What removing position i of level p does to the line.
LEMMA TakeOut ==
  ASSUME IInv, NEW p \in Levels, NEW i \in 1..Len(levels[p])
  PROVE  TakenOut(p, i, Len(Served(levels)[p + 1]) + i,
                  [levels EXCEPT ![p] = RemoveIndex(@, i)],
                  RemoveIndex(Line, Len(Served(levels)[p + 1]) + i))
<1> DEFINE n == Len(Served(levels)[p + 1]) + i
           lv2 == [levels EXCEPT ![p] = RemoveIndex(@, i)]
           S == RemoveIndex(Line, n)
<1>1. Basics(Line)
  BY LineFacts
<1>2. /\ Line \in Seq(Task) /\ Len(Line) \in Nat /\ Line = Served(levels)[0]
      /\ levels \in [Levels -> Seq(Task)] /\ prio \in [Task -> Int] /\ LookupType(lookup)
      /\ Agree(Line, lookup) /\ Ranked(levels, prio)
  BY <1>1 DEF Basics
<1>3. n \in 1..Len(Line) /\ Line[n] = levels[p][i]
  BY <1>2, Place
<1>4. lv2 \in [Levels -> Seq(Task)] /\ Served(lv2)[0] = RemoveIndex(Served(levels)[0], n)
  <2>1. levels \in [Levels -> Seq(Task)]
    BY <1>2
  <2> QED BY <2>1, LevelRemove
<1>5. Ranked(lv2, prio)
  BY <1>2, RankedRemove
<1> HIDE DEF n, lv2
<1>6. RemoveFacts(Line, n)
  BY <1>2, <1>3, RemoveIs
<1>7. Agree(S, [lookup EXCEPT ![IdOf[Line[n]]] = NoTask]) /\ \A j \in 1..Len(S) : S[j] # Line[n]
  BY <1>2, <1>3, AgreeRemove
<1>8. S \in Seq(Task) /\ Len(S) = Len(Line) - 1
  BY <1>6 DEF RemoveFacts
<1>9. levels[p][i] \in Task
  BY <1>2, ElementOfSeq
<1>10. Served(lv2)[0] = S
  BY <1>2, <1>4
<1> HIDE DEF S
<1>11. S = RemoveIndex(Line, n)
  BY DEF S
<1>12. TakenOut(p, i, n, lv2, S)
  BY <1>3, <1>4, <1>5, <1>7, <1>8, <1>9, <1>10, <1>11 DEF TakenOut
<1> QED BY <1>12 DEF n, lv2, S

\* The front of the line is what a batch takes.
LEMMA FrontIs ==
  ASSUME IInv, NEW n \in Nat
  PROVE  /\ PL!Front(n) = Cut(Line, n)
         /\ SubSeq(Line, Len(PL!Front(n)) + 1, Len(Line)) = Rest(Line, n)
<1>1. Line \in Seq(Task) /\ Len(Line) \in Nat
  BY LineFacts DEF Basics
<1>2. (IF n < Len(Line) THEN n ELSE Len(Line)) = IF Len(Line) > n THEN n ELSE Len(Line)
  BY <1>1
<1>3. PL!Front(n) = Cut(Line, n)
  BY <1>2 DEF PL!Front, Cut
<1>4. CutFacts(Line, n)
  BY <1>1, CutIs
<1>5. Len(Cut(Line, n)) = Took(Line, n)
  BY <1>4 DEF CutFacts
<1> QED BY <1>3, <1>5 DEF Rest, Took

\* Tail drops the first position.
LEMMA TailIs ==
  ASSUME NEW s \in Seq(Task), s # <<>>
  PROVE  Tail(s) = RemoveIndex(s, 1) /\ Head(s) = s[1] /\ 1 \in 1..Len(s)
<1>1. Len(s) \in Nat /\ Len(s) # 0
  BY EmptySeq
<1>2. 1 \in 1..Len(s)
  BY <1>1
<1>3. RemoveFacts(s, 1)
  BY <1>2, RemoveIs
<1>4. Tail(s) \in Seq(Task) /\ Len(Tail(s)) = Len(s) - 1
      /\ \A i \in 1..Len(Tail(s)) : Tail(s)[i] = s[i + 1]
  BY HeadTailProperties
<1> DEFINE a == Tail(s)
           b == RemoveIndex(s, 1)
<1>5. b \in Seq(Task) /\ Len(b) = Len(s) - 1 /\ \A j \in 1..(Len(s) - 1) : b[j] = s[j + 1]
  BY <1>3 DEF RemoveFacts
<1> HIDE DEF a, b
<1>6. Len(a) = Len(b) /\ \A i \in 1..Len(a) : a[i] = b[i]
  BY <1>4, <1>5 DEF a
<1>7. a = b
  BY <1>4, <1>5, <1>6, SeqEqual DEF a
<1> QED BY <1>2, <1>7 DEF a, b

\* A batch of one is the first task.
LEMMA CutOne ==
  ASSUME NEW s \in Seq(Task), 1 \in 1..Len(s)
  PROVE  Cut(s, 1) = <<s[1]>> /\ Rest(s, 1) = RemoveIndex(s, 1)
<1>1. Len(s) \in Nat /\ Len(s) >= 1 /\ s[1] \in Task
  BY LenProperties, ElementOfSeq
<1>2. CutFacts(s, 1) /\ RemoveFacts(s, 1)
  BY CutIs, RemoveIs
<1>3. Took(s, 1) = 1
  <2>1. Took(s, 1) = IF Len(s) > 1 THEN 1 ELSE Len(s)
    BY DEF Took
  <2>2. \A l \in Nat : l >= 1 /\ ~(l > 1) => l = 1
    OBVIOUS
  <2> QED BY <1>1, <2>1, <2>2
<1> DEFINE a == Cut(s, 1)
           b == <<s[1]>>
           c == Rest(s, 1)
           d == RemoveIndex(s, 1)
<1>4. a \in Seq(Task) /\ Len(a) = 1 /\ a[1] = s[1]
  <2>1. a \in Seq(Task) /\ Len(a) = Took(s, 1) /\ \A j \in 1..Took(s, 1) : a[j] = s[j]
    BY <1>2 DEF CutFacts
  <2> HIDE DEF a
  <2> QED BY <1>3, <2>1
<1>5. b \in Seq(Task) /\ Len(b) = 1 /\ b[1] = s[1]
  BY <1>1
<1>6. c \in Seq(Task) /\ Len(c) = Len(s) - 1 /\ \A j \in 1..(Len(s) - 1) : c[j] = s[1 + j]
  BY <1>2, <1>3 DEF CutFacts
<1>7. d \in Seq(Task) /\ Len(d) = Len(s) - 1 /\ \A j \in 1..(Len(s) - 1) : d[j] = s[j + 1]
  BY <1>2 DEF RemoveFacts
<1> HIDE DEF a, b, c, d
<1>8. a = b
  BY <1>4, <1>5, SeqEqual
<1>9. Len(c) = Len(d) /\ \A j \in 1..Len(c) : c[j] = d[j]
  <2> SUFFICES ASSUME NEW j \in 1..Len(c) PROVE c[j] = d[j]
    BY <1>6, <1>7
  <2>1. 1 + j = j + 1 /\ j \in 1..(Len(s) - 1)
    BY <1>1, <1>6
  <2> QED BY <1>6, <1>7, <2>1
<1>10. c = d
  BY <1>6, <1>7, <1>9, SeqEqual
<1> QED BY <1>8, <1>10 DEF a, b, c, d

\* Pop serves the first of the line.
LEMMA PopStep ==
  ASSUME IInv, Pop
  PROVE  IInv' /\ PL!Serve(1)
<1>1. PICK p \in Levels :
        /\ levels[p] # <<>>
        /\ \A q \in Levels : q > p => levels[q] = <<>>
        /\ answer' = <<Head(levels[p])>>
        /\ levels' = [levels EXCEPT ![p] = Tail(@)]
        /\ lookup' = [lookup EXCEPT ![IdOf[Head(levels[p])]] = NoTask]
  BY DEF Pop
<1>2. size # 0 /\ size' = size - 1 /\ dequeueCount' = dequeueCount + 1
      /\ prio' = prio /\ enqueueCount' = enqueueCount
  BY DEF Pop
<1> DEFINE w == Served(levels)
           n == Len(w[p + 1]) + 1
           t == levels[p][1]
           lv2 == [levels EXCEPT ![p] = RemoveIndex(@, 1)]
           S == RemoveIndex(Line, n)
<1>3. /\ Line \in Seq(Task) /\ Len(Line) \in Nat /\ size = Len(Line) /\ size <= Capacity
      /\ levels \in [Levels -> Seq(Task)] /\ prio \in [Task -> Int] /\ LookupType(lookup)
  BY LineFacts DEF Basics
<1>4. Tail(levels[p]) = RemoveIndex(levels[p], 1) /\ Head(levels[p]) = t /\ 1 \in 1..Len(levels[p])
  BY <1>1, <1>3, TailIs
<1>5. TakenOut(p, 1, n, lv2, S)
  BY <1>4, TakeOut
<1>6. n = 1
  <2>1. p + 1 \in Bounds /\ p \in Nat
    BY CapacityAssumption DEF Bounds, Levels
  <2>2. PrefixFacts(w, p + 1)
    BY <1>3, <2>1, Prefix
  <2>3. Len(w[p + 1]) \in Nat
    BY <2>2 DEF PrefixFacts
  <2>4. ASSUME Len(w[p + 1]) # 0 PROVE FALSE
    <3>1. 1 \in 1..Len(w[p + 1])
      BY <2>3, <2>4
    <3>2. From(levels, w, p + 1, 1)
      BY <1>3, <2>1, <3>1, Origin
    <3>3. PICK q \in Levels : q >= p + 1 /\ \E i \in 1..Len(levels[q]) : 1 = Len(w[q + 1]) + i
      BY <3>2 DEF From
    <3>4. q > p
      BY <2>1, <3>3, CapacityAssumption DEF Levels
    <3>5. Len(levels[q]) = 0
      BY <1>1, <3>4
    <3> QED BY <3>3, <3>5
  <2> QED BY <2>3, <2>4
<1>7. levels' = lv2 /\ lookup' = [lookup EXCEPT ![IdOf[t]] = NoTask] /\ answer' = <<t>>
  BY <1>1, <1>4
<1>8. /\ 1 \in 1..Len(Line) /\ Line[1] = t /\ t \in Task
      /\ lv2 \in [Levels -> Seq(Task)] /\ Served(lv2)[0] = S /\ Ranked(lv2, prio)
      /\ S = RemoveIndex(Line, 1) /\ S \in Seq(Task) /\ Len(S) = Len(Line) - 1
      /\ Agree(S, [lookup EXCEPT ![IdOf[t]] = NoTask])
  <2> HIDE DEF n, lv2, S
  <2> QED BY <1>5, <1>6 DEF TakenOut
<1> HIDE DEF n, t, lv2, S, w
<1>9. Line' = Served(levels')[0]
  BY DEF Line
<1>10. Line' = S
  BY <1>7, <1>8, <1>9
<1>11. PL!Serve(1)
  <2>1. Cut(Line, 1) = <<t>> /\ Rest(Line, 1) = S
    BY <1>3, <1>8, CutOne
  <2>2. PL!Front(1) = <<t>> /\ SubSeq(Line, Len(PL!Front(1)) + 1, Len(Line)) = S
    BY <2>1, FrontIs
  <2> QED BY <1>2, <1>7, <1>10, <2>2 DEF PL!Serve
<1>12. Agree(Line', lookup') /\ Ranked(levels', prio')
  BY <1>2, <1>7, <1>8, <1>10
<1>13. SizeMatches'
  <2>1. size + dequeueCount <= enqueueCount /\ size \in Nat /\ dequeueCount \in Nat /\ enqueueCount \in Nat
    BY DEF IInv, SizeMatches, TypeOK
  <2>2. size' = Len(Line')
    BY <1>2, <1>3, <1>8, <1>10
  <2>3. size' <= Capacity /\ size' + dequeueCount' <= enqueueCount'
    BY <1>2, <1>3, <2>1, CapacityAssumption
  <2> QED BY <2>2, <2>3 DEF SizeMatches
<1>14. TypeOK'
  <2>1. levels' \in [Levels -> Seq(Task)] /\ answer' \in Seq(Task)
    BY <1>7, <1>8
  <2>2. lookup' \in [ID -> Task \cup {NoTask}]
    BY <1>3, <1>7, <1>8 DEF LookupType
  <2>3. size' \in Nat /\ enqueueCount' \in Nat /\ dequeueCount' \in Nat /\ prio' \in [Task -> Int]
    BY <1>2 DEF IInv, TypeOK
  <2> QED BY <2>1, <2>2, <2>3 DEF TypeOK
<1> QED BY <1>11, <1>12, <1>13, <1>14 DEF IInv, Agree, Ranked

\* A step that keeps everything but the answer keeps the invariant.
LEMMA AnswerStep ==
  ASSUME IInv, UNCHANGED <<levels, lookup, size, prio, enqueueCount, dequeueCount>>,
         answer' \in Seq(Task)
  PROVE  IInv' /\ Line' = Line
<1>1. Line' = Line
  BY DEF Line
<1>2. TypeOK' /\ SizeMatches'
  BY <1>1 DEF IInv, TypeOK, SizeMatches
<1>3. Agree(Line, lookup)' /\ Ranked(levels, prio)'
  BY <1>1 DEF IInv, Agree, Ranked
<1> QED BY <1>1, <1>2, <1>3 DEF IInv

\* The front of no task is empty.
LEMMA FrontEmpty ==
  ASSUME IInv, NEW n \in Int, n <= 0 \/ size = 0
  PROVE  PL!Front(n) = <<>>
<1>1. Line \in Seq(Task) /\ Len(Line) \in Nat /\ size = Len(Line)
  BY LineFacts DEF Basics
<1> DEFINE m == IF n < Len(Line) THEN n ELSE Len(Line)
<1>2. m \in Int /\ m < 1
  BY <1>1
<1>3. PL!Front(n) = SubSeq(Line, 1, m)
  BY DEF PL!Front
<1> HIDE DEF m
<1> QED BY <1>2, <1>3, SubSeqEmpty

\* Pop and PopBatch with nothing to return look at an empty front.
LEMMA PopEmptyStep ==
  ASSUME IInv, PopEmpty
  PROVE  IInv' /\ \E n \in BatchSizes \cup {1} : PL!Look(n)
<1>1. UNCHANGED <<levels, lookup, size, prio, enqueueCount, dequeueCount>> /\ answer' = <<>>
  BY DEF PopEmpty, counts
<1>2. IInv' /\ Line' = Line
  <2>1. answer' \in Seq(Task)
    BY <1>1
  <2> QED BY <1>1, <2>1, AnswerStep
<1>3. PICK n \in BatchSizes \cup {1} : n <= 0 \/ size = 0
  BY DEF PopEmpty
<1>4. n \in Int
  BY AskedAssumption
<1>5. PL!Front(n) = <<>>
  BY <1>3, <1>4, FrontEmpty
<1>6. PL!Look(n)
  BY <1>1, <1>2, <1>5 DEF PL!Look
<1> QED BY <1>2, <1>6

\* Peek and PeekBatch look at the front.
LEMMA PeekStep ==
  ASSUME IInv, NEW n \in BatchSizes \cup {1}, Peek(n)
  PROVE  IInv' /\ PL!Look(n)
<1>1. UNCHANGED <<levels, lookup, size, prio, enqueueCount, dequeueCount>>
      /\ answer' = IF n <= 0 THEN <<>> ELSE Collected(n)[0]
  BY DEF Peek, counts
<1>2. n \in Int /\ 0 \in Bounds
  BY AskedAssumption, CapacityAssumption DEF Bounds
<1>3. answer' = PL!Front(n) /\ answer' \in Seq(Task)
  <2>1. CASE n <= 0
    <3>1. PL!Front(n) = <<>>
      BY <1>2, <2>1, FrontEmpty
    <3> QED BY <1>1, <2>1, <3>1
  <2>2. CASE ~(n <= 0)
    <3>1. n \in Nat
      BY <1>2, <2>2
    <3>2. levels \in [Levels -> Seq(Task)] /\ Line \in Seq(Task) /\ Line = Served(levels)[0]
      BY LineFacts DEF Basics
    <3>3. Collected(n)[0] = Cut(Line, n)
      BY <1>2, <3>1, <3>2, CollectedIs
    <3>4. PL!Front(n) = Cut(Line, n)
      BY <3>1, FrontIs
    <3>5. CutFacts(Line, n)
      BY <3>1, <3>2, CutIs
    <3>6. Cut(Line, n) \in Seq(Task)
      BY <3>5 DEF CutFacts
    <3> QED BY <1>1, <2>2, <3>3, <3>4, <3>6
  <2> QED BY <2>1, <2>2
<1>4. IInv' /\ Line' = Line
  BY <1>1, <1>3, AnswerStep
<1> QED BY <1>1, <1>3, <1>4 DEF PL!Look

\* PopBatch serves the first n of the line.
LEMMA PopBatchStep ==
  ASSUME IInv, NEW n \in BatchSizes, PopBatch(n)
  PROVE  IInv' /\ PL!Serve(n)
<1> DEFINE b == Collected(n)
           w == Served(levels)
           ids == {IdOf[b[0][i]] : i \in 1..Len(b[0])}
           taken(p) == Len(b[p]) - Len(b[p + 1])
           lv2 == [p \in Levels |-> Rest(levels[p], n - Took(w[p + 1], n))]
<1>1. /\ n > 0 /\ answer' = b[0]
      /\ levels' = [p \in Levels |-> SubSeq(levels[p], taken(p) + 1, Len(levels[p]))]
      /\ lookup' = [id \in ID |-> IF id \in ids THEN NoTask ELSE lookup[id]]
      /\ size' = size - Len(b[0]) /\ dequeueCount' = dequeueCount + Len(b[0])
      /\ prio' = prio /\ enqueueCount' = enqueueCount
  BY DEF PopBatch
<1>2. n \in Nat
  BY <1>1, AskedAssumption
<1>3. /\ Line \in Seq(Task) /\ Len(Line) \in Nat /\ Line = w[0]
      /\ levels \in [Levels -> Seq(Task)] /\ prio \in [Task -> Int] /\ LookupType(lookup)
      /\ Agree(Line, lookup) /\ Ranked(levels, prio) /\ size = Len(Line) /\ size <= Capacity
  BY LineFacts DEF Basics
<1>4. \A p \in Bounds : b[p] = Cut(w[p], n)
  BY <1>2, <1>3, CollectedIs
<1>5. levels' = lv2
  <2>1. ASSUME NEW p \in Levels
        PROVE  SubSeq(levels[p], taken(p) + 1, Len(levels[p])) = Rest(levels[p], n - Took(w[p + 1], n))
    <3>1. p \in Bounds /\ p + 1 \in Bounds
      BY CapacityAssumption DEF Bounds, Levels
    <3>2. StepFacts(levels, p, w) /\ ServedEqs(levels, w)
      BY <1>3, ServedStep, ServedDef
    <3>3. w[p] = w[p + 1] \o levels[p] /\ w[p] \in Seq(Task) /\ w[p + 1] \in Seq(Task)
          /\ levels[p] \in Seq(Task)
      BY <3>2 DEF StepFacts, ServedEqs
    <3> HIDE DEF w, b
    <3>4. CutFacts(w[p], n)
      BY <1>2, <3>3, CutIs
    <3>5. CutFacts(w[p + 1], n)
      BY <1>2, <3>3, CutIs
    <3>6. Len(b[p]) = Took(w[p], n) /\ Len(b[p + 1]) = Took(w[p + 1], n)
      BY <1>4, <3>1, <3>4, <3>5 DEF CutFacts
    <3>7. TookFacts(w[p + 1], levels[p], n)
      BY <1>2, <3>3, TookJoin
    <3>8. Took(w[p], n) = Took(w[p + 1], n) + Took(levels[p], n - Took(w[p + 1], n))
          /\ n - Took(w[p + 1], n) \in Nat
      BY <3>3, <3>7 DEF TookFacts
    <3>9. Took(w[p + 1], n) \in Nat
      <4>1. Took(w[p + 1], n) \in 0..Len(w[p + 1]) /\ Len(w[p + 1]) \in Nat
        BY <3>3, <3>5, LenProperties DEF CutFacts
      <4> QED BY <4>1
    <3>10. CutFacts(levels[p], n - Took(w[p + 1], n))
      BY <3>3, <3>8, CutIs
    <3>11. Took(levels[p], n - Took(w[p + 1], n)) \in Int
      <4>1. Took(levels[p], n - Took(w[p + 1], n)) \in 0..Len(levels[p]) /\ Len(levels[p]) \in Nat
        BY <3>3, <3>10, LenProperties DEF CutFacts
      <4> QED BY <4>1
    <3>12. taken(p) = Took(levels[p], n - Took(w[p + 1], n))
      <4> DEFINE x == Took(w[p + 1], n)
                 y == Took(levels[p], n - x)
      <4>1. x \in Nat /\ y \in Int /\ taken(p) = (x + y) - x
        BY <3>6, <3>8, <3>9, <3>11
      <4> HIDE DEF x, y
      <4>2. (x + y) - x = y
        BY <4>1
      <4> QED BY <4>1, <4>2 DEF x, y
    <3> QED BY <3>12 DEF Rest, Took
  <2> HIDE DEF taken, w
  <2> QED BY <1>1, <2>1
<1>6. b[0] = Cut(Line, n)
  <2>1. 0 \in Bounds
    BY CapacityAssumption DEF Bounds
  <2> QED BY <1>3, <1>4, <2>1
<1>7. lv2 \in [Levels -> Seq(Task)] /\ Served(lv2)[0] = Rest(Line, n)
  <2>1. lv2 = [p \in Levels |-> Rest(levels[p], n - Took(Served(levels)[p + 1], n))]
    OBVIOUS
  <2> HIDE DEF lv2
  <2>2. lv2 \in [Levels -> Seq(Task)] /\ Served(lv2)[0] = Rest(Served(levels)[0], n)
    BY <1>2, <1>3, <2>1, LevelRest
  <2> QED BY <1>3, <2>2
<1>8. Ranked(lv2, prio)
  <2>1. lv2 = [p \in Levels |-> Rest(levels[p], n - Took(Served(levels)[p + 1], n))]
    OBVIOUS
  <2> HIDE DEF lv2
  <2> QED BY <1>2, <1>3, <2>1, RankedRest
<1> HIDE DEF lv2, w, taken
<1>9. Line' = Served(levels')[0]
  BY DEF Line
<1>10. Line' = Rest(Line, n)
  BY <1>5, <1>7, <1>9
<1>11. ids = {IdOf[Cut(Line, n)[i]] : i \in 1..Len(Cut(Line, n))}
  BY <1>6
<1> HIDE DEF ids, b
<1>12. PL!Serve(n)
  <2>1. PL!Front(n) = Cut(Line, n)
        /\ SubSeq(Line, Len(PL!Front(n)) + 1, Len(Line)) = Rest(Line, n)
    BY <1>2, FrontIs
  <2> QED BY <1>1, <1>6, <1>10, <2>1 DEF PL!Serve
<1>13. Agree(Line', lookup') /\ Ranked(levels', prio')
  <2>1. Agree(Rest(Line, n), [id \in ID |-> IF id \in ids THEN NoTask ELSE lookup[id]])
    <3>1. Line \in Seq(Task) /\ LookupType(lookup) /\ Agree(Line, lookup)
      BY <1>3
    <3> QED BY <1>2, <1>11, <3>1, AgreeRest
  <2> QED BY <1>1, <1>5, <1>8, <1>10, <2>1
<1>14. CutFacts(Line, n)
  BY <1>2, <1>3, CutIs
<1> DEFINE m == Took(Line, n)
<1>15. /\ Len(b[0]) = m /\ b[0] \in Seq(Task) /\ m \in 0..Len(Line) /\ Len(Line') = Len(Line) - m
  BY <1>6, <1>10, <1>14 DEF CutFacts
<1> HIDE DEF m
<1>16. SizeMatches'
  <2>1. size + dequeueCount <= enqueueCount /\ size \in Nat /\ dequeueCount \in Nat /\ enqueueCount \in Nat
    BY DEF IInv, SizeMatches, TypeOK
  <2>2. size' = Len(Line')
    BY <1>1, <1>3, <1>15
  <2>3. size' <= Capacity /\ size' + dequeueCount' <= enqueueCount'
    <3>1. size' = size - m /\ dequeueCount' = dequeueCount + m /\ enqueueCount' = enqueueCount
      BY <1>1, <1>15
    <3>2. m \in Nat /\ m <= size /\ size <= Capacity /\ Capacity \in Nat
      BY <1>3, <1>15, CapacityAssumption
    <3> QED BY <2>1, <3>1, <3>2
  <2> QED BY <2>2, <2>3 DEF SizeMatches
<1>17. TypeOK'
  <2>1. levels' \in [Levels -> Seq(Task)] /\ answer' \in Seq(Task)
    BY <1>1, <1>5, <1>7, <1>15
  <2>2. lookup' \in [ID -> Task \cup {NoTask}]
    BY <1>1, <1>3 DEF LookupType
  <2>3. dequeueCount \in Nat /\ enqueueCount \in Nat
    BY DEF IInv, TypeOK
  <2>4. size' \in Nat /\ enqueueCount' \in Nat /\ dequeueCount' \in Nat /\ prio' \in [Task -> Int]
    BY <1>1, <1>3, <1>15, <2>3
  <2> QED BY <2>1, <2>2, <2>4 DEF TypeOK
<1> QED BY <1>12, <1>13, <1>16, <1>17 DEF IInv, Agree, Ranked

Located(id, t) ==
  /\ t \in Task /\ IdOf[t] = id /\ prio[t] \in Levels /\ Places(id) # {}
  /\ \A i \in Places(id) : i \in 1..Len(levels[prio[t]]) /\ levels[prio[t]][i] = t

\* The search of Cancel and UpdatePriority finds the task that the index names, on the
\* one level that they look at.
LEMMA SearchFinds ==
  ASSUME IInv, NEW id \in ID, lookup[id] # NoTask
  PROVE  Located(id, lookup[id])
<1> DEFINE t == lookup[id]
           w == Served(levels)
<1>1. /\ Line \in Seq(Task) /\ Len(Line) \in Nat /\ Line = w[0]
      /\ levels \in [Levels -> Seq(Task)] /\ prio \in [Task -> Int] /\ LookupType(lookup)
      /\ Agree(Line, lookup) /\ Ranked(levels, prio)
  BY LineFacts DEF Basics
<1>2. t \in Task /\ IdOf[t] = id /\ \E k \in 1..Len(Line) : Line[k] = t
  BY <1>1 DEF Agree, LookupType
<1>3. PICK k \in 1..Len(Line) : Line[k] = t
  BY <1>2
<1>4. 0 \in Bounds /\ k \in 1..Len(w[0])
  BY <1>1, CapacityAssumption DEF Bounds
<1>5. From(levels, w, 0, k)
  BY <1>1, <1>4, Origin
<1>6. PICK q \in Levels : \E i \in 1..Len(levels[q]) : k = Len(w[q + 1]) + i
  BY <1>5 DEF From
<1>7. PICK i \in 1..Len(levels[q]) : k = Len(w[q + 1]) + i
  BY <1>6
<1>8. levels[q][i] = t
  BY <1>1, <1>3, <1>7, Place
<1>9. prio[t] = q
  BY <1>1, <1>8 DEF Ranked
<1>10. Places(id) = {j \in 1..Len(levels[q]) : IdOf[levels[q][j]] = id}
  BY <1>9 DEF Places
<1>11. i \in Places(id)
  BY <1>2, <1>8, <1>10
<1>12. ASSUME NEW j \in Places(id) PROVE j \in 1..Len(levels[q]) /\ levels[q][j] = t
  <2>1. j \in 1..Len(levels[q]) /\ IdOf[levels[q][j]] = id
    BY <1>10
  <2> DEFINE n == Len(w[q + 1]) + j
  <2>2. n \in 1..Len(Line) /\ Line[n] = levels[q][j]
    BY <1>1, <2>1, Place
  <2> HIDE DEF n
  <2>3. lookup[IdOf[Line[n]]] = Line[n]
    BY <1>1, <2>2 DEF Agree
  <2> QED BY <2>1, <2>2, <2>3
<1> HIDE DEF t, w
<1>13. Located(id, t)
  BY <1>2, <1>9, <1>11, <1>12 DEF Located
<1> QED BY <1>13 DEF t

\* Cancel takes out of the line the task with the ID.
LEMMA CancelStep ==
  ASSUME IInv, NEW id \in ID, Cancel(id)
  PROVE  IInv' /\ PL!Leave(id)
<1> DEFINE t == lookup[id]
           p == prio[t]
<1>1. answer' = <<>> /\ prio' = prio /\ enqueueCount' = enqueueCount /\ dequeueCount' = dequeueCount
  BY DEF Cancel, counts
<1>2. CASE /\ t # NoTask
           /\ \E i \in Places(id) : levels' = [levels EXCEPT ![p] = RemoveIndex(@, i)]
           /\ lookup' = [lookup EXCEPT ![id] = NoTask]
           /\ size' = size - 1
  <2>1. Located(id, t)
    BY <1>2, SearchFinds
  <2>2. PICK i \in Places(id) : levels' = [levels EXCEPT ![p] = RemoveIndex(@, i)]
    BY <1>2
  <2>3. t \in Task /\ IdOf[t] = id /\ p \in Levels /\ i \in 1..Len(levels[p]) /\ levels[p][i] = t
    BY <2>1 DEF Located
  <2>4. /\ Line \in Seq(Task) /\ Len(Line) \in Nat /\ size = Len(Line) /\ size <= Capacity
        /\ LookupType(lookup)
    BY LineFacts DEF Basics
  <2> DEFINE n == Len(Served(levels)[p + 1]) + i
             lv2 == [levels EXCEPT ![p] = RemoveIndex(@, i)]
             S == RemoveIndex(Line, n)
  <2>5. TakenOut(p, i, n, lv2, S)
    BY <2>3, TakeOut
  <2>6. levels' = lv2
    BY <2>2
  <2> HIDE DEF n, lv2, S
  <2>7. /\ n \in 1..Len(Line) /\ Line[n] = t
        /\ lv2 \in [Levels -> Seq(Task)] /\ Served(lv2)[0] = S /\ Ranked(lv2, prio)
        /\ S = RemoveIndex(Line, n) /\ S \in Seq(Task) /\ Len(S) = Len(Line) - 1
        /\ Agree(S, [lookup EXCEPT ![id] = NoTask])
    BY <2>3, <2>5 DEF TakenOut
  <2> HIDE DEF p, t
  <2>8. Line' = Served(levels')[0]
    BY DEF Line
  <2>9. Line' = S
    BY <2>6, <2>7, <2>8
  <2>10. PL!Leave(id)
    <3>1. n \in PL!Spot(id)
      BY <2>3, <2>7 DEF PL!Spot
    <3>2. Line' = PL!Without(Line, n)
      BY <2>7, <2>9 DEF PL!Without, RemoveIndex
    <3> QED BY <1>1, <3>1, <3>2 DEF PL!Leave
  <2>11. Agree(Line', lookup') /\ Ranked(levels', prio')
    BY <1>1, <1>2, <2>6, <2>7, <2>9
  <2>12. size + dequeueCount <= enqueueCount /\ size \in Nat /\ dequeueCount \in Nat /\ enqueueCount \in Nat
    BY DEF IInv, SizeMatches, TypeOK
  <2>13. Len(Line) >= 1
    BY <2>4, <2>7
  <2>14. SizeMatches'
    <3>1. size' = Len(Line')
      BY <1>2, <2>4, <2>7, <2>9
    <3>2. size' <= Capacity /\ size' + dequeueCount' <= enqueueCount'
      BY <1>1, <1>2, <2>4, <2>12, CapacityAssumption
    <3> QED BY <3>1, <3>2 DEF SizeMatches
  <2>15. TypeOK'
    <3>1. levels' \in [Levels -> Seq(Task)] /\ answer' \in Seq(Task)
      BY <1>1, <2>6, <2>7
    <3>2. lookup' \in [ID -> Task \cup {NoTask}]
      BY <1>2, <2>4 DEF LookupType
    <3>3. size' \in Nat
      BY <1>2, <2>4, <2>13
    <3>4. enqueueCount' \in Nat /\ dequeueCount' \in Nat /\ prio' \in [Task -> Int]
      BY <1>1 DEF IInv, TypeOK
    <3> QED BY <3>1, <3>2, <3>3, <3>4 DEF TypeOK
  <2> QED BY <2>10, <2>11, <2>14, <2>15 DEF IInv, Agree, Ranked
<1>3. CASE /\ IF t = NoTask THEN TRUE ELSE Places(id) = {}
           /\ UNCHANGED <<levels, lookup, size>>
  <2>1. t = NoTask
    <3>1. ASSUME t # NoTask PROVE FALSE
      <4>1. Located(id, t)
        BY <3>1, SearchFinds
      <4> QED BY <1>3, <3>1, <4>1 DEF Located
    <3> QED BY <3>1
  <2>2. PL!Spot(id) = {}
    BY <2>1, FreeId
  <2>3. answer' \in Seq(Task)
    BY <1>1
  <2>4. IInv' /\ Line' = Line
    BY <1>1, <1>3, <2>3, AnswerStep
  <2>5. PL!Leave(id)
    BY <1>1, <2>2, <2>4 DEF PL!Leave
  <2> QED BY <2>4, <2>5
<1> QED BY <1>2, <1>3 DEF Cancel

\* UpdatePriority moves the task with the ID behind everyone of its new level.
LEMMA UpdatePriorityStep ==
  ASSUME IInv, NEW id \in ID, NEW asked \in Asked, UpdatePriority(id, asked)
  PROVE  IInv' /\ PL!Move(id, asked)
<1> DEFINE t == lookup[id]
           p == prio[t]
           r == Normalize(asked)
<1>1. answer' = <<>> /\ lookup' = lookup /\ size' = size
      /\ enqueueCount' = enqueueCount /\ dequeueCount' = dequeueCount
  BY DEF UpdatePriority, counts
<1>2. r \in Levels /\ PL!Level(asked) = r
  BY AskedAssumption, NormalizeIs
<1>3. CASE /\ t # NoTask /\ p # r
           /\ \E i \in Places(id) : levels' = [levels EXCEPT ![p] = RemoveIndex(@, i),
                                                             ![r] = Append(@, t)]
           /\ prio' = [prio EXCEPT ![t] = r]
  <2>1. Located(id, t)
    BY <1>3, SearchFinds
  <2>2. PICK i \in Places(id) : levels' = [levels EXCEPT ![p] = RemoveIndex(@, i), ![r] = Append(@, t)]
    BY <1>3
  <2>3. t \in Task /\ IdOf[t] = id /\ p \in Levels /\ i \in 1..Len(levels[p]) /\ levels[p][i] = t
    BY <2>1 DEF Located
  <2>4. /\ Line \in Seq(Task) /\ Len(Line) \in Nat /\ size = Len(Line) /\ size <= Capacity
        /\ LookupType(lookup) /\ Agree(Line, lookup) /\ prio \in [Task -> Int]
    BY LineFacts DEF Basics
  <2> DEFINE n == Len(Served(levels)[p + 1]) + i
             lv2 == [levels EXCEPT ![p] = RemoveIndex(@, i)]
             lv3 == [lv2 EXCEPT ![r] = Append(@, t)]
             S == RemoveIndex(Line, n)
             k == Len(Served(lv2)[r])
  <2>5. TakenOut(p, i, n, lv2, S)
    BY <2>3, TakeOut
  <2>6. levels' = lv3
    <3>1. levels \in [Levels -> Seq(Task)] /\ p # r /\ p \in Levels /\ r \in Levels
      BY <1>2, <1>3, <2>3 DEF IInv, TypeOK
    <3>2. lv2[r] = levels[r]
      BY <3>1
    <3> HIDE DEF p, r, t
    <3> QED BY <2>2, <3>1, <3>2
  <2> HIDE DEF n, lv2, S, p, r, t
  <2>7. /\ n \in 1..Len(Line) /\ Line[n] = t
        /\ lv2 \in [Levels -> Seq(Task)] /\ Served(lv2)[0] = S /\ Ranked(lv2, prio)
        /\ S = RemoveIndex(Line, n) /\ S \in Seq(Task) /\ Len(S) = Len(Line) - 1
        /\ \A j \in 1..Len(S) : S[j] # t
    BY <2>3, <2>5 DEF TakenOut
  <2>8. lv3 \in [Levels -> Seq(Task)] /\ Served(lv3)[0] = Insert(Served(lv2)[0], k, t)
    <3>1. lv2 \in [Levels -> Seq(Task)] /\ r \in Levels /\ t \in Task
      BY <1>2, <2>3, <2>7
    <3> QED BY <3>1, LevelInsert
  <2>9. PL!Join(Served(lv2)[0], t, r) = Insert(Served(lv2)[0], k, t)
    <3>1. lv2 \in [Levels -> Seq(Task)] /\ Ranked(lv2, prio) /\ prio \in [Task -> Int]
      BY <2>4, <2>7
    <3> QED BY <1>2, <2>3, <3>1, JoinPlace
  <2>10. k \in 0..Len(S)
    <3>1. r \in Bounds
      BY <1>2, CapacityAssumption DEF Bounds, Levels
    <3>2. PrefixFacts(Served(lv2), r)
      BY <2>7, <3>1, Prefix
    <3>3. Len(S) \in Nat
      BY <2>7, LenProperties
    <3> QED BY <2>7, <3>2, <3>3 DEF PrefixFacts
  <2>11. Ranked(lv3, [prio EXCEPT ![t] = r])
    <3>1. \A q \in Levels : \A j \in 1..Len(lv2[q]) : lv2[q][j] # t
      BY <2>7, Absent
    <3>2. lv2 \in [Levels -> Seq(Task)] /\ Ranked(lv2, prio) /\ prio \in [Task -> Int]
      BY <2>4, <2>7
    <3> QED BY <1>2, <2>3, <3>1, <3>2, RankedInsert
  <2> HIDE DEF k, lv3
  <2>12. Line' = Served(levels')[0]
    BY DEF Line
  <2>13. Line' = Insert(S, k, t) /\ PL!Join(S, t, r) = Insert(S, k, t)
    BY <2>6, <2>7, <2>8, <2>9, <2>12
  <2>14. PL!Move(id, asked)
    <3>1. n \in PL!Spot(id)
      BY <2>3, <2>7 DEF PL!Spot
    <3>2. S = PL!Without(Line, n)
      BY <2>7 DEF PL!Without, RemoveIndex
    <3>3. Line' = PL!Join(PL!Without(Line, n), Line[n], PL!Level(asked))
      BY <1>2, <2>7, <2>13, <3>2
    <3>4. prio[Line[n]] # PL!Level(asked) /\ prio' = [prio EXCEPT ![Line[n]] = PL!Level(asked)]
      BY <1>2, <1>3, <2>7 DEF p
    <3> QED BY <1>1, <3>1, <3>3, <3>4 DEF PL!Move
  <2>15. Agree(Line', lookup')
    <3>1. Agree(Insert(RemoveIndex(Line, n), k, Line[n]), lookup)
      BY <2>4, <2>7, <2>10, AgreeMove
    <3> QED BY <1>1, <2>7, <2>13, <3>1
  <2>16. Ranked(levels', prio')
    BY <1>3, <2>6, <2>11
  <2>17. Len(Line') = Len(Line)
    <3>1. InsertFacts(S, k, t)
      BY <2>3, <2>7, <2>10, InsertIs
    <3>2. Len(Line') = Len(S) + 1
      BY <2>13, <3>1 DEF InsertFacts
    <3> QED BY <2>4, <2>7, <3>2
  <2>18. SizeMatches'
    BY <1>1, <2>17 DEF IInv, SizeMatches
  <2>19. TypeOK'
    <3>1. levels' \in [Levels -> Seq(Task)] /\ answer' \in Seq(Task)
      BY <1>1, <2>6, <2>8
    <3>2. prio' \in [Task -> Int]
      BY <1>2, <1>3, <2>3, <2>4, CapacityAssumption DEF Levels
    <3>3. lookup' \in [ID -> Task \cup {NoTask}] /\ size' \in Nat
          /\ enqueueCount' \in Nat /\ dequeueCount' \in Nat
      BY <1>1 DEF IInv, TypeOK
    <3> QED BY <3>1, <3>2, <3>3 DEF TypeOK
  <2> QED BY <2>14, <2>15, <2>16, <2>18, <2>19 DEF IInv, Agree, Ranked
<1>4. CASE /\ IF t = NoTask THEN TRUE ELSE p = r \/ Places(id) = {}
           /\ UNCHANGED <<levels, prio>>
  <2>1. answer' \in Seq(Task)
    BY <1>1
  <2>2. IInv' /\ Line' = Line
    BY <1>1, <1>4, <2>1, AnswerStep
  <2>3. ASSUME NEW k \in PL!Spot(id) PROVE prio[Line[k]] = PL!Level(asked)
    <3>1. Line[k] = t /\ t # NoTask
      BY FreeId
    <3>2. Located(id, t)
      BY <3>1, SearchFinds
    <3>3. p = r
      BY <1>4, <3>1, <3>2 DEF Located
    <3> QED BY <1>2, <3>1, <3>3
  <2>4. PL!Move(id, asked)
    BY <1>1, <1>4, <2>2, <2>3 DEF PL!Move
  <2> QED BY <2>2, <2>4
<1> QED BY <1>3, <1>4 DEF UpdatePriority

\* Empty levels form an empty line.
LEMMA EmptyLine ==
  ASSUME NEW lv, lv = [p \in Levels |-> <<>>]
  PROVE  lv \in [Levels -> Seq(Task)] /\ Served(lv)[0] = <<>>
<1>1. lv \in [Levels -> Seq(Task)]
  OBVIOUS
<1> DEFINE w == Served(lv)
<1>2. 0 \in Bounds
  BY CapacityAssumption DEF Bounds
<1>3. PrefixFacts(w, 0)
  BY <1>1, <1>2, Prefix
<1>4. w[0] \in Seq(Task) /\ Len(w[0]) \in Nat
  BY <1>3 DEF PrefixFacts
<1>5. ASSUME Len(w[0]) # 0 PROVE FALSE
  <2>1. 1 \in 1..Len(w[0])
    BY <1>4, <1>5
  <2>2. From(lv, w, 0, 1)
    BY <1>1, <1>2, <2>1, Origin
  <2>3. PICK q \in Levels : \E i \in 1..Len(lv[q]) : 1 = Len(w[q + 1]) + i
    BY <2>2 DEF From
  <2>4. Len(lv[q]) = 0
    OBVIOUS
  <2> QED BY <2>3, <2>4
<1>6. w[0] = <<>>
  BY <1>4, <1>5, EmptySeq
<1> QED BY <1>1, <1>6

\* An empty queue satisfies the invariant, whatever the tasks ask for.
LEMMA EmptyQueue ==
  ASSUME levels = [p \in Levels |-> <<>>], lookup = [id \in ID |-> NoTask]
  PROVE  Line = <<>> /\ Agree(Line, lookup) /\ Ranked(levels, prio)
<1>1. Line = <<>>
  BY EmptyLine DEF Line
<1>2. Agree(<<>>, lookup)
  BY DEF Agree
<1>3. Ranked(levels, prio)
  BY DEF Ranked
<1> QED BY <1>1, <1>2, <1>3

\* Clear empties the line.
LEMMA ClearStep ==
  ASSUME IInv, Clear
  PROVE  IInv' /\ PL!Empty
<1>1. /\ levels' = [p \in Levels |-> <<>>] /\ lookup' = [id \in ID |-> NoTask]
      /\ size' = 0 /\ answer' = <<>> /\ prio' = prio
      /\ enqueueCount' = enqueueCount /\ dequeueCount' = dequeueCount
  BY DEF Clear, counts
<1>2. Line' = Served(levels')[0]
  BY DEF Line
<1>3. levels' \in [Levels -> Seq(Task)] /\ Served(levels')[0] = <<>>
  BY <1>1, EmptyLine
<1>4. Line' = <<>>
  BY <1>2, <1>3
<1>5. Agree(<<>>, lookup')
  BY <1>1 DEF Agree
<1>6. Ranked(levels', prio')
  BY <1>1 DEF Ranked
<1>7. SizeMatches'
  <2>1. size + dequeueCount <= enqueueCount /\ size \in Nat /\ dequeueCount \in Nat /\ enqueueCount \in Nat
    BY DEF IInv, SizeMatches, TypeOK
  <2>2. size' = Len(Line')
    BY <1>1, <1>4
  <2>3. size' <= Capacity /\ size' + dequeueCount' <= enqueueCount'
    BY <1>1, <2>1, CapacityAssumption
  <2> QED BY <2>2, <2>3 DEF SizeMatches
<1>8. TypeOK'
  <2>1. lookup' \in [ID -> Task \cup {NoTask}] /\ answer' \in Seq(Task) /\ size' \in Nat
    BY <1>1
  <2>2. enqueueCount' \in Nat /\ dequeueCount' \in Nat /\ prio' \in [Task -> Int]
    BY <1>1 DEF IInv, TypeOK
  <2> QED BY <1>3, <2>1, <2>2 DEF TypeOK
<1>9. PL!Empty
  BY <1>1, <1>4 DEF PL!Empty
<1> QED BY <1>4, <1>5, <1>6, <1>7, <1>8, <1>9 DEF IInv, Agree, Ranked

\* The queue starts empty, and so does the line.
LEMMA InitHolds ==
  ASSUME Init
  PROVE  IInv /\ PL!LInit
<1>1. Line = <<>> /\ Agree(Line, lookup) /\ Ranked(levels, prio)
  BY EmptyQueue DEF Init
<1>2. TypeOK
  <2>1. levels \in [Levels -> Seq(Task)] /\ lookup \in [ID -> Task \cup {NoTask}]
        /\ answer \in Seq(Task)
    BY DEF Init
  <2>2. size \in Nat /\ enqueueCount \in Nat /\ dequeueCount \in Nat
    BY DEF Init
  <2>3. prio \in [Task -> Int]
    BY AskedAssumption DEF Init
  <2> QED BY <2>1, <2>2, <2>3 DEF TypeOK
<1>3. SizeMatches
  BY <1>1, CapacityAssumption DEF SizeMatches, Init
<1>4. PL!LInit
  BY <1>1 DEF Init, PL!LInit
<1> QED BY <1>1, <1>2, <1>3, <1>4 DEF IInv

\* Every step keeps the invariant and is a step of the line.
LEMMA NextHolds ==
  ASSUME IInv, [Next]_vars
  PROVE  IInv' /\ [PL!LNext]_(PL!lvars)
<1>1. ASSUME NEW t \in Task, Push(t) PROVE IInv' /\ PL!Push(t)
  BY <1>1, PushRejectedStep, PushAcceptedStep DEF Push
<1>2. CASE \E t \in Task : Push(t)
  BY <1>1, <1>2 DEF PL!LNext
<1>3. CASE Pop
  <2>1. IInv' /\ PL!Serve(1)
    BY <1>3, PopStep
  <2> QED BY <2>1 DEF PL!LNext
<1>4. CASE PopEmpty
  <2>1. IInv' /\ \E n \in BatchSizes \cup {1} : PL!Look(n)
    BY <1>4, PopEmptyStep
  <2> QED BY <2>1 DEF PL!LNext
<1>5. CASE \E n \in BatchSizes : PopBatch(n)
  <2>1. PICK n \in BatchSizes : PopBatch(n)
    BY <1>5
  <2>2. IInv' /\ PL!Serve(n)
    BY <2>1, PopBatchStep
  <2> QED BY <2>2 DEF PL!LNext
<1>6. CASE \E id \in ID : Cancel(id)
  <2>1. PICK id \in ID : Cancel(id)
    BY <1>6
  <2>2. IInv' /\ PL!Leave(id)
    BY <2>1, CancelStep
  <2>3. id \in PL!ID
    BY DEF ID, PL!ID
  <2> QED BY <2>2, <2>3 DEF PL!LNext
<1>7. CASE \E id \in ID, asked \in Asked : UpdatePriority(id, asked)
  <2>1. PICK id \in ID, asked \in Asked : UpdatePriority(id, asked)
    BY <1>7
  <2>2. IInv' /\ PL!Move(id, asked)
    BY <2>1, UpdatePriorityStep
  <2>3. id \in PL!ID
    BY DEF ID, PL!ID
  <2> QED BY <2>2, <2>3 DEF PL!LNext
<1>8. CASE \E n \in BatchSizes \cup {1} : Peek(n)
  <2>1. PICK n \in BatchSizes \cup {1} : Peek(n)
    BY <1>8
  <2>2. IInv' /\ PL!Look(n)
    BY <2>1, PeekStep
  <2> QED BY <2>2 DEF PL!LNext
<1>9. CASE Clear
  <2>1. IInv' /\ PL!Empty
    BY <1>9, ClearStep
  <2> QED BY <2>1 DEF PL!LNext
<1>10. CASE UNCHANGED vars
  <2>1. UNCHANGED <<levels, lookup, size, prio, enqueueCount, dequeueCount>> /\ answer' = answer
    BY <1>10 DEF vars
  <2>2. answer' \in Seq(Task)
    BY <2>1 DEF IInv, TypeOK
  <2>3. IInv' /\ Line' = Line
    BY <2>1, <2>2, AnswerStep
  <2> QED BY <2>1, <2>3 DEF PL!lvars
<1> QED BY <1>2, <1>3, <1>4, <1>5, <1>6, <1>7, <1>8, <1>9, <1>10 DEF Next

\* The invariant makes the three views of the queue agree.
LEMMA InvariantIndexes ==
  ASSUME IInv
  PROVE  IndexMatches
<1> SUFFICES ASSUME NEW t \in Task
             PROVE  IF lookup[IdOf[t]] = t
                    THEN \E i \in 1..Capacity : Spots(t) = {<<prio[t], i>>}
                    ELSE Spots(t) = {}
  BY DEF IndexMatches
<1> DEFINE w == Served(levels)
           id == IdOf[t]
<1>1. /\ Line \in Seq(Task) /\ Len(Line) \in Nat /\ Line = w[0]
      /\ levels \in [Levels -> Seq(Task)] /\ prio \in [Task -> Int]
      /\ Agree(Line, lookup) /\ Ranked(levels, prio) /\ Len(Line) <= Capacity
  BY LineFacts DEF Basics
<1>2. id \in ID
  BY DEF ID
<1>3. ASSUME NEW s \in Spots(t)
      PROVE  /\ s = <<s[1], s[2]>> /\ s[1] \in Levels /\ s[2] \in 1..Len(levels[s[1]])
             /\ levels[s[1]][s[2]] = t /\ prio[t] = s[1] /\ lookup[id] = t
             /\ Len(w[s[1] + 1]) + s[2] \in 1..Len(Line)
             /\ Line[Len(w[s[1] + 1]) + s[2]] = t
  <2>1. /\ s \in Levels \X (1..Capacity) /\ s[2] <= Len(levels[s[1]]) /\ levels[s[1]][s[2]] = t
    BY DEF Spots
  <2>2. s = <<s[1], s[2]>> /\ s[1] \in Levels /\ s[2] \in 1..Capacity
    BY <2>1
  <2> DEFINE p == s[1]
             i == s[2]
  <2>3. levels[p] \in Seq(Task) /\ Len(levels[p]) \in Nat
    BY <1>1, <2>2, LenProperties
  <2>4. i \in 1..Len(levels[p]) /\ levels[p][i] = t /\ p \in Levels
    BY <2>1, <2>2, <2>3, CapacityAssumption
  <2> HIDE DEF p, i
  <2>5. prio[t] = p
    BY <1>1, <2>4 DEF Ranked
  <2> DEFINE n == Len(w[p + 1]) + i
  <2>6. n \in 1..Len(Line) /\ Line[n] = t
    BY <1>1, <2>4, Place
  <2>7. lookup[id] = t
    <3> HIDE DEF n
    <3> QED BY <1>1, <2>6 DEF Agree
  <2> QED BY <2>2, <2>4, <2>5, <2>6, <2>7 DEF p, i
<1>4. CASE lookup[id] = t
  <2>1. lookup[id] # NoTask
    BY <1>4, TaskAssumption
  <2>2. Located(id, t)
    BY <1>2, <1>4, <2>1, SearchFinds
  <2>3. PICK i \in Places(id) : i \in 1..Len(levels[prio[t]]) /\ levels[prio[t]][i] = t
    BY <2>2 DEF Located
  <2> DEFINE p == prio[t]
  <2>4. p \in Levels
    BY <2>2 DEF Located
  <2>5. i \in 1..Capacity
    <3>1. p \in Bounds
      BY <2>4, CapacityAssumption DEF Bounds, Levels
    <3>2. StepFacts(levels, p, w) /\ PrefixFacts(w, p)
      BY <1>1, <2>4, <3>1, ServedStep, Prefix
    <3>3. Len(levels[p]) <= Len(Line) /\ Len(levels[p]) \in Nat
      <4> HIDE DEF w, p
      <4>1. /\ Len(w[p]) \in Nat /\ Len(w[p + 1]) \in Nat /\ Len(levels[p]) \in Nat
            /\ Len(w[p]) = Len(w[p + 1]) + Len(levels[p])
        BY <3>2 DEF StepFacts
      <4>2. Len(w[p]) <= Len(w[0])
        BY <3>2 DEF PrefixFacts
      <4>3. Len(w[0]) = Len(Line) /\ Len(Line) \in Nat
        BY <1>1
      <4>4. \A a, b, c, d \in Nat : a = b + c /\ a <= d => c <= d
        OBVIOUS
      <4> QED BY <4>1, <4>2, <4>3, <4>4, Zenon
    <3> QED BY <1>1, <2>3, <3>3, CapacityAssumption
  <2>6. <<p, i>> \in Spots(t)
    <3>1. <<p, i>> \in Levels \X (1..Capacity)
      BY <2>4, <2>5
    <3>2. i <= Len(levels[p])
      <4>1. Len(levels[p]) \in Nat
        BY <1>1, <2>4, LenProperties
      <4> QED BY <2>3, <4>1
    <3> QED BY <2>3, <3>1, <3>2 DEF Spots
  <2>7. ASSUME NEW s \in Spots(t) PROVE s = <<p, i>>
    <3> DEFINE j == s[2]
    <3>1. s = <<p, j>> /\ j \in 1..Len(levels[p])
          /\ Len(w[p + 1]) + j \in 1..Len(Line) /\ Line[Len(w[p + 1]) + j] = t
      BY <1>3
    <3>2. Len(w[p + 1]) + i \in 1..Len(Line) /\ Line[Len(w[p + 1]) + i] = t
      BY <1>3, <2>6
    <3> HIDE DEF j, p
    <3>3. Len(w[p + 1]) + i = Len(w[p + 1]) + j
      BY <1>1, <3>1, <3>2 DEF Agree
    <3>4. p + 1 \in Bounds
      BY <2>4, CapacityAssumption DEF Bounds, Levels
    <3>5. PrefixFacts(w, p + 1)
      BY <1>1, <3>4, Prefix
    <3>6. Len(w[p + 1]) \in Nat
      BY <3>5 DEF PrefixFacts
    <3> HIDE DEF w
    <3>7. i = j
      BY <2>3, <3>1, <3>3, <3>6
    <3> QED BY <3>1, <3>7
  <2>8. Spots(t) = {<<p, i>>}
    BY <2>6, <2>7
  <2> QED BY <1>4, <2>5, <2>8
<1>5. CASE lookup[id] # t
  BY <1>3, <1>5
<1> QED BY <1>4, <1>5

\* The lists, the index, the Priority fields and the size counter agree after every
\* sequence of Push, Pop, PopBatch, Cancel, UpdatePriority, Peek and Clear.
THEOREM QueueConsistentThm == Spec => []QueueConsistent
<1>1. Init => IInv
  BY InitHolds
<1>2. IInv /\ [Next]_vars => IInv'
  BY NextHolds
<1>3. IInv => QueueConsistent
  BY InvariantIndexes DEF IInv, QueueConsistent
<1> QED BY <1>1, <1>2, <1>3, PTL DEF Spec

\* The lists of the levels with their index implement one priority line: highest level
\* first, oldest first, a moved task last, a batch as single pops.
THEOREM ImplementsPriorityLineThm == Spec => ImplementsPriorityLine
<1>1. Init => IInv /\ PL!LInit
  BY InitHolds
<1>2. IInv /\ [Next]_vars => IInv'
  BY NextHolds
<1>3. IInv /\ [Next]_vars => [PL!LNext]_(PL!lvars)
  BY NextHolds
<1> QED BY <1>1, <1>2, <1>3, PTL DEF Spec, ImplementsPriorityLine, PL!LSpec
==============================================================================
