---------------------------- MODULE DateSort_proofs ----------------------------
(***************************************************************************)
(* Facts about numbers and sequences, and proofs about DateSort: for every *)
(* list of messages, the insertions give the list ordered by date,         *)
(* messages of one time in reversed order.                                 *)
(***************************************************************************)
EXTENDS DateSort, SequenceTheorems, FunctionTheorems, FiniteSetTheorems,
        WellFoundedInduction, TLAPS

-----------------------------------------------------------------------------
(* Numbers. *)

\* A set of natural numbers has a least element.
LEMMA LeastOfSet ==
  ASSUME NEW T, T \subseteq Nat, T # {}
  PROVE  \E n \in T : \A m \in T : n <= m
<1>1. \E n \in T : \A m \in T : ~(<< m, n >> \in OpToRel(<, Nat))
  BY NatLessThanWellFounded, WFMin, Zenon
<1>2. ASSUME NEW m \in Nat, NEW n \in Nat, m < n
      PROVE  << m, n >> \in OpToRel(<, Nat)
  BY <1>2, Zenon DEF OpToRel
<1>3. \E n \in T : \A m \in T : ~(m < n)
  BY <1>1, <1>2, Zenon
<1> QED
  BY <1>3

\* A set that holds 0, and with each number the next one, holds them all.
LEMMA InductionOverSet ==
  ASSUME NEW T, 0 \in T, \A n \in Nat : n \in T => n + 1 \in T
  PROVE  \A n \in Nat : n \in T
<1> SUFFICES ASSUME NEW x \in Nat, x \notin T PROVE FALSE
  OBVIOUS
<1> DEFINE Out == Nat \ T
<1>1. PICK n \in Out : \A m \in Out : n <= m
  BY LeastOfSet
<1>2. n # 0 /\ n - 1 \in Nat
  BY <1>1
<1>3. n - 1 \in T
  BY <1>1, <1>2
<1> QED
  BY <1>1, <1>2, <1>3

\* What the first of a row of values has, and each next one if the one before it
\* has it, they all have.
LEMMA InductionOverRow ==
  ASSUME NEW T, NEW n \in Nat, NEW row, row[0] \in T,
         \A m \in 1 .. n : row[m - 1] \in T => row[m] \in T
  PROVE  \A m \in 0 .. n : row[m] \in T
<1> DEFINE Good == {m \in Nat : m <= n => row[m] \in T}
<1>1. 0 \in Good
  OBVIOUS
<1>2. ASSUME NEW m \in Nat, m \in Good PROVE m + 1 \in Good
  <2> SUFFICES ASSUME m + 1 <= n PROVE row[m + 1] \in T
    OBVIOUS
  <2>1. row[m] \in T /\ m + 1 \in 1 .. n /\ (m + 1) - 1 = m
    BY <1>2
  <2> QED
    BY <2>1
<1>3. \A m \in Nat : m \in Good
  <2> HIDE DEF Good
  <2> QED
    BY <1>1, <1>2, InductionOverSet
<1> QED
  BY <1>3

\* A row of values of T, and a step from each of them to the next.
IsRow(row, T, n, base, step) ==
  /\ row \in [0 .. n -> T] /\ row[0] = base
  /\ \A m \in 1 .. n : row[m] = step[m][row[m - 1]]

StepsIn(T, n, step) == \A m \in 1 .. n : \A t \in T : step[m][t] \in T

\* A row can be defined by its first value and the steps.
LEMMA RowExists ==
  ASSUME NEW T, NEW n \in Nat, NEW base \in T, NEW step, StepsIn(T, n, step)
  PROVE  \E row : IsRow(row, T, n, base, step)
<1> DEFINE Row(m, row) == IsRow(row, T, m, base, step)
           Good == {m \in Nat : m <= n => \E row : Row(m, row)}
<1>0. \A m \in 1 .. n : \A t \in T : step[m][t] \in T
  BY DEF StepsIn
<1>1. 0 \in Good
  <2> DEFINE one == [m \in 0 .. 0 |-> base]
  <2>1. Row(0, one)
    BY DEF IsRow
  <2> QED
    BY <2>1
<1>2. ASSUME NEW m \in Nat, m \in Good PROVE m + 1 \in Good
  <2> SUFFICES ASSUME m + 1 <= n PROVE \E row : Row(m + 1, row)
    OBVIOUS
  <2>0. PICK row : Row(m, row)
    BY <1>2
  <2>1. /\ row \in [0 .. m -> T] /\ row[0] = base
        /\ \A j \in 1 .. m : row[j] = step[j][row[j - 1]]
    BY <2>0 DEF IsRow
  <2> DEFINE new == step[m + 1][row[m]]
             longer == [j \in 0 .. m + 1 |-> IF j <= m THEN row[j] ELSE new]
  <2>2. new \in T
    BY <2>1, <1>0
  <2>3. longer \in [0 .. m + 1 -> T] /\ longer[m + 1] = new
    BY <2>1, <2>2
  <2>4. \A j \in 0 .. m : longer[j] = row[j]
    OBVIOUS
  <2> HIDE DEF longer
  <2>5. ASSUME NEW j \in 1 .. m + 1 PROVE longer[j] = step[j][longer[j - 1]]
    <3>1. CASE j = m + 1
      <4>1. longer[j - 1] = row[m]
        BY <2>4, <3>1
      <4> QED
        BY <2>3, <3>1, <4>1
    <3>2. CASE j # m + 1
      <4>1. j \in 1 .. m /\ j \in 0 .. m /\ j - 1 \in 0 .. m
        BY <3>2
      <4> QED
        BY <2>1, <2>4, <4>1
    <3> QED
      BY <3>1, <3>2
  <2>6. longer[0] = base
    BY <2>1, <2>4
  <2>7. Row(m + 1, longer)
    BY <2>3, <2>5, <2>6 DEF IsRow
  <2> QED
    BY <2>7
<1>3. \A m \in Nat : m \in Good
  <2> HIDE DEF Good
  <2> QED
    BY <1>1, <1>2, InductionOverSet
<1> QED
  BY <1>3

-----------------------------------------------------------------------------
(* Sequences. *)

\* What is left of a sequence when its k-th element is removed: the elements
\* before it, and those behind it one place earlier (memmove, purgearea.c:116).
LEMMA RemoveAtProperties ==
  ASSUME NEW S, NEW s \in Seq(S), NEW k \in 1 .. Len(s)
  PROVE  /\ RemoveAt(s, k) \in Seq(S)
         /\ Len(RemoveAt(s, k)) = Len(s) - 1
         /\ \A j \in 1 .. Len(s) - 1 :
               RemoveAt(s, k)[j] = IF j < k THEN s[j] ELSE s[j + 1]
<1> DEFINE left == SubSeq(s, 1, k - 1)
           right == SubSeq(s, k + 1, Len(s))
<1>0. Len(s) \in Nat /\ \A j \in 1 .. Len(s) : s[j] \in S
  BY LenProperties, ElementOfSeq
<1>1. /\ left \in Seq(S)
      /\ Len(left) = k - 1
      /\ \A j \in 1 .. k - 1 : left[j] = s[j]
  <2>1. \A j \in 1 .. k - 1 : s[j] \in S
    BY <1>0
  <2>2. k - 1 \in Int
    BY <1>0
  <2>3. /\ left \in Seq(S)
        /\ Len(left) = IF 1 <= k - 1 THEN k - 1 - 1 + 1 ELSE 0
        /\ \A j \in 1 .. (k - 1) - 1 + 1 : left[j] = s[1 + j - 1]
    BY <2>1, <2>2, SubSeqProperties
  <2> QED
    BY <2>3, <1>0
<1>2. /\ right \in Seq(S)
      /\ Len(right) = Len(s) - k
      /\ \A j \in 1 .. Len(s) - k : right[j] = s[k + j]
  <2>1. \A j \in k + 1 .. Len(s) : s[j] \in S
    BY <1>0
  <2>2. k + 1 \in Int /\ Len(s) \in Int
    BY <1>0
  <2>3. /\ right \in Seq(S)
        /\ Len(right) = IF k + 1 <= Len(s) THEN Len(s) - (k + 1) + 1 ELSE 0
        /\ \A j \in 1 .. Len(s) - (k + 1) + 1 : right[j] = s[k + 1 + j - 1]
    BY <2>1, <2>2, SubSeqProperties
  <2> QED
    BY <2>3, <1>0
<1> HIDE DEF left, right
<1>3. /\ left \o right \in Seq(S)
      /\ Len(left \o right) = Len(left) + Len(right)
      /\ \A j \in 1 .. Len(left) + Len(right) :
            (left \o right)[j] = IF j <= Len(left) THEN left[j]
                                 ELSE right[j - Len(left)]
  BY <1>1, <1>2, ConcatProperties
<1>4. Len(left) + Len(right) = Len(s) - 1
  BY <1>0, <1>1, <1>2
<1>5. ASSUME NEW j \in 1 .. Len(s) - 1
      PROVE  (left \o right)[j] = IF j < k THEN s[j] ELSE s[j + 1]
  <2>1. CASE j < k
    <3>1. j \in 1 .. k - 1 /\ j <= Len(left)
      BY <2>1, <1>0, <1>1
    <3>2. (left \o right)[j] = left[j]
      BY <3>1, <1>0, <1>3, <1>4
    <3> QED
      BY <2>1, <3>1, <3>2, <1>1
  <2>2. CASE ~(j < k)
    <3>1. j - Len(left) \in 1 .. Len(s) - k /\ ~(j <= Len(left))
      BY <2>2, <1>0, <1>1
    <3>2. (left \o right)[j] = right[j - Len(left)]
      BY <3>1, <1>0, <1>3, <1>4
    <3>3. right[j - Len(left)] = s[k + (j - Len(left))]
      BY <3>1, <1>2
    <3>4. k + (j - Len(left)) = j + 1
      BY <1>0, <1>1
    <3> QED
      BY <2>2, <3>2, <3>3, <3>4
  <2> QED
    BY <2>1, <2>2
<1> QED
  BY <1>3, <1>4, <1>5 DEF RemoveAt, left, right

\* A list of all the elements of a set, each of them once.
LEMMA ListOfSet ==
  ASSUME NEW S, IsFiniteSet(S), NEW s \in SetToSeqs(S)
  PROVE  /\ s \in Seq(S)
         /\ Len(s) = Cardinality(S)
         /\ \A j, k \in 1 .. Len(s) : s[j] = s[k] => j = k
         /\ \A x \in S : \E k \in 1 .. Len(s) : s[k] = x
<1> DEFINE n == Cardinality(S)
<1>1. n \in Nat
  BY FS_CardinalityType
<1>2. s \in [1 .. n -> S] /\ \A j, k \in 1 .. n : j # k => s[j] # s[k]
  BY DEF SetToSeqs
<1>3. s \in Seq(S) /\ Len(s) = n
  BY <1>1, <1>2
<1>4. s \in Injection(1 .. n, S)
  BY <1>2 DEF Injection, IsInjective
<1>5. Cardinality(1 .. n) = n
  BY <1>1, FS_Interval
<1>6. s \in Surjection(1 .. n, S)
  BY <1>4, <1>5, FS_Injection
<1> QED
  BY <1>2, <1>3, <1>6 DEF Surjection

\* What InsertAt makes of a list: the new element at its place, and what was at
\* this place and behind it one further.
LEMMA InsertAtProperties ==
  ASSUME NEW S, NEW s \in Seq(S), NEW k \in 1 .. Len(s) + 1, NEW e \in S
  PROVE  /\ InsertAt(s, k, e) \in Seq(S)
         /\ Len(InsertAt(s, k, e)) = Len(s) + 1
         /\ \A j \in 1 .. Len(s) + 1 :
               InsertAt(s, k, e)[j] = IF j < k THEN s[j]
                                      ELSE IF j = k THEN e ELSE s[j - 1]
<1> DEFINE front == SubSeq(s, 1, k - 1)
           back == SubSeq(s, k, Len(s))
           mid == << e >>
<1>0. Len(s) \in Nat /\ \A j \in 1 .. Len(s) : s[j] \in S
  BY LenProperties, ElementOfSeq
<1>1. /\ front \in Seq(S) /\ Len(front) = k - 1
      /\ \A j \in 1 .. k - 1 : front[j] = s[j]
  <2>1. k - 1 \in Int /\ \A j \in 1 .. k - 1 : s[j] \in S
    BY <1>0
  <2>2. /\ front \in Seq(S) /\ Len(front) = IF 1 <= k - 1 THEN k - 1 - 1 + 1 ELSE 0
        /\ \A j \in 1 .. (k - 1) - 1 + 1 : front[j] = s[1 + j - 1]
    BY <2>1, SubSeqProperties
  <2> QED
    BY <2>2, <1>0
<1>2. /\ back \in Seq(S) /\ Len(back) = Len(s) - k + 1
      /\ \A j \in 1 .. Len(s) - k + 1 : back[j] = s[k + j - 1]
  <2>1. k \in Int /\ Len(s) \in Int /\ \A j \in k .. Len(s) : s[j] \in S
    BY <1>0
  <2>2. /\ back \in Seq(S) /\ Len(back) = IF k <= Len(s) THEN Len(s) - k + 1 ELSE 0
        /\ \A j \in 1 .. Len(s) - k + 1 : back[j] = s[k + j - 1]
    BY <2>1, SubSeqProperties
  <2> QED
    BY <2>2, <1>0
<1>3. mid \in Seq(S) /\ Len(mid) = 1 /\ mid[1] = e
  OBVIOUS
<1> HIDE DEF front, back, mid
<1> DEFINE head == front \o mid
<1>4. /\ head \in Seq(S) /\ Len(head) = k
      /\ \A j \in 1 .. k : head[j] = IF j < k THEN s[j] ELSE e
  <2>1. /\ head \in Seq(S) /\ Len(head) = Len(front) + Len(mid)
        /\ \A j \in 1 .. Len(front) + Len(mid) :
              head[j] = IF j <= Len(front) THEN front[j] ELSE mid[j - Len(front)]
    BY <1>1, <1>3, ConcatProperties
  <2> HIDE DEF head
  <2> QED
    BY <2>1, <1>0, <1>1, <1>3
<1> HIDE DEF head
<1> DEFINE result == head \o back
<1>5. /\ result \in Seq(S) /\ Len(result) = Len(head) + Len(back)
      /\ \A j \in 1 .. Len(head) + Len(back) :
            result[j] = IF j <= Len(head) THEN head[j] ELSE back[j - Len(head)]
  BY <1>2, <1>4, ConcatProperties
<1>6. InsertAt(s, k, e) = result
  BY DEF InsertAt, front, mid, back, head
<1> HIDE DEF result
<1>7. Len(head) = k /\ Len(head) + Len(back) = Len(s) + 1
  BY <1>0, <1>2, <1>4
<1>8. ASSUME NEW j \in 1 .. Len(s) + 1
      PROVE  result[j] = IF j < k THEN s[j] ELSE IF j = k THEN e ELSE s[j - 1]
  <2>1. CASE j <= k
    <3>1. result[j] = head[j] /\ j \in 1 .. k
      BY <2>1, <1>0, <1>5, <1>7
    <3> QED
      BY <2>1, <3>1, <1>0, <1>4
  <2>2. CASE j > k
    <3>1. j - k \in 1 .. Len(s) - k + 1 /\ k + (j - k) - 1 = j - 1
      BY <2>2, <1>0
    <3>2. back[j - k] = s[j - 1]
      BY <3>1, <1>2
    <3>3. result[j] = back[j - k]
      BY <2>2, <1>0, <1>5, <1>7
    <3> QED
      BY <2>2, <3>2, <3>3, <1>0
  <2> QED
    BY <2>1, <2>2, <1>0
<1> QED
  BY <1>5, <1>6, <1>7, <1>8

\* The place of a new message: what is in front of it is older, and the message at
\* this place is not (AddSQSORT, AddJAMSORT).
LEMMA PlaceOfNewProperties ==
  ASSUME NEW S, \A m \in S : m.time \in Int,
         NEW list \in Seq(S), NEW new \in S
  PROVE  LET k == PlaceOfNew(list, new)
         IN  /\ k \in 1 .. Len(list) + 1
             /\ \A j \in 1 .. Len(list) : j < k => list[j].time < new.time
             /\ k <= Len(list) => new.time <= list[k].time
<1> DEFINE NotOlder == {j \in 1 .. Len(list) : new.time <= list[j].time}
           first == Min(NotOlder)
<1>0. Len(list) \in Nat /\ \A j \in 1 .. Len(list) : list[j] \in S
  BY LenProperties, ElementOfSeq
<1>1. PlaceOfNew(list, new) = LET k == IF NotOlder # {} THEN first ELSE 0
                              IN  IF k = 0 THEN Len(list) + 1 ELSE k
  BY DEF PlaceOfNew, SelectInSeq
<1>2. CASE NotOlder = {}
  <2>1. PlaceOfNew(list, new) = Len(list) + 1
    BY <1>1, <1>2
  <2>2. \A j \in 1 .. Len(list) : list[j].time < new.time
    BY <1>0, <1>2
  <2> QED
    BY <2>1, <2>2, <1>0
<1>3. CASE NotOlder # {}
  <2>1. \E n \in NotOlder : \A m \in NotOlder : n <= m
    <3>1. NotOlder \subseteq Nat
      BY <1>0
    <3> QED
      BY <3>1, <1>3, LeastOfSet
  <2>2. first \in NotOlder /\ \A m \in NotOlder : first <= m
    BY <2>1 DEF Min
  <2> HIDE DEF first
  <2>3. first \in 1 .. Len(list) /\ new.time <= list[first].time
    BY <2>2
  <2>4. PlaceOfNew(list, new) = first
    BY <1>1, <1>3, <2>3
  <2>5. ASSUME NEW j \in 1 .. Len(list), j < first PROVE list[j].time < new.time
    <3>1. j \notin NotOlder
      BY <2>2, <2>3, <2>5
    <3> QED
      BY <3>1, <1>0
  <2> QED
    BY <2>3, <2>4, <2>5, <1>0
<1> QED
  BY <1>2, <1>3

-----------------------------------------------------------------------------
(* The sort. *)

Earlier(msgs, p, q) ==
  msgs[p].time < msgs[q].time \/ (msgs[p].time = msgs[q].time /\ p > q)

\* The list holds the first n messages, message p at place at[p].
Arranged(list, msgs, n, at) ==
  /\ Len(list) = n
  /\ at \in [1 .. n -> 1 .. n]
  /\ \A j \in 1 .. n : \E p \in 1 .. n : at[p] = j
  /\ \A p \in 1 .. n : list[at[p]] = msgs[p]
  /\ \A p, q \in 1 .. n : at[p] < at[q] <=> Earlier(msgs, p, q)

LEMMA AddSORTArranged ==
  ASSUME NEW S, \A m \in S : m.time \in Int,
         NEW msgs \in Seq(S), NEW n \in Nat, n < Len(msgs),
         NEW list \in Seq(S), NEW at, Arranged(list, msgs, n, at)
  PROVE  /\ AddSORT(list, msgs[n + 1]) \in Seq(S)
         /\ \E at2 : Arranged(AddSORT(list, msgs[n + 1]), msgs, n + 1, at2)
<1> DEFINE new == msgs[n + 1]
           k == PlaceOfNew(list, new)
           list2 == AddSORT(list, new)
           at2 == [p \in 1 .. n + 1 |-> IF p = n + 1 THEN k
                                        ELSE IF at[p] < k THEN at[p] ELSE at[p] + 1]
<1>0. /\ \A p \in 1 .. Len(msgs) : msgs[p] \in S /\ msgs[p].time \in Int
      /\ Len(msgs) \in Nat /\ new \in S /\ n + 1 \in 1 .. Len(msgs)
      /\ \A p \in 1 .. n : p \in 1 .. Len(msgs)
  <2>1. Len(msgs) \in Nat /\ \A p \in 1 .. Len(msgs) : msgs[p] \in S
    BY LenProperties, ElementOfSeq
  <2> QED
    BY <2>1
<1>1. /\ Len(list) = n
      /\ \A p \in 1 .. n : at[p] \in 1 .. n /\ at[p] \in Int /\ list[at[p]] = msgs[p]
  BY DEF Arranged
<1>11. \A j \in 1 .. n : \E p \in 1 .. n : at[p] = j
  BY DEF Arranged
<1>12. \A p, q \in 1 .. n : at[p] < at[q] <=> Earlier(msgs, p, q)
  BY DEF Arranged
<1>2. /\ k \in 1 .. n + 1 /\ k \in Int
      /\ \A j \in 1 .. n : j < k => list[j].time < new.time
      /\ k <= n => new.time <= list[k].time
  <2>1. new \in S
    BY <1>0
  <2> HIDE DEF new
  <2>2. /\ k \in 1 .. Len(list) + 1
        /\ \A j \in 1 .. Len(list) : j < k => list[j].time < new.time
        /\ k <= Len(list) => new.time <= list[k].time
    BY <2>1, PlaceOfNewProperties
  <2> HIDE DEF k
  <2> QED
    BY <2>2, <1>1
<1>3. /\ list2 \in Seq(S) /\ Len(list2) = n + 1
      /\ \A j \in 1 .. n + 1 : list2[j] = IF j < k THEN list[j]
                                          ELSE IF j = k THEN new ELSE list[j - 1]
  <2>1. k \in 1 .. Len(list) + 1
    BY <1>1, <1>2
  <2> HIDE DEF k, new
  <2>2. /\ InsertAt(list, k, new) \in Seq(S) /\ Len(InsertAt(list, k, new)) = Len(list) + 1
        /\ \A j \in 1 .. Len(list) + 1 :
              InsertAt(list, k, new)[j] = IF j < k THEN list[j]
                                          ELSE IF j = k THEN new ELSE list[j - 1]
    BY <2>1, <1>0, InsertAtProperties
  <2>3. list2 = InsertAt(list, k, new)
    BY DEF AddSORT, k
  <2> QED
    BY <2>2, <2>3, <1>1
<1> HIDE DEF k, list2, new
\* What is behind the place of the new message is not older either.
<1>4. \A p \in 1 .. n : /\ at[p] < k => msgs[p].time < new.time
                        /\ at[p] >= k => new.time <= msgs[p].time
  <2> SUFFICES ASSUME NEW p \in 1 .. n
               PROVE  /\ at[p] < k => msgs[p].time < new.time
                      /\ at[p] >= k => new.time <= msgs[p].time
    OBVIOUS
  <2>1. at[p] < k => msgs[p].time < new.time
    BY <1>1, <1>2
  <2>2. ASSUME at[p] >= k PROVE new.time <= msgs[p].time
    <3>1. k \in 1 .. n
      BY <2>2, <1>1, <1>2
    <3>2. PICK q \in 1 .. n : at[q] = k
      BY <3>1, <1>11
    <3>3. new.time <= msgs[q].time
      BY <3>1, <3>2, <1>1, <1>2
    <3>4. /\ at[p] \in Int /\ at[q] \in Int /\ new.time \in Int
          /\ msgs[p].time \in Int /\ msgs[q].time \in Int
      BY <1>0, <1>1 DEF new
    <3>5. at[q] < at[p] => msgs[q].time <= msgs[p].time
      <4>1. at[q] < at[p] => Earlier(msgs, q, p)
        BY <1>12
      <4> QED
        BY <3>4, <4>1 DEF Earlier
    <3>6. at[q] = at[p] => msgs[q] = msgs[p]
      <4>1. msgs[q] = list[at[q]] /\ msgs[p] = list[at[p]]
        BY <1>1
      <4> QED
        BY <4>1
    <3> QED
      BY <2>2, <3>2, <3>3, <3>4, <3>5, <3>6
  <2> QED
    BY <2>1, <2>2
<1>5. /\ at2 \in [1 .. n + 1 -> 1 .. n + 1] /\ at2[n + 1] = k
      /\ \A p \in 1 .. n : at2[p] = IF at[p] < k THEN at[p] ELSE at[p] + 1
  <2>1. \A p \in 1 .. n : at[p] \in 1 .. n + 1 /\ at[p] + 1 \in 1 .. n + 1
    BY <1>1
  <2>2. \A p \in 1 .. n + 1 : p # n + 1 => p \in 1 .. n
    OBVIOUS
  <2>3. \A p \in 1 .. n + 1 : (IF p = n + 1 THEN k ELSE IF at[p] < k THEN at[p] ELSE at[p] + 1)
                                \in 1 .. n + 1
    BY <2>1, <2>2, <1>2
  <2>4. n + 1 \in 1 .. n + 1 /\ \A p \in 1 .. n : p \in 1 .. n + 1 /\ p # n + 1
    OBVIOUS
  <2> QED
    BY <2>3, <2>4
<1> HIDE DEF at2
\* The new places, case by case.
<1>51. ASSUME NEW p \in 1 .. n
       PROVE  /\ at[p] < k => at2[p] = at[p]
              /\ at[p] >= k => at2[p] = at[p] + 1
              /\ at[p] \in 1 .. n /\ k \in 1 .. n + 1 /\ p \in 1 .. n + 1
  <2>1. at[p] \in Int /\ k \in Int /\ at2[p] = IF at[p] < k THEN at[p] ELSE at[p] + 1
    BY <1>1, <1>2, <1>5
  <2> QED
    BY <2>1, <1>1, <1>2
<1>6. ASSUME NEW j \in 1 .. n + 1 PROVE \E p \in 1 .. n + 1 : at2[p] = j
  <2>1. CASE j = k
    BY <2>1, <1>5
  <2>2. CASE j < k
    <3>1. j \in 1 .. n
      BY <2>2, <1>2
    <3>2. PICK p \in 1 .. n : at[p] = j
      BY <3>1, <1>11
    <3> QED
      BY <2>2, <3>2, <1>51
  <2>3. CASE j > k
    <3>1. j - 1 \in 1 .. n
      BY <2>3, <1>2
    <3>2. PICK p \in 1 .. n : at[p] = j - 1
      BY <3>1, <1>11
    <3>3. at2[p] = j /\ p \in 1 .. n + 1
      BY <2>3, <3>2, <1>2, <1>51
    <3> QED
      BY <3>3
  <2> QED
    BY <2>1, <2>2, <2>3, <1>2
<1>7. ASSUME NEW p \in 1 .. n + 1 PROVE list2[at2[p]] = msgs[p]
  <2>1. CASE p = n + 1
    BY <2>1, <1>2, <1>3, <1>5 DEF new
  <2>2. CASE p \in 1 .. n
    <3>1. at[p] \in 1 .. n /\ list[at[p]] = msgs[p]
      BY <2>2, <1>1
    <3>2. CASE at[p] < k
      BY <2>2, <3>1, <3>2, <1>3, <1>5
    <3>3. CASE at[p] >= k
      <4>1. at2[p] = at[p] + 1 /\ at2[p] \in 1 .. n + 1 /\ at2[p] > k /\ at2[p] - 1 = at[p]
        BY <2>2, <3>1, <3>3, <1>51
      <4> QED
        BY <3>1, <4>1, <1>2, <1>3
    <3> QED
      BY <3>1, <3>2, <3>3, <1>2
  <2> QED
    BY <2>1, <2>2
<1>8. ASSUME NEW p \in 1 .. n + 1, NEW q \in 1 .. n + 1
      PROVE  at2[p] < at2[q] <=> Earlier(msgs, p, q)
  <2>1. CASE p \in 1 .. n /\ q \in 1 .. n
    <3>1. at2[p] < at2[q] <=> at[p] < at[q]
      BY <2>1, <1>51
    <3> QED
      BY <2>1, <3>1, <1>12
  <2>2. CASE p = n + 1 /\ q \in 1 .. n
    <3>1. at2[p] < at2[q] <=> at[q] >= k
      <4>1. at2[p] = k /\ at[q] \in 1 .. n /\ k \in Int
        BY <2>2, <1>5, <1>51
      <4>2. at2[q] = IF at[q] < k THEN at[q] ELSE at[q] + 1
        BY <2>2, <1>51
      <4> QED
        BY <4>1, <4>2
    <3>2. new.time \in Int /\ msgs[q].time \in Int /\ at[q] \in Int /\ k \in Int
      BY <2>2, <1>0, <1>1, <1>2 DEF new
    <3>3. at[q] >= k <=> new.time <= msgs[q].time
      BY <2>2, <3>2, <1>4
    <3> QED
      BY <2>2, <3>1, <3>2, <3>3 DEF Earlier, new
  <2>3. CASE p \in 1 .. n /\ q = n + 1
    <3>1. at2[p] < at2[q] <=> at[p] < k
      <4>1. at2[q] = k /\ at[p] \in 1 .. n /\ k \in Int
        BY <2>3, <1>5, <1>51
      <4>2. at2[p] = IF at[p] < k THEN at[p] ELSE at[p] + 1
        BY <2>3, <1>51
      <4> QED
        BY <4>1, <4>2
    <3>2. new.time \in Int /\ msgs[p].time \in Int /\ at[p] \in Int /\ k \in Int
      BY <2>3, <1>0, <1>1, <1>2 DEF new
    <3>3. at[p] < k <=> msgs[p].time < new.time
      BY <2>3, <3>2, <1>4
    <3> QED
      BY <2>3, <3>1, <3>2, <3>3 DEF Earlier, new
  <2>4. CASE p = n + 1 /\ q = n + 1
    BY <2>4, <1>0, <1>2, <1>5 DEF Earlier, new
  <2> QED
    BY <2>1, <2>2, <2>3, <2>4
<1>9. Arranged(list2, msgs, n + 1, at2)
  BY <1>3, <1>5, <1>6, <1>7, <1>8 DEF Arranged
<1> QED
  BY <1>3, <1>9 DEF list2, new

\* The lists that SortByDate goes through.
Lists(msgs, n, lists) ==
  lists = [m \in 0 .. n |-> IF m = 0 THEN << >> ELSE AddSORT(lists[m - 1], msgs[m])]

\* The recursive definition in SortByDate has a solution.
LEMMA ListsExist ==
  ASSUME NEW S, \A m \in S : m.time \in Int, NEW msgs \in Seq(S)
  PROVE  \E lists : Lists(msgs, Len(msgs), lists)
<1>0. Len(msgs) \in Nat /\ \A m \in 1 .. Len(msgs) : msgs[m] \in S
  BY LenProperties, ElementOfSeq
<1> DEFINE step == [m \in 1 .. Len(msgs) |-> [list \in Seq(S) |-> AddSORT(list, msgs[m])]]
<1>1. ASSUME NEW list \in Seq(S), NEW m \in 1 .. Len(msgs)
      PROVE  AddSORT(list, msgs[m]) \in Seq(S)
  <2>1. msgs[m] \in S
    BY <1>0
  <2>2. PlaceOfNew(list, msgs[m]) \in 1 .. Len(list) + 1
    BY <2>1, PlaceOfNewProperties
  <2> QED
    BY <2>1, <2>2, InsertAtProperties DEF AddSORT
<1>2. StepsIn(Seq(S), Len(msgs), step)
  BY <1>1 DEF StepsIn
<1>3. << >> \in Seq(S)
  OBVIOUS
<1> HIDE DEF step
<1>4. PICK lists \in [0 .. Len(msgs) -> Seq(S)] :
        lists[0] = << >> /\ \A m \in 1 .. Len(msgs) : lists[m] = step[m][lists[m - 1]]
  <2>1. \E row : IsRow(row, Seq(S), Len(msgs), << >>, step)
    BY <1>0, <1>2, <1>3, RowExists
  <2> QED
    BY <2>1 DEF IsRow
<1>5. \A m \in 1 .. Len(msgs) : step[m][lists[m - 1]] = AddSORT(lists[m - 1], msgs[m])
  <2>1. \A m \in 1 .. Len(msgs) : lists[m - 1] \in Seq(S)
    <3>1. \A m \in 1 .. Len(msgs) : m - 1 \in 0 .. Len(msgs)
      BY <1>0
    <3> QED
      BY <3>1
  <2> QED
    BY <2>1 DEF step
<1>6. \A m \in 0 .. Len(msgs) : m # 0 => m \in 1 .. Len(msgs)
  BY <1>0
<1>7. lists = [m \in 0 .. Len(msgs) |->
                 IF m = 0 THEN << >> ELSE AddSORT(lists[m - 1], msgs[m])]
  <2>1. \A m \in 0 .. Len(msgs) :
           lists[m] = IF m = 0 THEN << >> ELSE AddSORT(lists[m - 1], msgs[m])
    BY <1>4, <1>5, <1>6
  <2> QED
    BY <2>1
<1> QED
  BY <1>7 DEF Lists

\* After each insertion the list holds the messages up to there, in their order.
LEMMA ListsArranged ==
  ASSUME NEW S, \A m \in S : m.time \in Int,
         NEW msgs \in Seq(S), NEW lists, Lists(msgs, Len(msgs), lists)
  PROVE  \A n \in 0 .. Len(msgs) :
            lists[n] \in Seq(S) /\ \E at : Arranged(lists[n], msgs, n, at)
<1> DEFINE T == {n \in Nat : n <= Len(msgs) =>
                   lists[n] \in Seq(S) /\ \E at : Arranged(lists[n], msgs, n, at)}
<1>0. /\ Len(msgs) \in Nat
      /\ \A n \in 0 .. Len(msgs) :
            lists[n] = IF n = 0 THEN << >> ELSE AddSORT(lists[n - 1], msgs[n])
  BY LenProperties DEF Lists
<1>1. 0 \in T
  <2>1. lists[0] = << >> /\ << >> \in Seq(S) /\ Len(<< >>) = 0
    BY <1>0
  <2> DEFINE none == [p \in 1 .. 0 |-> p]
  <2>2. none \in [1 .. 0 -> 1 .. 0] /\ \A j \in 1 .. 0 : FALSE
    OBVIOUS
  <2>3. Arranged(lists[0], msgs, 0, none)
    BY <2>1, <2>2 DEF Arranged
  <2> QED
    BY <2>1, <2>3
<1>2. ASSUME NEW n \in Nat, n \in T PROVE n + 1 \in T
  <2> SUFFICES ASSUME n + 1 <= Len(msgs)
               PROVE  /\ lists[n + 1] \in Seq(S)
                      /\ \E at : Arranged(lists[n + 1], msgs, n + 1, at)
    OBVIOUS
  <2>1. n < Len(msgs) /\ lists[n] \in Seq(S)
    BY <1>0, <1>2
  <2>2. PICK at : Arranged(lists[n], msgs, n, at)
    BY <1>0, <1>2
  <2>3. n + 1 \in 0 .. Len(msgs) /\ n + 1 # 0 /\ (n + 1) - 1 = n
    BY <2>1, <1>0
  <2>4. lists[n + 1] = AddSORT(lists[n], msgs[n + 1])
    BY <2>3, <1>0
  <2> HIDE DEF T
  <2>5. \A list \in Seq(S) :
           Arranged(list, msgs, n, at) =>
              /\ AddSORT(list, msgs[n + 1]) \in Seq(S)
              /\ \E at2 : Arranged(AddSORT(list, msgs[n + 1]), msgs, n + 1, at2)
    BY <2>1, AddSORTArranged
  <2> QED
    BY <2>1, <2>2, <2>4, <2>5
<1>3. \A n \in Nat : n \in T
  <2> HIDE DEF T
  <2> QED
    BY <1>1, <1>2, InductionOverSet
<1> QED
  BY <1>0, <1>3

\* So the result is the messages in their order.
LEMMA SortByDateArranged ==
  ASSUME NEW S, \A m \in S : m.time \in Int, NEW msgs \in Seq(S)
  PROVE  /\ SortByDate(msgs) \in Seq(S)
         /\ \E at : Arranged(SortByDate(msgs), msgs, Len(msgs), at)
<1>0. Len(msgs) \in Nat
  BY LenProperties
<1> DEFINE lists == CHOOSE lists : Lists(msgs, Len(msgs), lists)
<1>1. Lists(msgs, Len(msgs), lists)
  BY <1>0, ListsExist
<1>2. SortByDate(msgs) = lists[Len(msgs)]
  BY DEF SortByDate, Lists
<1> HIDE DEF lists
<1>3. \A n \in 0 .. Len(msgs) :
         lists[n] \in Seq(S) /\ \E at : Arranged(lists[n], msgs, n, at)
  BY <1>1, ListsArranged
<1> QED
  BY <1>0, <1>2, <1>3

\* The number of places in front of a message is the number of earlier messages.
LEMMA PlaceIsNewPlace ==
  ASSUME NEW S, \A m \in S : m.time \in Int, NEW msgs \in Seq(S),
         NEW list, NEW at, Arranged(list, msgs, Len(msgs), at)
  PROVE  /\ \A p \in 1 .. Len(msgs) : NewPlace(msgs, p) = at[p]
         /\ \A p, q \in 1 .. Len(msgs) : at[p] = at[q] => p = q
<1>0. /\ Len(msgs) \in Nat
      /\ \A p \in 1 .. Len(msgs) : msgs[p].time \in Int
  <2>1. Len(msgs) \in Nat /\ \A p \in 1 .. Len(msgs) : msgs[p] \in S
    BY LenProperties, ElementOfSeq
  <2> QED
    BY <2>1
<1>1. \A p \in 1 .. Len(msgs) : at[p] \in 1 .. Len(msgs) /\ at[p] \in Int
  BY DEF Arranged
<1>2. \A j \in 1 .. Len(msgs) : \E p \in 1 .. Len(msgs) : at[p] = j
  BY DEF Arranged
<1>3. \A p, q \in 1 .. Len(msgs) : at[p] < at[q] <=> Earlier(msgs, p, q)
  BY DEF Arranged
<1>4. ASSUME NEW p \in 1 .. Len(msgs), NEW q \in 1 .. Len(msgs), at[p] = at[q]
      PROVE  p = q
  <2>1. ~Earlier(msgs, p, q) /\ ~Earlier(msgs, q, p)
    BY <1>1, <1>3, <1>4
  <2>2. /\ msgs[p].time \in Int /\ msgs[q].time \in Int
        /\ p \in Int /\ q \in Int
    BY <1>0
  <2> QED
    BY <2>1, <2>2 DEF Earlier
<1>5. ASSUME NEW p \in 1 .. Len(msgs) PROVE NewPlace(msgs, p) = at[p]
  <2> DEFINE front == {q \in 1 .. Len(msgs) : Earlier(msgs, q, p)}
             place == [q \in front |-> at[q]]
  <2>1. NewPlace(msgs, p) = 1 + Cardinality(front)
    BY DEF NewPlace, Earlier
  <2>2. \A q \in front : at[q] \in 1 .. at[p] - 1
    BY <1>1, <1>3
  <2>3. \A j \in 1 .. at[p] - 1 : \E q \in front : at[q] = j
    <3> TAKE j \in 1 .. at[p] - 1
    <3>1. j \in 1 .. Len(msgs) /\ j < at[p]
      BY <1>0, <1>1
    <3>2. PICK q \in 1 .. Len(msgs) : at[q] = j
      BY <3>1, <1>2
    <3>3. q \in front
      BY <3>1, <3>2, <1>3
    <3> QED
      BY <3>2, <3>3
  <2>4. place \in [front -> 1 .. at[p] - 1]
    BY <2>2
  <2>5. \A q, r \in front : place[q] = place[r] => q = r
    BY <1>4
  <2>6. \A j \in 1 .. at[p] - 1 : \E q \in front : place[q] = j
    BY <2>3
  <2> HIDE DEF front, place
  <2>7. place \in Bijection(front, 1 .. at[p] - 1)
    BY <2>4, <2>5, <2>6, Fun_IsBij
  <2>8. ExistsBijection(front, 1 .. at[p] - 1)
    BY <2>7, Fun_ExistsBij
  <2>9. ExistsBijection(1 .. at[p] - 1, front) /\ at[p] - 1 \in Nat
    BY <2>8, <1>1, Fun_ExistsBijSymmetric
  <2>10. Cardinality(front) = at[p] - 1
    BY <2>9, FS_CountingElements
  <2> QED
    BY <2>1, <2>10, <1>1
<1> QED
  BY <1>4, <1>5

\* The new places are the numbers 1, 2 ..., each of them once.
LEMMA NewPlaceBijection ==
  ASSUME NEW S, \A m \in S : m.time \in Int, NEW msgs \in Seq(S)
  PROVE  /\ \A p \in 1 .. Len(msgs) : NewPlace(msgs, p) \in 1 .. Len(msgs)
         /\ \A p, q \in 1 .. Len(msgs) : NewPlace(msgs, p) = NewPlace(msgs, q) => p = q
         /\ \A j \in 1 .. Len(msgs) : \E p \in 1 .. Len(msgs) : NewPlace(msgs, p) = j
<1>1. PICK at : Arranged(SortByDate(msgs), msgs, Len(msgs), at)
  BY SortByDateArranged
<1>2. /\ \A p \in 1 .. Len(msgs) : NewPlace(msgs, p) = at[p]
      /\ \A p, q \in 1 .. Len(msgs) : at[p] = at[q] => p = q
  BY <1>1, PlaceIsNewPlace
<1>3. \A p \in 1 .. Len(msgs) : at[p] \in 1 .. Len(msgs)
  BY <1>1 DEF Arranged
<1>4. \A j \in 1 .. Len(msgs) : \E p \in 1 .. Len(msgs) : at[p] = j
  BY <1>1 DEF Arranged
<1>5. \A p \in 1 .. Len(msgs) : NewPlace(msgs, p) \in 1 .. Len(msgs)
  BY <1>2, <1>3
<1>6. ASSUME NEW p \in 1 .. Len(msgs), NEW q \in 1 .. Len(msgs),
             NewPlace(msgs, p) = NewPlace(msgs, q)
      PROVE  p = q
  <2>1. at[p] = at[q]
    BY <1>2, <1>6
  <2> QED
    BY <1>2, <2>1
<1>7. ASSUME NEW j \in 1 .. Len(msgs)
      PROVE  \E p \in 1 .. Len(msgs) : NewPlace(msgs, p) = j
  <2>1. PICK p \in 1 .. Len(msgs) : at[p] = j
    BY <1>4
  <2> QED
    BY <1>2, <2>1
<1> QED
  BY <1>5, <1>6, <1>7

\* The list that AddSQSORT and AddJAMSORT build of any messages holds each of them
\* once, in the order of their dates, and messages of one time in reversed order.
THEOREM SortByDateSorts ==
  ASSUME NEW S, \A m \in S : m.time \in Int, NEW msgs \in Seq(S)
  PROVE  SortByDate(msgs) \in Seq(S) /\ IsSortOf(SortByDate(msgs), msgs)
<1>1. PICK at : Arranged(SortByDate(msgs), msgs, Len(msgs), at)
  BY SortByDateArranged
<1>2. \A p \in 1 .. Len(msgs) : NewPlace(msgs, p) = at[p]
  BY <1>1, PlaceIsNewPlace
<1>3. /\ Len(SortByDate(msgs)) = Len(msgs)
      /\ \A p \in 1 .. Len(msgs) : SortByDate(msgs)[at[p]] = msgs[p]
  BY <1>1 DEF Arranged
<1>4. IsSortOf(SortByDate(msgs), msgs)
  BY <1>2, <1>3 DEF IsSortOf
<1> QED
  BY <1>4, SortByDateArranged
==============================================================================
