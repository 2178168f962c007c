---------------------------- MODULE JamChains_proofs ----------------------------
(***************************************************************************)
(* Proofs about JamChains: what sort does to a Jam area, for every set of  *)
(* messages, users, ids and dates, and any number of runs and crashes.     *)
(***************************************************************************)
EXTENDS JamChains, DateSort_proofs

-----------------------------------------------------------------------------
(* The constants. *)

\* Numbers fit in a dword.
LEMMA DwordFacts ==
  /\ Dword \in Nat /\ Cardinality(Msgs) \in Nat /\ BaseMsgNum \in Nat \ {0}
  /\ BaseMsgNum + Cardinality(Msgs) < Dword
  /\ 0 \in 0 .. Dword - 1
BY AreaAssumption, FS_CardinalityType

\* What is computed in a dword is one, and is what it should be if that is one.
LEMMA DwordArithmetic ==
  /\ \A n \in Int : n % Dword \in 0 .. Dword - 1
  /\ \A n \in 0 .. Dword - 1 : n % Dword = n
  /\ \A n \in Int : n < 0 /\ n + Dword >= 0 => n % Dword = n + Dword
<1>1. Dword \in Nat \ {0}
  BY DwordFacts
<1>2. \A n \in Int : n % Dword \in 0 .. Dword - 1
  BY <1>1
<1>3. ASSUME NEW n \in 0 .. Dword - 1 PROVE n % Dword = n
  BY <1>1
<1>4. ASSUME NEW n \in Int, n < 0, n + Dword >= 0 PROVE n % Dword = n + Dword
  BY <1>1, <1>4
<1> QED
  BY <1>2, <1>3, <1>4

\* The entries that lead to no header are neither headers nor the same.
LEMMA EntriesApart == Cleared \notin Msgs /\ Zero \notin Msgs /\ Zero # Cleared
<1> DEFINE withZero == Msgs \cup {Zero}
           all == withZero \cup {Cleared}
<1>1. IsFiniteSet(Msgs) /\ Cardinality(Msgs) \in Nat
  BY AreaAssumption, FS_CardinalityType
<1>2. /\ IsFiniteSet(withZero)
      /\ Cardinality(withZero) = IF Zero \in Msgs THEN Cardinality(Msgs)
                                 ELSE Cardinality(Msgs) + 1
  BY <1>1, FS_AddElement
<1>3. Cardinality(all) = IF Cleared \in withZero THEN Cardinality(withZero)
                         ELSE Cardinality(withZero) + 1
  BY <1>2, FS_AddElement
<1>4. all = {Cleared, Zero} \cup Msgs
  OBVIOUS
<1>5. Cardinality(all) = Cardinality(Msgs) + 2
  BY <1>4, AreaAssumption
<1> HIDE DEF all
<1>6. Cleared \notin withZero /\ Zero \notin Msgs
  BY <1>1, <1>2, <1>3, <1>5
<1> QED
  BY <1>6

-----------------------------------------------------------------------------
(* The operators of the sort. *)

\* The places that InOrder has met.
IsMet(met, places, n) ==
  met = [k \in 0 .. n |->
           IF k = 0 THEN << >>
           ELSE IF k \in places THEN Append(met[k - 1], k) ELSE met[k - 1]]

\* at lists the places up to n in their order.
Ascending(at, places, n) ==
  /\ \A k \in 1 .. Len(at) : at[k] \in places /\ at[k] \in 1 .. n
  /\ \A j, k \in 1 .. Len(at) : j < k => at[j] < at[k]
  /\ \A p \in 1 .. n : p \in places => \E k \in 1 .. Len(at) : at[k] = p

\* The recursive definition in InOrder has a solution.
LEMMA MetExists ==
  ASSUME NEW places, NEW n \in Nat
  PROVE  \E met : IsMet(met, places, n)
<1> DEFINE T == Seq(Nat)
           Next1(at, k) == IF k \in places THEN Append(at, k) ELSE at
           step == [k \in 1 .. n |-> [at \in T |-> Next1(at, k)]]
<1>1. ASSUME NEW at \in T, NEW k \in 1 .. n PROVE Next1(at, k) \in T
  OBVIOUS
<1>2. StepsIn(T, n, step)
  BY <1>1 DEF StepsIn
<1>3. << >> \in T
  OBVIOUS
<1>4. PICK row : IsRow(row, T, n, << >>, step)
  <2> HIDE DEF step, T
  <2> QED
    BY <1>2, <1>3, RowExists
<1>5. row \in [0 .. n -> T] /\ row[0] = << >>
  BY <1>4 DEF IsRow
<1> HIDE DEF T
<1>6. ASSUME NEW k \in 1 .. n PROVE row[k] = Next1(row[k - 1], k)
  <2>1. row[k] = step[k][row[k - 1]]
    BY <1>4 DEF IsRow
  <2>2. row[k - 1] \in T
    BY <1>5
  <2> QED
    BY <2>1, <2>2
<1>7. \A k \in 0 .. n : row[k] = IF k = 0 THEN << >> ELSE Next1(row[k - 1], k)
  <2> HIDE DEF Next1
  <2> SUFFICES ASSUME NEW k \in 0 .. n
               PROVE  row[k] = IF k = 0 THEN << >> ELSE Next1(row[k - 1], k)
    OBVIOUS
  <2>1. k # 0 => k \in 1 .. n
    OBVIOUS
  <2> QED
    BY <1>5, <1>6, <2>1
<1>8. row = [k \in 0 .. n |-> row[k]]
  BY <1>5
<1>9. IsMet(row, places, n)
  BY <1>7, <1>8 DEF IsMet
<1> QED
  BY <1>9

\* InOrder lists the places in their order.
LEMMA InOrderProperties ==
  ASSUME NEW places, NEW n \in Nat
  PROVE  InOrder(places, n) \in Seq(Nat) /\ Ascending(InOrder(places, n), places, n)
<1> DEFINE met == CHOOSE met : IsMet(met, places, n)
<1>1. IsMet(met, places, n)
  BY MetExists
<1>2. InOrder(places, n) = met[n]
  BY DEF InOrder, IsMet
<1> HIDE DEF met
<1>3. \A k \in 0 .. n :
         met[k] = IF k = 0 THEN << >>
                  ELSE IF k \in places THEN Append(met[k - 1], k) ELSE met[k - 1]
  BY <1>1 DEF IsMet
<1> DEFINE Good == {k \in Nat : k <= n => met[k] \in Seq(Nat) /\ Ascending(met[k], places, k)}
<1>4. 0 \in Good
  <2>1. met[0] = << >> /\ << >> \in Seq(Nat)
    BY <1>3
  <2>2. Ascending(<< >>, places, 0)
    BY DEF Ascending
  <2> QED
    BY <2>1, <2>2
<1>5. ASSUME NEW k \in Nat, k \in Good PROVE k + 1 \in Good
  <2> SUFFICES ASSUME k + 1 <= n
               PROVE  met[k + 1] \in Seq(Nat) /\ Ascending(met[k + 1], places, k + 1)
    OBVIOUS
  <2>1. met[k] \in Seq(Nat) /\ Ascending(met[k], places, k)
    BY <1>5
  <2>2. k + 1 \in 0 .. n /\ k + 1 # 0 /\ (k + 1) - 1 = k
    OBVIOUS
  <2>3. met[k + 1] = IF k + 1 \in places THEN Append(met[k], k + 1) ELSE met[k]
    BY <1>3, <2>2
  <2> DEFINE old == met[k]
  <2> HIDE DEF Good, old
  <2>4. old \in Seq(Nat) /\ Len(old) \in Nat
    BY <2>1, LenProperties DEF old
  <2>5. /\ \A j \in 1 .. Len(old) : old[j] \in places /\ old[j] \in 1 .. k
        /\ \A i1, j \in 1 .. Len(old) : i1 < j => old[i1] < old[j]
        /\ \A p \in 1 .. k : p \in places => \E j \in 1 .. Len(old) : old[j] = p
    BY <2>1 DEF old, Ascending
  <2>6. CASE k + 1 \in places
    <3> DEFINE new == Append(old, k + 1)
    <3>1. /\ new \in Seq(Nat) /\ Len(new) = Len(old) + 1
          /\ \A j \in 1 .. Len(old) : new[j] = old[j]
          /\ new[Len(old) + 1] = k + 1
      BY <2>4
    <3>2. met[k + 1] = new
      BY <2>3, <2>6 DEF old
    <3> HIDE DEF new
    <3>3. \A j \in 1 .. Len(new) : j # Len(old) + 1 => j \in 1 .. Len(old)
      BY <2>4, <3>1
    <3>4. ASSUME NEW j \in 1 .. Len(new) PROVE new[j] \in places /\ new[j] \in 1 .. k + 1
      <4>1. CASE j = Len(old) + 1
        BY <4>1, <2>6, <3>1
      <4>2. CASE j # Len(old) + 1
        <5>1. new[j] = old[j] /\ old[j] \in places /\ old[j] \in 1 .. k
          BY <4>2, <3>3, <3>1, <2>5
        <5> QED
          BY <5>1
      <4> QED
        BY <4>1, <4>2
    <3>5. \A i1, j \in 1 .. Len(new) : i1 < j => new[i1] < new[j]
      <4> SUFFICES ASSUME NEW i1 \in 1 .. Len(new), NEW j \in 1 .. Len(new), i1 < j
                   PROVE  new[i1] < new[j]
        OBVIOUS
      <4>1. i1 \in 1 .. Len(old) /\ new[i1] = old[i1] /\ old[i1] \in 1 .. k
        BY <2>4, <2>5, <3>1
      <4>2. CASE j = Len(old) + 1
        BY <4>1, <4>2, <3>1
      <4>3. CASE j # Len(old) + 1
        <5>1. j \in 1 .. Len(old) /\ new[j] = old[j]
          BY <4>3, <3>3, <3>1
        <5> QED
          BY <5>1, <4>1, <2>5
      <4> QED
        BY <4>2, <4>3
    <3>6. ASSUME NEW p \in 1 .. k + 1, p \in places
          PROVE  \E j \in 1 .. Len(new) : new[j] = p
      <4>1. CASE p = k + 1
        BY <4>1, <2>4, <3>1
      <4>2. CASE p # k + 1
        <5>1. PICK j \in 1 .. Len(old) : old[j] = p
          BY <4>2, <3>6, <2>5
        <5> QED
          BY <5>1, <2>4, <3>1
      <4> QED
        BY <4>1, <4>2
    <3> QED
      BY <3>1, <3>2, <3>4, <3>5, <3>6 DEF Ascending
  <2>7. CASE k + 1 \notin places
    <3>1. met[k + 1] = old
      BY <2>3, <2>7 DEF old
    <3>2. \A j \in 1 .. Len(old) : old[j] \in places /\ old[j] \in 1 .. k + 1
      BY <2>5
    <3>3. ASSUME NEW p \in 1 .. k + 1, p \in places
          PROVE  \E j \in 1 .. Len(old) : old[j] = p
      <4>1. p \in 1 .. k
        BY <3>3, <2>7
      <4> QED
        BY <4>1, <3>3, <2>5
    <3> QED
      BY <3>1, <3>2, <3>3, <2>4, <2>5 DEF Ascending
  <2> QED
    BY <2>6, <2>7
<1>6. \A k \in Nat : k \in Good
  <2> HIDE DEF Good
  <2> QED
    BY <1>4, <1>5, InductionOverSet
<1> QED
  BY <1>2, <1>6

Msg == [msg : Msgs, time : Dates]

\* The dates of messages are numbers.
LEMMA TimesAreNumbers == \A m \in Msg : m.time \in Int
<1>1. \A d \in Dates : d \in Int
  BY AreaAssumption
<1>2. \A m \in Msg : m.time \in Dates
  BY DEF Msg
<1> QED
  BY <1>1, <1>2

Entries == Msgs \cup {Cleared, Zero}

\* An entry and the date of the message it leads to.
Dated(m) == [msg |-> m, time |-> text[m].date]

LEMMA DatedType == ASSUME text \in Texts, NEW m \in Msgs PROVE Dated(m) \in Msg
<1>1. text[m].date \in Dates
  BY DEF Texts
<1> QED
  BY <1>1 DEF Dated, Msg

\* The places of the messages that Behind takes.
At(s, from) == InOrder(Active(s, from), Len(s))

LEMMA AtProperties ==
  ASSUME NEW s \in Seq(Entries), NEW from \in Nat
  PROVE  /\ At(s, from) \in Seq(Nat) /\ Len(At(s, from)) \in Nat /\ Len(s) \in Nat
         /\ \A k \in 1 .. Len(At(s, from)) :
               /\ At(s, from)[k] \in from + 1 .. Len(s)
               /\ At(s, from)[k] \in 1 .. Len(s)
               /\ CheckMsg(s[At(s, from)[k]])
         /\ \A j, k \in 1 .. Len(At(s, from)) : j < k => At(s, from)[j] < At(s, from)[k]
         /\ \A p \in from + 1 .. Len(s) :
               CheckMsg(s[p]) => \E k \in 1 .. Len(At(s, from)) : At(s, from)[k] = p
<1>1. Len(s) \in Nat
  BY LenProperties
<1>2. At(s, from) \in Seq(Nat) /\ Ascending(At(s, from), Active(s, from), Len(s))
  BY <1>1, InOrderProperties DEF At
<1> DEFINE at == At(s, from)
<1> HIDE DEF at
<1>3. /\ \A k \in 1 .. Len(at) : at[k] \in Active(s, from) /\ at[k] \in 1 .. Len(s)
      /\ \A j, k \in 1 .. Len(at) : j < k => at[j] < at[k]
      /\ \A p \in 1 .. Len(s) : p \in Active(s, from) => \E k \in 1 .. Len(at) : at[k] = p
  BY <1>2 DEF at, Ascending
<1>4. \A p : p \in Active(s, from) <=> p \in from + 1 .. Len(s) /\ CheckMsg(s[p])
  BY DEF Active
<1>5. \A p \in from + 1 .. Len(s) : p \in 1 .. Len(s)
  BY <1>1
<1>6. \A k \in 1 .. Len(at) : /\ at[k] \in from + 1 .. Len(s)
                              /\ at[k] \in 1 .. Len(s) /\ CheckMsg(s[at[k]])
  BY <1>3, <1>4
<1>7. \A p \in from + 1 .. Len(s) : CheckMsg(s[p]) => \E k \in 1 .. Len(at) : at[k] = p
  BY <1>3, <1>4, <1>5
<1>8. at \in Seq(Nat) /\ Len(at) \in Nat
  BY <1>2, LenProperties DEF at
<1> QED
  BY <1>1, <1>3, <1>6, <1>7, <1>8 DEF at

\* In an ascending list each place is at least as far back as its number.
LEMMA AtIsBehind ==
  ASSUME NEW s \in Seq(Entries), NEW from \in Nat
  PROVE  \A k \in 1 .. Len(At(s, from)) : At(s, from)[k] >= from + k
<1> DEFINE at == At(s, from)
           T == {k \in Nat : k \in 1 .. Len(at) => at[k] >= from + k}
<1>1. /\ Len(at) \in Nat /\ Len(s) \in Nat
      /\ \A k \in 1 .. Len(at) : at[k] \in from + 1 .. Len(s)
      /\ \A j, k \in 1 .. Len(at) : j < k => at[j] < at[k]
  BY AtProperties
<1> HIDE DEF at
<1>2. 0 \in T
  OBVIOUS
<1>3. ASSUME NEW k \in Nat, k \in T PROVE k + 1 \in T
  <2> SUFFICES ASSUME k + 1 \in 1 .. Len(at) PROVE at[k + 1] >= from + (k + 1)
    OBVIOUS
  <2>1. at[k + 1] \in Nat /\ at[k + 1] >= from + 1
    BY <1>1
  <2>2. CASE k = 0
    BY <2>1, <2>2
  <2>3. CASE k # 0
    <3>1. k \in 1 .. Len(at)
      BY <2>3, <1>1
    <3>2. at[k] < at[k + 1] /\ at[k] \in Nat /\ at[k] >= from + k
      BY <3>1, <1>1, <1>3
    <3> QED
      BY <2>1, <3>2
  <2> QED
    BY <2>2, <2>3
<1>4. \A k \in Nat : k \in T
  <2> HIDE DEF T
  <2> QED
    BY <1>2, <1>3, InductionOverSet
<1>5. \A k \in 1 .. Len(at) : at[k] >= from + k
  BY <1>1, <1>4
<1> QED
  BY <1>5 DEF at

\* What Behind takes: active messages behind the first entries, in the order of the
\* index.
LEMMA BehindProperties ==
  ASSUME text \in Texts, NEW s \in Seq(Entries), NEW from \in Nat
  PROVE  /\ Behind(s, from) \in Seq(Msg)
         /\ Len(Behind(s, from)) = Len(At(s, from))
         /\ \A k \in 1 .. Len(At(s, from)) : Behind(s, from)[k] = Dated(s[At(s, from)[k]])
         /\ Len(At(s, from)) # 0 => from + Len(At(s, from)) <= Len(s)
         /\ from + 1 \in 1 .. Len(s) /\ CheckMsg(s[from + 1]) =>
              Len(At(s, from)) # 0 /\ At(s, from)[1] = from + 1
<1> DEFINE at == At(s, from)
<1>1. /\ Len(at) \in Nat /\ Len(s) \in Nat
      /\ \A k \in 1 .. Len(at) : at[k] \in from + 1 .. Len(s) /\ CheckMsg(s[at[k]])
      /\ \A j, k \in 1 .. Len(at) : j < k => at[j] < at[k]
      /\ \A p \in from + 1 .. Len(s) : CheckMsg(s[p]) => \E k \in 1 .. Len(at) : at[k] = p
      /\ \A k \in 1 .. Len(at) : at[k] >= from + k
  BY AtProperties, AtIsBehind
<1>2. Behind(s, from) = [k \in 1 .. Len(at) |-> Dated(s[at[k]])]
  BY DEF Behind, At, Dated
<1> HIDE DEF at
<1>3. \A k \in 1 .. Len(at) : Dated(s[at[k]]) \in Msg
  BY <1>1, DatedType DEF CheckMsg
<1>4. Behind(s, from) \in [1 .. Len(at) -> Msg]
  BY <1>2, <1>3
<1>5. Behind(s, from) \in Seq(Msg) /\ Len(Behind(s, from)) = Len(at)
  BY <1>1, <1>4
<1>6. \A k \in 1 .. Len(at) : Behind(s, from)[k] = Dated(s[at[k]])
  BY <1>2
<1>7. ASSUME Len(at) # 0 PROVE from + Len(at) <= Len(s)
  <2>1. Len(at) \in 1 .. Len(at)
    BY <1>1, <1>7
  <2>2. at[Len(at)] \in from + 1 .. Len(s) /\ at[Len(at)] >= from + Len(at)
    BY <1>1, <2>1
  <2> QED
    BY <1>1, <2>2
<1>8. ASSUME from + 1 \in 1 .. Len(s), CheckMsg(s[from + 1])
      PROVE  Len(at) # 0 /\ at[1] = from + 1
  <2>1. from + 1 \in from + 1 .. Len(s)
    BY <1>1, <1>8
  <2>2. PICK k \in 1 .. Len(at) : at[k] = from + 1
    BY <1>1, <1>8, <2>1
  <2>3. k = 1
    <3>1. at[k] >= from + k
      BY <1>1
    <3> QED
      BY <3>1, <2>2
  <2> QED
    BY <2>2, <2>3, <1>1
<1> QED
  BY <1>5, <1>6, <1>7, <1>8 DEF at

\* If nothing behind the first entries is cleared or rejected, Behind takes it all.
LEMMA BehindWhole ==
  ASSUME text \in Texts, NEW s \in Seq(Entries), NEW from \in Nat, from <= Len(s),
         \A k \in from + 1 .. Len(s) : CheckMsg(s[k])
  PROVE  Behind(s, from) = [k \in 1 .. Len(s) - from |-> Dated(s[from + k])]
<1> DEFINE at == At(s, from)
           T == {k \in Nat : \A j \in 1 .. Len(at) : j <= k => at[j] = from + j}
<1>1. /\ Len(at) \in Nat /\ Len(s) \in Nat
      /\ \A k \in 1 .. Len(at) : at[k] \in from + 1 .. Len(s)
      /\ \A j, k \in 1 .. Len(at) : j < k => at[j] < at[k]
      /\ \A p \in from + 1 .. Len(s) : \E k \in 1 .. Len(at) : at[k] = p
      /\ \A k \in 1 .. Len(at) : at[k] >= from + k
  BY AtProperties, AtIsBehind
<1>2. /\ Len(Behind(s, from)) = Len(at) /\ Behind(s, from) \in Seq(Msg)
      /\ \A k \in 1 .. Len(at) : Behind(s, from)[k] = Dated(s[at[k]])
      /\ Len(at) # 0 => from + Len(at) <= Len(s)
  BY BehindProperties
<1> HIDE DEF at
<1>3. 0 \in T
  OBVIOUS
<1>4. ASSUME NEW k \in Nat, k \in T PROVE k + 1 \in T
  <2> SUFFICES ASSUME k + 1 \in 1 .. Len(at) PROVE at[k + 1] = from + (k + 1)
    BY <1>4
  <2>1. at[k + 1] \in from + 1 .. Len(s) /\ at[k + 1] >= from + (k + 1)
    BY <1>1
  <2>2. from + (k + 1) \in from + 1 .. Len(s)
    BY <1>1, <2>1
  <2>3. PICK p \in 1 .. Len(at) : at[p] = from + (k + 1)
    BY <1>1, <2>2
  <2>4. p >= k + 1
    <3>1. p <= k => at[p] = from + p
      BY <1>4
    <3> QED
      BY <3>1, <2>3
  <2>5. CASE p = k + 1
    BY <2>5, <2>3
  <2>6. CASE p # k + 1
    <3>1. k + 1 < p
      BY <2>4, <2>6
    <3>2. at[k + 1] < at[p]
      BY <3>1, <1>1
    <3> QED
      BY <3>2, <2>1, <2>3
  <2> QED
    BY <2>5, <2>6
<1>5. \A k \in Nat : k \in T
  <2> HIDE DEF T
  <2> QED
    BY <1>3, <1>4, InductionOverSet
<1>6. ASSUME NEW k \in 1 .. Len(at) PROVE at[k] = from + k
  <2>1. k \in T
    BY <1>5
  <2>2. \A j \in 1 .. Len(at) : j <= k => at[j] = from + j
    BY <2>1
  <2> QED
    BY <2>2
<1>7. Len(at) = Len(s) - from
  <2>1. Len(at) <= Len(s) - from
    BY <1>1, <1>2
  <2>2. CASE Len(at) < Len(s) - from
    <3>1. from + Len(at) + 1 \in from + 1 .. Len(s)
      BY <2>2, <1>1
    <3>2. PICK k \in 1 .. Len(at) : at[k] = from + Len(at) + 1
      BY <3>1, <1>1
    <3>3. at[k] = from + k
      BY <1>6
    <3> QED
      BY <3>2, <3>3, <1>1
  <2> QED
    BY <2>1, <2>2, <1>1
<1>8. \A k \in 1 .. Len(s) - from : Behind(s, from)[k] = Dated(s[from + k])
  BY <1>2, <1>6, <1>7
<1>9. Behind(s, from) = [k \in 1 .. Len(s) - from |-> Behind(s, from)[k]]
  <2>1. Behind(s, from) = [k \in 1 .. Len(Behind(s, from)) |-> Behind(s, from)[k]]
    BY <1>2
  <2> QED
    BY <2>1, <1>2, <1>7
<1> QED
  BY <1>8, <1>9

\* The entries in front of the messages to sort, these messages, and their order.
Unsorted == Behind(before, Start)
Ordered == SortByDate(Unsorted)

\* An index that names no active message twice.
ActiveOnce(s) == \A j, k \in 1 .. Len(s) : s[j] = s[k] /\ CheckMsg(s[k]) => j = k

LEMMA StartValue ==
  ASSUME lastread \in 0 .. Dword - 1
  PROVE  /\ Start \in 0 .. Dword - 1 /\ Start \in Nat
         /\ lastread = 0 => Start = 0
         /\ lastread # 0 /\ lastread >= BaseMsgNum - 1 => Start = lastread - BaseMsgNum + 1
         /\ lastread # 0 /\ lastread < BaseMsgNum - 1 => Start > Cardinality(Msgs)
<1>1. /\ lastread - BaseMsgNum + 1 \in Int
      /\ lastread - BaseMsgNum + 1 < Dword
      /\ lastread - BaseMsgNum + 1 + Dword > Cardinality(Msgs)
      /\ Cardinality(Msgs) \in Nat /\ Dword \in Nat /\ BaseMsgNum \in Nat
  BY DwordFacts
<1>2. CASE lastread = 0
  BY <1>2, DwordFacts DEF Start
<1>3. CASE lastread # 0
  <2> DEFINE from == lastread - BaseMsgNum + 1
  <2>1. Start = from % Dword
    BY <1>3 DEF Start
  <2>2. from \in Int /\ from < Dword /\ from + Dword > Cardinality(Msgs)
    BY <1>1
  <2>3. from >= 0 <=> lastread >= BaseMsgNum - 1
    BY <1>1
  <2> HIDE DEF from
  <2>4. from % Dword \in 0 .. Dword - 1
    BY <2>2, DwordArithmetic
  <2>5. from >= 0 => from % Dword = from
    <3>1. from >= 0 => from \in 0 .. Dword - 1
      BY <2>2, <1>1
    <3> QED
      BY <3>1, DwordArithmetic
  <2>6. from < 0 => from % Dword = from + Dword
    <3>1. from + Dword >= 0
      BY <2>2, <1>1
    <3> QED
      BY <3>1, <2>2, DwordArithmetic
  <2>7. from >= 0 => Start = from
    BY <2>1, <2>5
  <2>8. from < 0 => Start > Cardinality(Msgs)
    BY <2>1, <2>2, <2>6
  <2>9. Start \in 0 .. Dword - 1 /\ Start \in Nat
    BY <2>1, <2>4, <1>1
  <2>10. lastread >= BaseMsgNum - 1 => Start = lastread - BaseMsgNum + 1
    BY <2>3, <2>7 DEF from
  <2>11. lastread < BaseMsgNum - 1 => Start > Cardinality(Msgs)
    BY <2>2, <2>3, <2>8, <1>1
  <2> QED
    BY <2>9, <2>10, <2>11, <1>3
<1> QED
  BY <1>2, <1>3

LEMMA OrderedProperties ==
  ASSUME text \in Texts, before \in Seq(Entries), Start \in Nat
  PROVE  /\ Len(before) \in Nat /\ Len(Ordered) \in Nat
         /\ Unsorted \in Seq(Msg) /\ Ordered \in Seq(Msg) /\ Len(Ordered) = Len(Unsorted)
         /\ IsSortOf(Ordered, Unsorted)
         /\ Len(Ordered) # 0 => Start + Len(Ordered) <= Len(before)
         /\ Start + 1 \in 1 .. Len(before) /\ CheckMsg(before[Start + 1]) =>
              Len(Ordered) # 0 /\ Unsorted[1] = Dated(before[Start + 1])
<1>1. /\ Unsorted \in Seq(Msg) /\ Len(Unsorted) = Len(At(before, Start))
      /\ Len(Unsorted) # 0 => Start + Len(Unsorted) <= Len(before)
      /\ Start + 1 \in 1 .. Len(before) /\ CheckMsg(before[Start + 1]) =>
           Len(Unsorted) # 0 /\ At(before, Start)[1] = Start + 1
      /\ \A k \in 1 .. Len(Unsorted) : Unsorted[k] = Dated(before[At(before, Start)[k]])
  BY BehindProperties DEF Unsorted
<1>2. Len(before) \in Nat /\ Len(Unsorted) \in Nat
  BY <1>1, LenProperties
<1>3. Ordered \in Seq(Msg) /\ IsSortOf(Ordered, Unsorted)
  BY <1>1, TimesAreNumbers, SortByDateSorts DEF Ordered
<1>4. Len(Ordered) = Len(Unsorted)
  BY <1>3 DEF IsSortOf
<1>5. ASSUME Start + 1 \in 1 .. Len(before), CheckMsg(before[Start + 1])
      PROVE  Len(Ordered) # 0 /\ Unsorted[1] = Dated(before[Start + 1])
  <2>1. 1 \in 1 .. Len(Unsorted)
    BY <1>1, <1>2, <1>5
  <2> QED
    BY <2>1, <1>1, <1>4, <1>5
<1> QED
  BY <1>1, <1>2, <1>3, <1>4, <1>5

\* Each message in the new order is an active one of the index, ...
LEMMA OrderedFromIndex ==
  ASSUME text \in Texts, before \in Seq(Entries), Start \in Nat,
         NEW k \in 1 .. Len(Ordered)
  PROVE  /\ \E p \in 1 .. Len(Unsorted) :
              /\ NewPlace(Unsorted, p) = k /\ Ordered[k] = Unsorted[p]
              /\ Ordered[k].msg = before[At(before, Start)[p]]
         /\ CheckMsg(Ordered[k].msg) /\ Ordered[k].msg \in Msgs
         /\ Ordered[k] = Dated(Ordered[k].msg)
<1>1. /\ Unsorted \in Seq(Msg) /\ Len(Ordered) = Len(Unsorted)
      /\ IsSortOf(Ordered, Unsorted)
  BY OrderedProperties
<1>2. PICK p \in 1 .. Len(Unsorted) : NewPlace(Unsorted, p) = k
  <2>1. \A j \in 1 .. Len(Unsorted) : \E p \in 1 .. Len(Unsorted) : NewPlace(Unsorted, p) = j
    BY <1>1, TimesAreNumbers, NewPlaceBijection
  <2> QED
    BY <2>1, <1>1
<1>3. Ordered[k] = Unsorted[p]
  BY <1>1, <1>2 DEF IsSortOf
<1>4. /\ Len(Unsorted) = Len(At(before, Start))
      /\ Unsorted[p] = Dated(before[At(before, Start)[p]])
  BY BehindProperties DEF Unsorted
<1>5. CheckMsg(before[At(before, Start)[p]])
  BY <1>4, AtProperties
<1>6. Ordered[k].msg = before[At(before, Start)[p]]
  BY <1>3, <1>4 DEF Dated
<1>7. Ordered[k] = Dated(Ordered[k].msg)
  BY <1>3, <1>4, <1>6
<1> QED
  BY <1>2, <1>3, <1>5, <1>6, <1>7 DEF CheckMsg

\* ...none comes twice if the index names no active message twice...
LEMMA OrderedDistinct ==
  ASSUME text \in Texts, before \in Seq(Entries), Start \in Nat, ActiveOnce(before),
         NEW j \in 1 .. Len(Ordered), NEW k \in 1 .. Len(Ordered),
         Ordered[j].msg = Ordered[k].msg
  PROVE  j = k
<1> DEFINE at == At(before, Start)
<1>1. PICK p \in 1 .. Len(Unsorted) :
        NewPlace(Unsorted, p) = j /\ Ordered[j].msg = before[at[p]]
  BY OrderedFromIndex
<1>2. PICK q \in 1 .. Len(Unsorted) :
        NewPlace(Unsorted, q) = k /\ Ordered[k].msg = before[at[q]]
  BY OrderedFromIndex
<1>3. Len(Unsorted) = Len(at)
  BY BehindProperties DEF Unsorted
<1>4. /\ \A n \in 1 .. Len(at) : at[n] \in 1 .. Len(before) /\ CheckMsg(before[at[n]])
      /\ \A n, m \in 1 .. Len(at) : n < m => at[n] < at[m]
  BY AtProperties
<1> HIDE DEF at
<1>5. at[p] = at[q]
  BY <1>1, <1>2, <1>3, <1>4 DEF ActiveOnce
<1>6. p = q
  <2>1. ~(p < q)
    BY <1>3, <1>4, <1>5
  <2>2. ~(q < p)
    BY <1>3, <1>4, <1>5
  <2> QED
    BY <2>1, <2>2
<1> QED
  BY <1>1, <1>2, <1>6

\* ...and none is in front of the messages to sort.
LEMMA OrderedNotInFront ==
  ASSUME text \in Texts, before \in Seq(Entries), Start \in Nat, ActiveOnce(before),
         NEW j \in 1 .. Len(Ordered), NEW k \in 1 .. Len(before), k <= Start
  PROVE  Ordered[j].msg # before[k]
<1> DEFINE at == At(before, Start)
<1>1. PICK p \in 1 .. Len(Unsorted) : Ordered[j].msg = before[at[p]]
  BY OrderedFromIndex
<1>2. Len(Unsorted) = Len(at)
  BY BehindProperties DEF Unsorted
<1>3. /\ at[p] \in Start + 1 .. Len(before) /\ at[p] \in 1 .. Len(before)
      /\ CheckMsg(before[at[p]])
  BY <1>2, AtProperties
<1> HIDE DEF at
<1>4. at[p] # k
  BY <1>3
<1> QED
  BY <1>1, <1>3, <1>4 DEF ActiveOnce

\* While the lock is held, the order stays as it is.
LEMMA OrderedKept ==
  ASSUME UNCHANGED << state, text, before, lastread >>
  PROVE  Start' = Start /\ Unsorted' = Unsorted /\ Ordered' = Ordered
<1>1. Start' = Start
  BY DEF Start
<1>2. Active(before, Start)' = Active(before, Start)
  BY <1>1 DEF Active, CheckMsg
<1>3. Unsorted' = Unsorted
  BY <1>1, <1>2 DEF Unsorted, Behind
<1> QED
  BY <1>1, <1>3 DEF Ordered

\* A set of numbers has a greatest and a least one.
LEMMA EndsOfSet ==
  ASSUME NEW n \in Nat, NEW S, S \subseteq 0 .. n, S # {}
  PROVE  /\ Max(S) \in S /\ \A s \in S : s <= Max(S)
         /\ Min(S) \in S /\ \A s \in S : Min(S) <= s
<1> DEFINE Rest == {n - s : s \in S}
<1>1. \A s \in S : s \in 0 .. n /\ s \in Int
  OBVIOUS
<1>2. Rest \subseteq Nat /\ Rest # {}
  <2>1. \A s \in S : n - s \in Nat
    BY <1>1
  <2> QED
    BY <2>1
<1>3. PICK r \in Rest : \A q \in Rest : r <= q
  <2> HIDE DEF Rest
  <2> QED
    BY <1>2, LeastOfSet
<1>4. PICK m \in S : r = n - m
  BY <1>3
<1>5. \A s \in S : m >= s
  <2> TAKE s \in S
  <2>1. n - m <= n - s
    BY <1>3, <1>4
  <2> QED
    BY <2>1, <1>1, <1>4
<1>6. Max(S) \in S /\ \A s \in S : Max(S) >= s
  BY <1>4, <1>5 DEF Max
<1>7. \E least \in S : \A s \in S : least <= s
  <2>1. S \subseteq Nat
    BY <1>1
  <2> QED
    BY <2>1, LeastOfSet
<1>8. Min(S) \in S /\ \A s \in S : Min(S) <= s
  BY <1>7 DEF Min
<1> QED
  BY <1>1, <1>6, <1>8

-----------------------------------------------------------------------------
(* The operators of link. *)

\* Before the first turn.
NothingFound ==
  [k \in 1 .. Len(idx) |->
     [ReplyTo |-> 0, Reply1st |-> 0, ReplyNext |-> 0, rewrite |-> FALSE]]

\* The turns of the inner loop, for entry k of the outer one.
IsTurn(turn, x, crc, k, info) ==
  turn = [ii \in 0 .. Len(idx) |->
            IF ii = 0 THEN info ELSE LinkPair(x, crc, turn[ii - 1], k, ii)]

Turned(x, crc, k, info) == (CHOOSE turn : IsTurn(turn, x, crc, k, info))[Len(idx)]

IsFound(turns, x, crc) ==
  turns = [k \in 0 .. Len(idx) |->
             IF k = 0 THEN NothingFound ELSE Turned(x, crc, k, turns[k - 1])]

\* What was found before rewrite is set.
Found(x, crc) == (CHOOSE turns : IsFound(turns, x, crc))[Len(idx)]

\* What link has found for an entry.
Info == [ReplyTo : 0 .. Dword - 1, Reply1st : 0 .. Dword - 1,
         ReplyNext : 0 .. Dword - 1, rewrite : BOOLEAN]

\* The number of entry e in the headers x.
Num(x, e) == x[idx[e]].MsgNum

\* Entry r is compared with entry p, and is a reply to it.
Replies(crc, r, p) == r # p /\ IsLinked(crc, r) /\ IsLinked(crc, p) /\ IsReply(crc, r, p)

\* After the first test of a pair, the second one finds that ii is the next reply.
IsNext(crc, info, new, k, ii) ==
  /\ ii > k /\ IsLinked(crc, k) /\ IsLinked(crc, ii)
  /\ new[ii].ReplyTo # 0 /\ new[ii].ReplyTo = new[k].ReplyTo
  /\ info[k].ReplyNext = 0

\* What one turn of the inner loop finds.
Finds(x, crc, info, new, k, ii) ==
  \A e \in 1 .. Len(idx) :
    /\ new[e].ReplyTo = IF e = ii /\ Replies(crc, ii, k) THEN Num(x, k) ELSE info[e].ReplyTo
    /\ new[e].Reply1st = IF e = k /\ Replies(crc, ii, k) /\ info[k].Reply1st = 0
                         THEN Num(x, ii) ELSE info[e].Reply1st
    /\ new[e].ReplyNext = IF e = k /\ IsNext(crc, info, new, k, ii)
                          THEN Num(x, ii) ELSE info[e].ReplyNext
    /\ new[e].rewrite <=>
         \/ info[e].rewrite
         \/ /\ e = k /\ Replies(crc, ii, k) /\ info[k].Reply1st = 0
            /\ Num(x, ii) # x[idx[k]].Reply1st
         \/ e = ii /\ Replies(crc, ii, k) /\ Num(x, k) # x[idx[ii]].ReplyTo
         \/ e = k /\ IsNext(crc, info, new, k, ii) /\ Num(x, ii) # x[idx[k]].ReplyNext

\* The first test finds numbers of messages.
LEMMA LinkReplyType ==
  ASSUME NEW x \in [Msgs -> JAMHDR], NEW crc \in BOOLEAN,
         NEW info \in [1 .. Len(idx) -> Info],
         NEW k \in 1 .. Len(idx), NEW ii \in 1 .. Len(idx),
         IsLinked(crc, k), IsLinked(crc, ii)
  PROVE  LinkReply(x, crc, info, k, ii) \in [1 .. Len(idx) -> Info]
<1> DEFINE inf == LinkReply(x, crc, info, k, ii)
           r1 == IF info[k].Reply1st = 0 THEN x[idx[ii]].MsgNum ELSE info[k].Reply1st
           r2 == x[idx[k]].MsgNum
           b1 == info[k].Reply1st = 0 /\ x[idx[ii]].MsgNum # x[idx[k]].Reply1st
           b2 == x[idx[k]].MsgNum # x[idx[ii]].ReplyTo
           linked == [info EXCEPT ![k].Reply1st = r1, ![k].rewrite = @ \/ b1,
                                  ![ii].ReplyTo = r2, ![ii].rewrite = @ \/ b2]
<1>0. x[idx[k]].MsgNum \in 0 .. Dword - 1 /\ x[idx[ii]].MsgNum \in 0 .. Dword - 1
  <2>1. idx[k] \in Msgs /\ idx[ii] \in Msgs
    BY DEF IsLinked, CheckMsg
  <2> QED
    BY <2>1 DEF JAMHDR
<1>1. info[k] \in Info /\ info[ii] \in Info
  OBVIOUS
<1>2. r1 \in 0 .. Dword - 1 /\ r2 \in 0 .. Dword - 1
  BY <1>0, <1>1 DEF Info
<1>3. b1 \in BOOLEAN /\ b2 \in BOOLEAN
  OBVIOUS
<1>4. inf = IF ~IsReply(crc, ii, k) THEN info ELSE linked
  BY DEF LinkReply
<1>5. linked \in [1 .. Len(idx) -> Info]
  <2> HIDE DEF r1, r2, b1, b2
  <2> DEFINE atK == [info[k] EXCEPT !.Reply1st = r1, !.rewrite = @ \/ b1]
             once == [info EXCEPT ![k] = atK]
  <2>1. info[k].rewrite \/ b1 \in BOOLEAN
    BY <1>1, <1>3 DEF Info
  <2>2. atK \in Info
    BY <1>1, <1>2, <2>1 DEF Info
  <2>3. once \in [1 .. Len(idx) -> Info]
    BY <2>2
  <2> QED
    BY <1>1, <1>2, <1>3, <2>3 DEF Info
<1> HIDE DEF inf, linked
<1> QED
  BY <1>4, <1>5 DEF inf

\* So do both tests.
LEMMA LinkPairType ==
  ASSUME NEW x \in [Msgs -> JAMHDR], NEW crc \in BOOLEAN,
         NEW info \in [1 .. Len(idx) -> Info],
         NEW k \in 1 .. Len(idx), NEW ii \in 1 .. Len(idx)
  PROVE  LinkPair(x, crc, info, k, ii) \in [1 .. Len(idx) -> Info]
<1>1. CASE ii = k \/ ~IsLinked(crc, k) \/ ~IsLinked(crc, ii)
  BY <1>1 DEF LinkPair
<1>2. CASE ~(ii = k \/ ~IsLinked(crc, k) \/ ~IsLinked(crc, ii))
  <2>1. idx[k] \in Msgs /\ idx[ii] \in Msgs
    BY <1>2 DEF IsLinked, CheckMsg
  <2>2. x[idx[k]].MsgNum \in 0 .. Dword - 1 /\ x[idx[ii]].MsgNum \in 0 .. Dword - 1
    BY <2>1 DEF JAMHDR
  <2> DEFINE inf == LinkReply(x, crc, info, k, ii)
  <2>3. inf \in [1 .. Len(idx) -> Info]
    BY <1>2, LinkReplyType
  <2> HIDE DEF inf
  <2>4. LinkNext(x, inf, k, ii) \in [1 .. Len(idx) -> Info]
    <3> DEFINE b == x[idx[ii]].MsgNum # x[idx[k]].ReplyNext
               atK == [inf[k] EXCEPT !.ReplyNext = x[idx[ii]].MsgNum, !.rewrite = @ \/ b]
               nexts == [inf EXCEPT ![k] = atK]
    <3>1. inf[k] \in Info /\ inf[k].rewrite \in BOOLEAN /\ b \in BOOLEAN
      BY <2>3 DEF Info
    <3>2. atK \in Info
      <4> HIDE DEF b
      <4> QED
        BY <3>1, <2>2 DEF Info
    <3>3. LinkNext(x, inf, k, ii) = inf \/ LinkNext(x, inf, k, ii) = nexts
      BY <2>3 DEF LinkNext
    <3>4. nexts \in [1 .. Len(idx) -> Info]
      <4> HIDE DEF atK
      <4> QED
        BY <2>3, <3>2
    <3> HIDE DEF nexts
    <3> QED
      BY <2>3, <3>3, <3>4
  <2> QED
    BY <2>4, <1>2 DEF LinkPair, inf
<1> QED
  BY <1>1, <1>2

\* The first test of a pair sets ReplyTo and Reply1st, and nothing else.
LEMMA LinkReplyFinds ==
  ASSUME NEW n, n = Len(idx), NEW x, NEW crc, NEW info \in [1 .. n -> Info],
         NEW k \in 1 .. n, NEW ii \in 1 .. n, ii # k, NEW e \in 1 .. n
  PROVE  LET mid == LinkReply(x, crc, info, k, ii)
             is == IsReply(crc, ii, k)
         IN  /\ DOMAIN mid = 1 .. n
             /\ mid[e].ReplyTo = IF e = ii /\ is THEN Num(x, k) ELSE info[e].ReplyTo
             /\ mid[e].Reply1st = IF e = k /\ is /\ info[k].Reply1st = 0
                                  THEN Num(x, ii) ELSE info[e].Reply1st
             /\ mid[e].ReplyNext = info[e].ReplyNext
             /\ mid[e].rewrite <=>
                  \/ info[e].rewrite
                  \/ e = k /\ is /\ info[k].Reply1st = 0 /\ Num(x, ii) # x[idx[k]].Reply1st
                  \/ e = ii /\ is /\ Num(x, k) # x[idx[ii]].ReplyTo
<1> DEFINE r1 == IF info[k].Reply1st = 0 THEN x[idx[ii]].MsgNum ELSE info[k].Reply1st
           r2 == x[idx[k]].MsgNum
           b1 == info[k].Reply1st = 0 /\ x[idx[ii]].MsgNum # x[idx[k]].Reply1st
           b2 == x[idx[k]].MsgNum # x[idx[ii]].ReplyTo
           linked == [info EXCEPT ![k].Reply1st = r1, ![k].rewrite = @ \/ b1,
                                  ![ii].ReplyTo = r2, ![ii].rewrite = @ \/ b2]
           mid == LinkReply(x, crc, info, k, ii)
<1>1. mid = IF ~IsReply(crc, ii, k) THEN info ELSE linked
  BY DEF LinkReply
<1>2. info[k] \in Info /\ info[ii] \in Info /\ info[e] \in Info /\ DOMAIN info = 1 .. n
  OBVIOUS
<1>3. b1 \in BOOLEAN /\ b2 \in BOOLEAN
  OBVIOUS
<1>4. CASE IsReply(crc, ii, k)
  <2> DEFINE atK == [info[k] EXCEPT !.Reply1st = r1, !.rewrite = @ \/ b1]
             atII == [info[ii] EXCEPT !.ReplyTo = r2, !.rewrite = @ \/ b2]
  <2>1. linked = [info EXCEPT ![k] = atK, ![ii] = atII]
    <3> HIDE DEF r1, r2, b1, b2
    <3> QED
      BY <1>2
  <2>2. /\ atK.ReplyTo = info[k].ReplyTo /\ atK.ReplyNext = info[k].ReplyNext
        /\ atK.Reply1st = r1 /\ (atK.rewrite <=> info[k].rewrite \/ b1)
        /\ atII.ReplyTo = r2 /\ atII.ReplyNext = info[ii].ReplyNext
        /\ atII.Reply1st = info[ii].Reply1st /\ (atII.rewrite <=> info[ii].rewrite \/ b2)
    <3> HIDE DEF r1, r2, b1, b2
    <3> QED
      BY <1>2, <1>3 DEF Info
  <2>3. mid = [info EXCEPT ![k] = atK, ![ii] = atII]
    <3> HIDE DEF mid, linked, atK, atII
    <3> QED
      BY <2>1, <1>1, <1>4
  <2> HIDE DEF atK, atII
  <2>4. /\ DOMAIN mid = 1 .. n
        /\ mid[e] = IF e = ii THEN atII ELSE IF e = k THEN atK ELSE info[e]
    <3> HIDE DEF mid
    <3> QED
      BY <2>3, <1>2
  <2> HIDE DEF mid
  <2>5. CASE e = k
    BY <2>5, <2>4, <2>2, <1>4 DEF Num, mid
  <2>6. CASE e = ii
    BY <2>6, <2>4, <2>2, <1>4 DEF Num, mid
  <2>7. CASE e # k /\ e # ii
    BY <2>7, <2>4, <1>4 DEF mid
  <2> QED
    BY <2>5, <2>6, <2>7
<1>5. CASE ~IsReply(crc, ii, k)
  <2>1. mid = info
    BY <1>1, <1>5
  <2> HIDE DEF mid
  <2> QED
    BY <2>1, <1>2, <1>5 DEF mid
<1> QED
  BY <1>4, <1>5

\* Both tests of a pair, one after the other.
LEMMA LinkPairFinds ==
  ASSUME NEW x \in [Msgs -> JAMHDR], NEW crc \in BOOLEAN,
         NEW info \in [1 .. Len(idx) -> Info],
         NEW k \in 1 .. Len(idx), NEW ii \in 1 .. Len(idx)
  PROVE  /\ LinkPair(x, crc, info, k, ii) \in [1 .. Len(idx) -> Info]
         /\ Finds(x, crc, info, LinkPair(x, crc, info, k, ii), k, ii)
<1> DEFINE n == Len(idx)
           mid == LinkReply(x, crc, info, k, ii)
           new == LinkPair(x, crc, info, k, ii)
<1>1. new \in [1 .. n -> Info]
  BY LinkPairType
<1>2. CASE ii = k \/ ~IsLinked(crc, k) \/ ~IsLinked(crc, ii)
  <2>1. new = info
    BY <1>2 DEF LinkPair
  <2>2. ~Replies(crc, ii, k)
    BY <1>2 DEF Replies
  <2>3. ~IsNext(crc, info, new, k, ii)
    <3>1. CASE ii = k
      BY <3>1 DEF IsNext
    <3>2. CASE ii # k
      BY <3>2, <1>2 DEF IsNext
    <3> QED
      BY <3>1, <3>2
  <2> HIDE DEF new
  <2>4. Finds(x, crc, info, new, k, ii)
    BY <2>1, <2>2, <2>3 DEF Finds
  <2> QED
    BY <1>1, <2>4 DEF new
<1>3. CASE ~(ii = k \/ ~IsLinked(crc, k) \/ ~IsLinked(crc, ii))
  <2>1. new = LinkNext(x, mid, k, ii)
    BY <1>3 DEF LinkPair
  <2>2. Replies(crc, ii, k) <=> IsReply(crc, ii, k)
    BY <1>3 DEF Replies
  <2>3. \A e \in 1 .. n :
          /\ mid[e].ReplyTo = IF e = ii /\ Replies(crc, ii, k) THEN Num(x, k)
                              ELSE info[e].ReplyTo
          /\ mid[e].Reply1st = IF e = k /\ Replies(crc, ii, k) /\ info[k].Reply1st = 0
                               THEN Num(x, ii) ELSE info[e].Reply1st
          /\ mid[e].ReplyNext = info[e].ReplyNext
          /\ mid[e].rewrite <=>
               \/ info[e].rewrite
               \/ /\ e = k /\ Replies(crc, ii, k) /\ info[k].Reply1st = 0
                  /\ Num(x, ii) # x[idx[k]].Reply1st
               \/ e = ii /\ Replies(crc, ii, k) /\ Num(x, k) # x[idx[ii]].ReplyTo
    <3> TAKE e \in 1 .. n
    <3> HIDE DEF mid
    <3> QED
      BY <2>2, <1>3, LinkReplyFinds DEF mid
  <2>4. DOMAIN mid = 1 .. n
    BY <1>3, LinkReplyFinds
  <2> DEFINE next == /\ ii > k /\ mid[ii].ReplyTo # 0 /\ mid[ii].ReplyTo = mid[k].ReplyTo
                     /\ mid[k].ReplyNext = 0
             b == Num(x, ii) # x[idx[k]].ReplyNext
             atK == [mid[k] EXCEPT !.ReplyNext = Num(x, ii), !.rewrite = @ \/ b]
  <2> HIDE DEF mid
  <2>5. new = IF next THEN [mid EXCEPT ![k] = atK] ELSE mid
    <3> HIDE DEF new
    <3> QED
      BY <2>1, <2>4 DEF LinkNext, Num
  <2> HIDE DEF new
  <2>6. ASSUME NEW e \in 1 .. n
        PROVE  /\ new[e].ReplyTo = mid[e].ReplyTo /\ new[e].Reply1st = mid[e].Reply1st
               /\ new[e].ReplyNext = IF e = k /\ next THEN Num(x, ii) ELSE mid[e].ReplyNext
               /\ new[e].rewrite <=> mid[e].rewrite \/ (e = k /\ next /\ b)
    <3>1. mid[k] \in Info /\ Num(x, ii) \in 0 .. Dword - 1 /\ b \in BOOLEAN
      <4>1. mid[k] \in Info
        BY <1>3, LinkReplyType DEF mid
      <4>2. idx[ii] \in Msgs
        BY <1>3 DEF IsLinked, CheckMsg
      <4>3. x[idx[ii]] \in JAMHDR
        BY <4>2
      <4> QED
        BY <4>1, <4>3 DEF Num, JAMHDR
    <3> HIDE DEF b
    <3>2. /\ atK.ReplyTo = mid[k].ReplyTo /\ atK.Reply1st = mid[k].Reply1st
          /\ atK.ReplyNext = Num(x, ii) /\ (atK.rewrite <=> mid[k].rewrite \/ b)
      BY <3>1 DEF Info
    <3> HIDE DEF atK, next
    <3>3. new[e] = IF next /\ e = k THEN atK ELSE mid[e]
      BY <2>4, <2>5
    <3> QED
      BY <3>2, <3>3
  <2>7. next <=> IsNext(crc, info, new, k, ii)
    <3>1. mid[k].ReplyNext = info[k].ReplyNext
      BY <2>3
    <3>2. new[ii].ReplyTo = mid[ii].ReplyTo /\ new[k].ReplyTo = mid[k].ReplyTo
      BY <2>6
    <3> QED
      BY <3>1, <3>2, <1>3 DEF IsNext
  <2> HIDE DEF next
  <2>8. Finds(x, crc, info, new, k, ii)
    BY <2>3, <2>6, <2>7 DEF Finds
  <2> QED
    BY <1>1, <2>8 DEF new
<1> QED
  BY <1>2, <1>3

\* turns[k][ii] is what link has found after turn ii of the inner loop for entry k.
Steps(turns, x, crc) ==
  /\ turns[0][Len(idx)] = NothingFound
  /\ \A k \in 1 .. Len(idx) :
       /\ turns[k][0] = turns[k - 1][Len(idx)]
       /\ \A ii \in 1 .. Len(idx) : turns[k][ii] = LinkPair(x, crc, turns[k][ii - 1], k, ii)

\* The turns by which all is found (linkarea.c:400-449).
IsRun(turns, x, crc) ==
  Steps(turns, x, crc) /\ Found(x, crc) = turns[Len(idx)][Len(idx)]

\* What the recursive functions of LinkAll compute is found by such turns, which never
\* leave a set T that no turn leaves.
LEMMA LinkAllRuns ==
  ASSUME NEW n \in Nat, n = Len(idx), NEW x, NEW crc, NEW T, NothingFound \in T,
         \A info \in T : \A k, ii \in 1 .. n : LinkPair(x, crc, info, k, ii) \in T
  PROVE  \E turns : IsRun(turns, x, crc)
<1>1. ASSUME NEW k \in 1 .. n, NEW info \in T
      PROVE  /\ \E turn : IsTurn(turn, x, crc, k, info)
             /\ Turned(x, crc, k, info) \in T
  <2> DEFINE step == [ii \in 1 .. n |-> [inf \in T |-> LinkPair(x, crc, inf, k, ii)]]
  <2>1. StepsIn(T, n, step)
    BY DEF StepsIn
  <2>2. PICK row : IsRow(row, T, n, info, step)
    <3> HIDE DEF step
    <3> QED
      BY <2>1, RowExists
  <2>3. \E turn : IsTurn(turn, x, crc, k, info)
    <3>1. row \in [0 .. n -> T] /\ row[0] = info
      BY <2>2 DEF IsRow
    <3>2. ASSUME NEW ii \in 1 .. n PROVE row[ii] = LinkPair(x, crc, row[ii - 1], k, ii)
      <4>1. row[ii] = step[ii][row[ii - 1]]
        BY <2>2 DEF IsRow
      <4>2. row[ii - 1] \in T
        BY <3>1
      <4> QED
        BY <4>1, <4>2
    <3>3. \A ii \in 0 .. n : row[ii] = IF ii = 0 THEN info
                                       ELSE LinkPair(x, crc, row[ii - 1], k, ii)
      BY <3>1, <3>2
    <3>4. row = [ii \in 0 .. n |-> row[ii]]
      BY <3>1
    <3>5. IsTurn(row, x, crc, k, info)
      BY <3>3, <3>4 DEF IsTurn
    <3> QED
      BY <3>5
  <2> DEFINE turn == CHOOSE turn : IsTurn(turn, x, crc, k, info)
  <2>4. IsTurn(turn, x, crc, k, info)
    BY <2>3
  <2>5. Turned(x, crc, k, info) = turn[n]
    BY DEF Turned
  <2> HIDE DEF turn
  <2>6. turn[0] = info /\ \A ii \in 1 .. n : turn[ii] = LinkPair(x, crc, turn[ii - 1], k, ii)
    BY <2>4 DEF IsTurn
  <2>7. \A ii \in 1 .. n : turn[ii - 1] \in T => turn[ii] \in T
    BY <2>6
  <2>8. turn[0] \in T
    BY <2>6
  <2>9. \A ii \in 0 .. n : turn[ii] \in T
    BY <2>7, <2>8, InductionOverRow
  <2> QED
    BY <2>3, <2>5, <2>9
<1>2. \E found : IsFound(found, x, crc)
  <2> DEFINE step == [k \in 1 .. n |-> [info \in T |-> Turned(x, crc, k, info)]]
  <2>1. StepsIn(T, n, step)
    BY <1>1 DEF StepsIn
  <2>2. PICK row : IsRow(row, T, n, NothingFound, step)
    <3> HIDE DEF step
    <3> QED
      BY <2>1, RowExists
  <2>3. row \in [0 .. n -> T] /\ row[0] = NothingFound
    BY <2>2 DEF IsRow
  <2>4. ASSUME NEW k \in 1 .. n PROVE row[k] = Turned(x, crc, k, row[k - 1])
    <3>1. row[k] = step[k][row[k - 1]]
      BY <2>2 DEF IsRow
    <3>2. row[k - 1] \in T
      BY <2>3
    <3> QED
      BY <3>1, <3>2
  <2>5. \A k \in 0 .. n : row[k] = IF k = 0 THEN NothingFound
                                   ELSE Turned(x, crc, k, row[k - 1])
    BY <2>3, <2>4
  <2>6. row = [k \in 0 .. n |-> row[k]]
    BY <2>3
  <2>7. IsFound(row, x, crc)
    BY <2>5, <2>6 DEF IsFound
  <2> QED
    BY <2>7
<1> DEFINE found == CHOOSE found : IsFound(found, x, crc)
<1>3. IsFound(found, x, crc)
  BY <1>2
<1>4. Found(x, crc) = found[n]
  BY DEF Found
<1> HIDE DEF found
<1>5. found[0] = NothingFound /\ \A k \in 1 .. n : found[k] = Turned(x, crc, k, found[k - 1])
  BY <1>3 DEF IsFound
<1>6. \A k \in 0 .. n : found[k] \in T
  <2>1. \A k \in 1 .. n : found[k - 1] \in T => found[k] \in T
    BY <1>1, <1>5
  <2>2. found[0] \in T
    BY <1>5
  <2> QED
    BY <2>1, <2>2, InductionOverRow
<1> DEFINE turn(k) == CHOOSE turn : IsTurn(turn, x, crc, k, found[k - 1])
           turns == [k \in 0 .. n |-> IF k = 0 THEN [ii \in 0 .. n |-> NothingFound]
                                      ELSE turn(k)]
<1>7. ASSUME NEW k \in 1 .. n
      PROVE  /\ found[k] = turn(k)[n] /\ turn(k)[0] = found[k - 1]
             /\ \A ii \in 1 .. n : turn(k)[ii] = LinkPair(x, crc, turn(k)[ii - 1], k, ii)
  <2>1. found[k - 1] \in T
    BY <1>6
  <2>2. \E t : IsTurn(t, x, crc, k, found[k - 1])
    BY <2>1, <1>1
  <2>3. IsTurn(turn(k), x, crc, k, found[k - 1])
    BY <2>2
  <2>4. found[k] = turn(k)[n]
    BY <1>5 DEF Turned
  <2> HIDE DEF turn
  <2>5. /\ turn(k)[0] = found[k - 1]
        /\ \A ii \in 1 .. n : turn(k)[ii] = LinkPair(x, crc, turn(k)[ii - 1], k, ii)
    <3>1. turn(k)[0] = found[k - 1]
      <4>1. 0 \in 0 .. Len(idx)
        OBVIOUS
      <4> QED
        BY <2>3, <4>1, Zenon DEF IsTurn
    <3>2. ASSUME NEW ii \in 1 .. n
          PROVE  turn(k)[ii] = LinkPair(x, crc, turn(k)[ii - 1], k, ii)
      <4>1. ii \in 0 .. Len(idx) /\ ii # 0
        OBVIOUS
      <4> QED
        BY <2>3, <4>1, Zenon DEF IsTurn
    <3> QED
      BY <3>1, <3>2
  <2> QED
    BY <2>4, <2>5
<1> HIDE DEF turn
<1>8. /\ turns[0][n] = NothingFound
      /\ \A k \in 1 .. n : turns[k] = turn(k)
      /\ \A k \in 0 .. n : turns[k][n] = found[k]
  <2>1. turns[0][n] = NothingFound /\ \A k \in 1 .. n : turns[k] = turn(k)
    <3>1. 0 \in 0 .. n /\ n \in 0 .. n /\ \A k \in 1 .. n : k \in 0 .. n /\ k # 0
      OBVIOUS
    <3> QED
      BY <3>1, Zenon
  <2> HIDE DEF turns
  <2>2. \A k \in 1 .. n : turns[k][n] = found[k]
    BY <2>1, <1>7
  <2> QED
    BY <2>1, <2>2, <1>5
<1> HIDE DEF turns
<1>9. ASSUME NEW k \in 1 .. n
      PROVE  /\ turns[k][0] = turns[k - 1][n]
             /\ \A ii \in 1 .. n : turns[k][ii] = LinkPair(x, crc, turns[k][ii - 1], k, ii)
  <2>1. k - 1 \in 0 .. n
    OBVIOUS
  <2> QED
    BY <2>1, <1>7, <1>8
<1>10. Found(x, crc) = turns[n][n]
  BY <1>4, <1>8
<1>11. IsRun(turns, x, crc)
  BY <1>8, <1>9, <1>10 DEF IsRun, Steps
<1> QED
  BY <1>11

\* What holds at the beginning, goes on from each row to the next one and from each
\* turn to the next one, holds at all times and at the end.
LEMMA InductionOverTurns ==
  ASSUME NEW n \in Nat, NEW Good, << 0, n >> \in Good,
         \A k \in 1 .. n : << k - 1, n >> \in Good => << k, 0 >> \in Good,
         \A k, ii \in 1 .. n : << k, ii - 1 >> \in Good => << k, ii >> \in Good
  PROVE  << n, n >> \in Good /\ \A k \in 1 .. n : \A ii \in 0 .. n : << k, ii >> \in Good
<1>1. ASSUME NEW k \in 1 .. n, << k - 1, n >> \in Good
      PROVE  << k, n >> \in Good /\ \A ii \in 0 .. n : << k, ii >> \in Good
  <2> DEFINE row == [ii \in 0 .. n |-> << k, ii >>]
  <2>1. row[0] \in Good
    BY <1>1
  <2>2. ASSUME NEW ii \in 1 .. n, row[ii - 1] \in Good PROVE row[ii] \in Good
    <3>1. row[ii - 1] = << k, ii - 1 >> /\ row[ii] = << k, ii >>
      OBVIOUS
    <3> QED
      BY <3>1, <2>2
  <2>3. n \in 0 .. n /\ \A ii \in 0 .. n : row[ii] = << k, ii >>
    OBVIOUS
  <2> HIDE DEF row
  <2>4. \A ii \in 0 .. n : row[ii] \in Good
    BY <2>1, <2>2, InductionOverRow
  <2> QED
    BY <2>3, <2>4
<1> DEFINE row == [k \in 0 .. n |-> << k, n >>]
<1>2. row[0] \in Good /\ row[n] = << n, n >> /\ n \in 0 .. n
  OBVIOUS
<1>3. ASSUME NEW k \in 1 .. n, row[k - 1] \in Good PROVE row[k] \in Good
  <2>1. row[k - 1] = << k - 1, n >> /\ row[k] = << k, n >>
    OBVIOUS
  <2> QED
    BY <2>1, <1>1, <1>3
<1> HIDE DEF row
<1>4. \A k \in 0 .. n : row[k] \in Good
  BY <1>2, <1>3, InductionOverRow
<1>5. ASSUME NEW k \in 1 .. n PROVE << k - 1, n >> \in Good
  <2>1. k - 1 \in 0 .. n /\ row[k - 1] = << k - 1, n >>
    BY DEF row
  <2> QED
    BY <2>1, <1>4
<1> QED
  BY <1>1, <1>2, <1>4, <1>5

\* The turns of a link.
LEMMA TurnsExist ==
  ASSUME NEW x \in [Msgs -> JAMHDR], NEW crc \in BOOLEAN, Len(idx) \in Nat
  PROVE  \E turns : IsRun(turns, x, crc)
<1> DEFINE T == [1 .. Len(idx) -> Info]
<1>1. NothingFound \in T
  BY DwordFacts DEF NothingFound, Info
<1>2. \A info \in T : \A k, ii \in 1 .. Len(idx) : LinkPair(x, crc, info, k, ii) \in T
  BY LinkPairType
<1> HIDE DEF T
<1> QED
  BY <1>1, <1>2, LinkAllRuns

\* Each turn finds something for each entry.
LEMMA TurnTypes ==
  ASSUME NEW x \in [Msgs -> JAMHDR], NEW crc \in BOOLEAN, Len(idx) \in Nat,
         NEW turns, Steps(turns, x, crc)
  PROVE  LET n == Len(idx)
         IN  /\ turns[0][n] \in [1 .. n -> Info] /\ turns[n][n] \in [1 .. n -> Info]
             /\ \A k \in 1 .. n : \A ii \in 0 .. n : turns[k][ii] \in [1 .. n -> Info]
<1> DEFINE n == Len(idx)
           T == [1 .. n -> Info]
<1>1. turns[0][n] \in T
  <2>1. NothingFound \in T
    BY DwordFacts DEF NothingFound, Info
  <2> QED
    BY <2>1 DEF Steps
<1>2. ASSUME NEW k \in 1 .. n, turns[k - 1][n] \in T
      PROVE  \A ii \in 0 .. n : turns[k][ii] \in T
  <2> DEFINE row == [ii \in 0 .. n |-> turns[k][ii]]
  <2>1. row[0] \in T
    <3>1. turns[k][0] = turns[k - 1][n]
      BY DEF Steps
    <3> QED
      BY <3>1, <1>2
  <2>2. ASSUME NEW ii \in 1 .. n, row[ii - 1] \in T PROVE row[ii] \in T
    <3>1. row[ii - 1] = turns[k][ii - 1] /\ row[ii] = turns[k][ii]
      OBVIOUS
    <3>2. turns[k][ii] = LinkPair(x, crc, turns[k][ii - 1], k, ii)
      BY DEF Steps
    <3> QED
      BY <3>1, <3>2, <2>2, LinkPairType
  <2>3. \A ii \in 0 .. n : row[ii] = turns[k][ii]
    OBVIOUS
  <2> HIDE DEF row, T
  <2>4. \A ii \in 0 .. n : row[ii] \in T
    BY <2>1, <2>2, InductionOverRow
  <2> QED
    BY <2>3, <2>4
<1> DEFINE row == [k \in 0 .. n |-> turns[k][n]]
<1>3. \A k \in 0 .. n : row[k] = turns[k][n]
  OBVIOUS
<1>4. ASSUME NEW k \in 1 .. n, row[k - 1] \in T PROVE row[k] \in T
  <2>1. row[k - 1] = turns[k - 1][n] /\ row[k] = turns[k][n] /\ n \in 0 .. n
    OBVIOUS
  <2> HIDE DEF T, row
  <2> QED
    BY <2>1, <1>2, <1>4
<1>5. row[0] \in T
  BY <1>1, <1>3
<1> HIDE DEF row, T
<1>6. \A k \in 0 .. n : row[k] \in T
  BY <1>4, <1>5, InductionOverRow
<1>7. \A k \in 1 .. n : turns[k - 1][n] \in T
  BY <1>3, <1>6
<1>8. n \in 0 .. n
  OBVIOUS
<1>9. turns[n][n] \in T
  BY <1>3, <1>6, <1>8
<1>10. \A k \in 1 .. n : \A ii \in 0 .. n : turns[k][ii] \in T
  BY <1>2, <1>7
<1> QED
  BY <1>1, <1>9, <1>10, Zenon DEF T

\* What link has found once rewrite is set.
LEMMA LinkAllFound ==
  ASSUME NEW x, NEW crc
  PROVE  LinkAll(x, crc) =
           [k \in 1 .. Len(idx) |->
              [Found(x, crc)[k] EXCEPT
                 !.rewrite = IF ~crc \/ ~IsLinked(crc, k) THEN @
                             ELSE Relinked(x[idx[k]], Found(x, crc)[k]) # x[idx[k]]]]
BY DEF LinkAll, Found, IsFound, Turned, IsTurn, NothingFound

\* Link has something in memory for each entry.
LEMMA LinkAllType ==
  ASSUME NEW x \in [Msgs -> JAMHDR], NEW crc \in BOOLEAN, Len(idx) \in Nat
  PROVE  LinkAll(x, crc) \in Seq(Info) /\ Len(LinkAll(x, crc)) = Len(idx)
<1> DEFINE T == [1 .. Len(idx) -> Info]
<1>1. PICK turns : IsRun(turns, x, crc)
  BY TurnsExist
<1>2. turns[Len(idx)][Len(idx)] \in T
  BY <1>1, TurnTypes DEF IsRun
<1>3. Found(x, crc) \in T
  BY <1>1, <1>2 DEF IsRun
<1>4. ASSUME NEW k \in 1 .. Len(idx), NEW b \in BOOLEAN
      PROVE  [Found(x, crc)[k] EXCEPT !.rewrite = b] \in Info
  <2>1. Found(x, crc)[k] \in Info
    BY <1>3
  <2> QED
    BY <2>1 DEF Info
<1>5. ASSUME NEW k \in 1 .. Len(idx)
      PROVE  LinkAll(x, crc)[k] \in Info
  <2> DEFINE r == IF ~crc \/ ~IsLinked(crc, k) THEN Found(x, crc)[k].rewrite
                  ELSE Relinked(x[idx[k]], Found(x, crc)[k]) # x[idx[k]]
  <2>1. Found(x, crc)[k] \in Info
    BY <1>3
  <2>2. r \in BOOLEAN
    BY <2>1 DEF Info
  <2>3. LinkAll(x, crc)[k] = [Found(x, crc)[k] EXCEPT !.rewrite = r]
    BY LinkAllFound
  <2> HIDE DEF r
  <2> QED
    BY <2>2, <2>3, <1>4
<1>6. LinkAll(x, crc) \in T
  BY <1>5, LinkAllFound
<1> QED
  BY <1>6

\* What link has found when all pairs were compared, and rewrite is set.
FoundBy(turns, x, crc) ==
  LET found == turns[Len(idx)][Len(idx)]
  IN  [e \in 1 .. Len(idx) |->
         [found[e] EXCEPT !.rewrite = IF ~crc \/ ~IsLinked(crc, e) THEN @
                                      ELSE Relinked(x[idx[e]], found[e]) # x[idx[e]]]]

\* Link finds by turns.
LEMMA LinkAllByRun ==
  ASSUME NEW x \in [Msgs -> JAMHDR], NEW crc \in BOOLEAN, Len(idx) \in Nat
  PROVE  \E turns : Steps(turns, x, crc) /\ LinkAll(x, crc) = FoundBy(turns, x, crc)
<1>1. PICK turns : IsRun(turns, x, crc)
  BY TurnsExist
<1>2. Found(x, crc) = turns[Len(idx)][Len(idx)]
  BY <1>1 DEF IsRun
<1>3. LinkAll(x, crc) = FoundBy(turns, x, crc)
  BY <1>2, LinkAllFound DEF FoundBy
<1> QED
  BY <1>1, <1>3 DEF IsRun

\* A run, turn by turn.
LEMMA TurnsFind ==
  ASSUME NEW x \in [Msgs -> JAMHDR], NEW crc \in BOOLEAN, Len(idx) \in Nat,
         NEW turns, Steps(turns, x, crc)
  PROVE  /\ turns[0][Len(idx)] = NothingFound
         /\ \A k \in 1 .. Len(idx) : turns[k][0] = turns[k - 1][Len(idx)]
         /\ \A k, ii \in 1 .. Len(idx) :
              Finds(x, crc, turns[k][ii - 1], turns[k][ii], k, ii)
<1>1. ASSUME NEW k \in 1 .. Len(idx), NEW ii \in 1 .. Len(idx)
      PROVE  Finds(x, crc, turns[k][ii - 1], turns[k][ii], k, ii)
  <2>1. turns[k][ii] = LinkPair(x, crc, turns[k][ii - 1], k, ii)
    BY DEF Steps
  <2>2. ii - 1 \in 0 .. Len(idx)
    OBVIOUS
  <2>3. turns[k][ii - 1] \in [1 .. Len(idx) -> Info]
    BY <2>2, TurnTypes
  <2> QED
    BY <2>1, <2>3, LinkPairFinds
<1> QED
  BY <1>1 DEF Steps

\* Two runs over headers with the same numbers find the same links, and the same to
\* rewrite where the headers are the same.
Alike(x, y, a, b) ==
  \A e \in 1 .. Len(idx) :
    /\ a[e].ReplyTo = b[e].ReplyTo /\ a[e].Reply1st = b[e].Reply1st
    /\ a[e].ReplyNext = b[e].ReplyNext
    /\ x[idx[e]] = y[idx[e]] => (a[e].rewrite <=> b[e].rewrite)

\* Links never change numbers.
SameNumbers(x, y) == \A m \in Msgs : x[m].MsgNum = y[m].MsgNum

\* A turn keeps them alike.
LEMMA AlikeStep ==
  ASSUME NEW x, NEW y, SameNumbers(x, y), NEW crc,
         NEW k \in 1 .. Len(idx), NEW ii \in 1 .. Len(idx),
         NEW a, NEW a1, NEW b, NEW b1,
         Finds(x, crc, a, a1, k, ii), Finds(y, crc, b, b1, k, ii), Alike(x, y, a, b)
  PROVE  Alike(x, y, a1, b1)
<1>1. Replies(crc, ii, k) => Num(x, k) = Num(y, k) /\ Num(x, ii) = Num(y, ii)
  BY DEF Replies, IsLinked, CheckMsg, Num, SameNumbers
<1>2. IsLinked(crc, ii) => Num(x, ii) = Num(y, ii)
  BY DEF IsLinked, CheckMsg, Num, SameNumbers
<1>3. \A e \in 1 .. Len(idx) : a1[e].ReplyTo = b1[e].ReplyTo
  BY <1>1 DEF Finds, Alike
<1>4. IsNext(crc, a, a1, k, ii) <=> IsNext(crc, b, b1, k, ii)
  BY <1>3 DEF IsNext, Alike
<1>5. IsNext(crc, a, a1, k, ii) => IsLinked(crc, ii)
  BY DEF IsNext
<1>6. ASSUME NEW e \in 1 .. Len(idx)
      PROVE  /\ a1[e].Reply1st = b1[e].Reply1st /\ a1[e].ReplyNext = b1[e].ReplyNext
             /\ x[idx[e]] = y[idx[e]] => (a1[e].rewrite <=> b1[e].rewrite)
  <2>1. a1[e].Reply1st = b1[e].Reply1st
    BY <1>1 DEF Finds, Alike
  <2>2. a1[e].ReplyNext = b1[e].ReplyNext
    BY <1>2, <1>4, <1>5 DEF Finds, Alike
  <2>3. ASSUME x[idx[e]] = y[idx[e]]
        PROVE  a1[e].rewrite <=> b1[e].rewrite
    <3>1. a[e].rewrite <=> b[e].rewrite
      BY <2>3 DEF Alike
    <3>2. (/\ e = k /\ Replies(crc, ii, k) /\ a[k].Reply1st = 0
           /\ Num(x, ii) # x[idx[k]].Reply1st)
            <=> (/\ e = k /\ Replies(crc, ii, k) /\ b[k].Reply1st = 0
                 /\ Num(y, ii) # y[idx[k]].Reply1st)
      BY <2>3, <1>1 DEF Alike
    <3>3. (e = ii /\ Replies(crc, ii, k) /\ Num(x, k) # x[idx[ii]].ReplyTo)
            <=> (e = ii /\ Replies(crc, ii, k) /\ Num(y, k) # y[idx[ii]].ReplyTo)
      BY <2>3, <1>1
    <3>4. (e = k /\ IsNext(crc, a, a1, k, ii) /\ Num(x, ii) # x[idx[k]].ReplyNext)
            <=> (e = k /\ IsNext(crc, b, b1, k, ii) /\ Num(y, ii) # y[idx[k]].ReplyNext)
      BY <2>3, <1>2, <1>4, <1>5
    <3> QED
      BY <3>1, <3>2, <3>3, <3>4, Zenon DEF Finds
  <2> QED
    BY <2>1, <2>2, <2>3
<1> QED
  BY <1>3, <1>6 DEF Alike

\* They are alike to the end.
LEMMA SameRuns ==
  ASSUME NEW x \in [Msgs -> JAMHDR], NEW y \in [Msgs -> JAMHDR], SameNumbers(x, y),
         NEW crc \in BOOLEAN, Len(idx) \in Nat,
         NEW turns, Steps(turns, x, crc), NEW others, Steps(others, y, crc)
  PROVE  Alike(x, y, turns[Len(idx)][Len(idx)], others[Len(idx)][Len(idx)])
<1> DEFINE n == Len(idx)
           Good == {g \in (0 .. n) \X (0 .. n) :
                      Alike(x, y, turns[g[1]][g[2]], others[g[1]][g[2]])}
<1>1. \A k, ii \in 0 .. n :
        << k, ii >> \in Good <=> Alike(x, y, turns[k][ii], others[k][ii])
  OBVIOUS
<1> HIDE DEF Good
<1>2. << 0, n >> \in Good
  <2>1. turns[0][n] = NothingFound /\ others[0][n] = NothingFound
    BY TurnsFind
  <2>2. 0 \in 0 .. n /\ n \in 0 .. n
    OBVIOUS
  <2> QED
    BY <2>1, <2>2, <1>1 DEF Alike
<1>3. ASSUME NEW k \in 1 .. n, << k - 1, n >> \in Good PROVE << k, 0 >> \in Good
  <2>1. turns[k][0] = turns[k - 1][n] /\ others[k][0] = others[k - 1][n]
    BY TurnsFind
  <2>2. k - 1 \in 0 .. n /\ n \in 0 .. n /\ k \in 0 .. n /\ 0 \in 0 .. n
    OBVIOUS
  <2> QED
    BY <2>1, <2>2, <1>1, <1>3
<1>4. ASSUME NEW k \in 1 .. n, NEW ii \in 1 .. n, << k, ii - 1 >> \in Good
      PROVE  << k, ii >> \in Good
  <2>1. /\ Finds(x, crc, turns[k][ii - 1], turns[k][ii], k, ii)
        /\ Finds(y, crc, others[k][ii - 1], others[k][ii], k, ii)
    BY TurnsFind
  <2>2. k \in 0 .. n /\ ii - 1 \in 0 .. n /\ ii \in 0 .. n
    OBVIOUS
  <2>3. Alike(x, y, turns[k][ii - 1], others[k][ii - 1])
    BY <2>2, <1>1, <1>4
  <2>4. Alike(x, y, turns[k][ii], others[k][ii])
    BY <2>1, <2>3, AlikeStep
  <2> QED
    BY <2>2, <2>4, <1>1
<1>5. << n, n >> \in Good
  BY <1>2, <1>3, <1>4, InductionOverTurns
<1> QED
  BY <1>1, <1>5

\* The pair of the reply r and its parent p was compared when turn ii of entry k is over.
Met(p, r, k, ii) == p < k \/ (p = k /\ r <= ii)

\* The pairs are compared in the order of the loops.
LEMMA MetFacts ==
  ASSUME NEW n \in Nat, NEW p \in 1 .. n, NEW r \in 1 .. n
  PROVE  /\ ~Met(p, r, 0, n) /\ Met(p, r, n, n)
         /\ \A k \in 1 .. n : Met(p, r, k, 0) <=> Met(p, r, k - 1, n)
         /\ \A k, ii \in 1 .. n :
              Met(p, r, k, ii) <=> Met(p, r, k, ii - 1) \/ (k = p /\ ii = r)
         /\ ~Met(p, r, p, r - 1)
         /\ \A k, ii \in 1 .. n : p < k => Met(p, r, k, ii) /\ Met(p, r, k, ii - 1)
BY DEF Met

\* All that was found leads from replies to what they answer, and back.
FoundLeads(x, crc, a) ==
  \A e \in 1 .. Len(idx) :
    /\ a[e].ReplyTo # 0 =>
         \E p \in 1 .. Len(idx) : Replies(crc, e, p) /\ a[e].ReplyTo = Num(x, p)
    /\ a[e].Reply1st # 0 =>
         \E r \in 1 .. Len(idx) : Replies(crc, r, e) /\ a[e].Reply1st = Num(x, r)
    /\ a[e].ReplyNext # 0 =>
         \E r, p, q \in 1 .. Len(idx) :
           /\ Replies(crc, e, p) /\ Replies(crc, r, q) /\ Num(x, p) = Num(x, q)
           /\ a[e].ReplyNext = Num(x, r)

\* What is not marked to be written was found as it is.
FoundOld(x, a) ==
  \A e \in 1 .. Len(idx) :
    ~a[e].rewrite =>
      /\ a[e].ReplyTo # 0 => a[e].ReplyTo = x[idx[e]].ReplyTo
      /\ a[e].Reply1st # 0 => a[e].Reply1st = x[idx[e]].Reply1st
      /\ a[e].ReplyNext # 0 => a[e].ReplyNext = x[idx[e]].ReplyNext

\* A turn finds nothing else.
LEMMA FoundLeadsStep ==
  ASSUME NEW x, NEW crc, NEW k \in 1 .. Len(idx), NEW ii \in 1 .. Len(idx),
         NEW a, NEW a1, Finds(x, crc, a, a1, k, ii), FoundLeads(x, crc, a)
  PROVE  FoundLeads(x, crc, a1)
<1>1. ASSUME NEW e \in 1 .. Len(idx), a1[e].ReplyTo # 0
      PROVE  \E p \in 1 .. Len(idx) : Replies(crc, e, p) /\ a1[e].ReplyTo = Num(x, p)
  BY <1>1 DEF Finds, FoundLeads
<1>2. ASSUME NEW e \in 1 .. Len(idx), a1[e].Reply1st # 0
      PROVE  \E r \in 1 .. Len(idx) : Replies(crc, r, e) /\ a1[e].Reply1st = Num(x, r)
  BY <1>2 DEF Finds, FoundLeads
<1>3. ASSUME NEW e \in 1 .. Len(idx), a1[e].ReplyNext # 0
      PROVE  \E r, p, q \in 1 .. Len(idx) :
               /\ Replies(crc, e, p) /\ Replies(crc, r, q) /\ Num(x, p) = Num(x, q)
               /\ a1[e].ReplyNext = Num(x, r)
  <2>1. CASE e = k /\ IsNext(crc, a, a1, k, ii)
    <3>1. a1[ii].ReplyTo # 0 /\ a1[k].ReplyTo = a1[ii].ReplyTo
      BY <2>1 DEF IsNext
    <3>2. PICK q \in 1 .. Len(idx) : Replies(crc, ii, q) /\ a1[ii].ReplyTo = Num(x, q)
      BY <3>1, <1>1
    <3>3. PICK p \in 1 .. Len(idx) : Replies(crc, k, p) /\ a1[k].ReplyTo = Num(x, p)
      BY <3>1, <1>1
    <3>4. a1[e].ReplyNext = Num(x, ii)
      BY <2>1 DEF Finds
    <3> QED
      BY <2>1, <3>1, <3>2, <3>3, <3>4
  <2>2. CASE ~(e = k /\ IsNext(crc, a, a1, k, ii))
    <3>1. a1[e].ReplyNext = a[e].ReplyNext
      BY <2>2 DEF Finds
    <3> QED
      BY <3>1, <1>3 DEF FoundLeads
  <2> QED
    BY <2>1, <2>2
<1> QED
  BY <1>1, <1>2, <1>3 DEF FoundLeads

\* A turn marks each message that it finds other links for.
LEMMA FoundOldStep ==
  ASSUME NEW x, NEW crc, NEW k \in 1 .. Len(idx), NEW ii \in 1 .. Len(idx),
         NEW a, NEW a1, Finds(x, crc, a, a1, k, ii), FoundOld(x, a)
  PROVE  FoundOld(x, a1)
<1> SUFFICES ASSUME NEW e \in 1 .. Len(idx), ~a1[e].rewrite
             PROVE  /\ a1[e].ReplyTo # 0 => a1[e].ReplyTo = x[idx[e]].ReplyTo
                    /\ a1[e].Reply1st # 0 => a1[e].Reply1st = x[idx[e]].Reply1st
                    /\ a1[e].ReplyNext # 0 => a1[e].ReplyNext = x[idx[e]].ReplyNext
  BY DEF FoundOld
<1>1. ~a[e].rewrite
  BY DEF Finds
<1>2. /\ a[e].ReplyTo # 0 => a[e].ReplyTo = x[idx[e]].ReplyTo
      /\ a[e].Reply1st # 0 => a[e].Reply1st = x[idx[e]].Reply1st
      /\ a[e].ReplyNext # 0 => a[e].ReplyNext = x[idx[e]].ReplyNext
  BY <1>1 DEF FoundOld
<1>3. a1[e].ReplyTo # 0 => a1[e].ReplyTo = x[idx[e]].ReplyTo
  BY <1>2 DEF Finds
<1>4. a1[e].Reply1st # 0 => a1[e].Reply1st = x[idx[e]].Reply1st
  BY <1>2 DEF Finds
<1>5. a1[e].ReplyNext # 0 => a1[e].ReplyNext = x[idx[e]].ReplyNext
  BY <1>2 DEF Finds
<1> QED
  BY <1>3, <1>4, <1>5

\* Both hold at all times of a run.
LEMMA RunLeads ==
  ASSUME NEW x \in [Msgs -> JAMHDR], NEW crc \in BOOLEAN, Len(idx) \in Nat,
         NEW turns, Steps(turns, x, crc)
  PROVE  LET n == Len(idx)
         IN  /\ FoundLeads(x, crc, turns[n][n]) /\ FoundOld(x, turns[n][n])
             /\ \A k \in 1 .. n : \A ii \in 0 .. n : FoundLeads(x, crc, turns[k][ii])
<1> DEFINE n == Len(idx)
           Good == {g \in (0 .. n) \X (0 .. n) :
                      /\ FoundLeads(x, crc, turns[g[1]][g[2]])
                      /\ FoundOld(x, turns[g[1]][g[2]])}
<1>1. \A k, ii \in 0 .. n :
        << k, ii >> \in Good <=> FoundLeads(x, crc, turns[k][ii]) /\ FoundOld(x, turns[k][ii])
  OBVIOUS
<1> HIDE DEF Good
<1>2. << 0, n >> \in Good
  <2>1. turns[0][n] = NothingFound
    BY TurnsFind
  <2>2. FoundLeads(x, crc, NothingFound) /\ FoundOld(x, NothingFound)
    BY DEF FoundLeads, FoundOld, NothingFound
  <2>3. 0 \in 0 .. n /\ n \in 0 .. n
    OBVIOUS
  <2> QED
    BY <2>1, <2>2, <2>3, <1>1
<1>3. ASSUME NEW k \in 1 .. n, << k - 1, n >> \in Good PROVE << k, 0 >> \in Good
  <2>1. turns[k][0] = turns[k - 1][n]
    BY TurnsFind
  <2>2. k - 1 \in 0 .. n /\ n \in 0 .. n /\ k \in 0 .. n /\ 0 \in 0 .. n
    OBVIOUS
  <2> QED
    BY <2>1, <2>2, <1>1, <1>3
<1>4. ASSUME NEW k \in 1 .. n, NEW ii \in 1 .. n, << k, ii - 1 >> \in Good
      PROVE  << k, ii >> \in Good
  <2>1. Finds(x, crc, turns[k][ii - 1], turns[k][ii], k, ii)
    BY TurnsFind
  <2>2. k \in 0 .. n /\ ii - 1 \in 0 .. n /\ ii \in 0 .. n
    OBVIOUS
  <2>3. FoundLeads(x, crc, turns[k][ii - 1]) /\ FoundOld(x, turns[k][ii - 1])
    BY <2>2, <1>1, <1>4
  <2>4. FoundLeads(x, crc, turns[k][ii]) /\ FoundOld(x, turns[k][ii])
    BY <2>1, <2>3, FoundLeadsStep, FoundOldStep
  <2> QED
    BY <2>2, <2>4, <1>1
<1>5. << n, n >> \in Good /\ \A k \in 1 .. n : \A ii \in 0 .. n : << k, ii >> \in Good
  BY <1>2, <1>3, <1>4, InductionOverTurns
<1>6. \A k \in 1 .. n : k \in 0 .. n
  OBVIOUS
<1>7. n \in 0 .. n
  OBVIOUS
<1> QED
  BY <1>1, <1>5, <1>6, <1>7

\* A reply comes to lead to the last of its parents.
LEMMA ParentFound ==
  ASSUME NEW x \in [Msgs -> JAMHDR], NEW crc \in BOOLEAN, Len(idx) \in Nat,
         NEW turns, Steps(turns, x, crc),
         NEW r \in 1 .. Len(idx), NEW p \in 1 .. Len(idx), Replies(crc, r, p),
         \A q \in 1 .. Len(idx) : Replies(crc, r, q) => q <= p
  PROVE  LET n == Len(idx)
         IN  /\ turns[n][n][r].ReplyTo = Num(x, p)
             /\ \A k \in 1 .. n : \A ii \in 0 .. n :
                  Met(p, r, k, ii) => turns[k][ii][r].ReplyTo = Num(x, p)
<1> DEFINE n == Len(idx)
           Good == {g \in (0 .. n) \X (0 .. n) :
                      Met(p, r, g[1], g[2]) => turns[g[1]][g[2]][r].ReplyTo = Num(x, p)}
<1>1. \A k, ii \in 0 .. n :
        << k, ii >> \in Good
          <=> (Met(p, r, k, ii) => turns[k][ii][r].ReplyTo = Num(x, p))
  OBVIOUS
<1> HIDE DEF Good
<1>2. /\ ~Met(p, r, 0, n) /\ Met(p, r, n, n)
      /\ \A k \in 1 .. n : Met(p, r, k, 0) <=> Met(p, r, k - 1, n)
      /\ \A k, ii \in 1 .. n :
           Met(p, r, k, ii) <=> Met(p, r, k, ii - 1) \/ (k = p /\ ii = r)
  BY MetFacts
<1>3. << 0, n >> \in Good
  <2>1. 0 \in 0 .. n /\ n \in 0 .. n
    OBVIOUS
  <2> QED
    BY <2>1, <1>1, <1>2
<1>4. ASSUME NEW k \in 1 .. n, << k - 1, n >> \in Good PROVE << k, 0 >> \in Good
  <2>1. turns[k][0] = turns[k - 1][n]
    BY TurnsFind
  <2>2. k - 1 \in 0 .. n /\ n \in 0 .. n /\ k \in 0 .. n /\ 0 \in 0 .. n
    OBVIOUS
  <2> QED
    BY <2>1, <2>2, <1>1, <1>2, <1>4
<1>5. ASSUME NEW k \in 1 .. n, NEW ii \in 1 .. n, << k, ii - 1 >> \in Good
      PROVE  << k, ii >> \in Good
  <2> DEFINE a == turns[k][ii - 1]
             a1 == turns[k][ii]
  <2>1. Finds(x, crc, a, a1, k, ii)
    BY TurnsFind
  <2>2. k \in 0 .. n /\ ii - 1 \in 0 .. n /\ ii \in 0 .. n
    OBVIOUS
  <2>3. Met(p, r, k, ii - 1) => a[r].ReplyTo = Num(x, p)
    BY <2>2, <1>1, <1>5
  <2> HIDE DEF a, a1
  <2>4. a1[r].ReplyTo = IF r = ii /\ Replies(crc, ii, k) THEN Num(x, k) ELSE a[r].ReplyTo
    BY <2>1 DEF Finds
  <2>5. ASSUME Met(p, r, k, ii) PROVE a1[r].ReplyTo = Num(x, p)
    <3>1. CASE r = ii /\ Replies(crc, ii, k)
      <4>1. k <= p
        BY <3>1
      <4>2. p <= k
        BY <2>5 DEF Met
      <4> QED
        BY <4>1, <4>2, <3>1, <2>4
    <3>2. CASE ~(r = ii /\ Replies(crc, ii, k))
      <4>1. ~(k = p /\ ii = r)
        BY <3>2
      <4> QED
        BY <4>1, <3>2, <2>3, <2>4, <2>5, <1>2
    <3> QED
      BY <3>1, <3>2
  <2> QED
    BY <2>2, <2>5, <1>1 DEF a1
<1>6. << n, n >> \in Good /\ \A k \in 1 .. n : \A ii \in 0 .. n : << k, ii >> \in Good
  BY <1>3, <1>4, <1>5, InductionOverTurns
<1>7. n \in 0 .. n /\ \A k \in 1 .. n : k \in 0 .. n
  OBVIOUS
<1> QED
  BY <1>1, <1>2, <1>6, <1>7

\* A message comes to lead to the first of its replies.
LEMMA FirstFound ==
  ASSUME NEW x \in [Msgs -> JAMHDR], NEW crc \in BOOLEAN, Len(idx) \in Nat,
         NEW turns, Steps(turns, x, crc),
         NEW p \in 1 .. Len(idx), NEW r \in 1 .. Len(idx), Replies(crc, r, p),
         \A q \in 1 .. Len(idx) : Replies(crc, q, p) => r <= q,
         Num(x, r) # 0
  PROVE  turns[Len(idx)][Len(idx)][p].Reply1st = Num(x, r)
<1> DEFINE n == Len(idx)
           Then(k, ii) == IF Met(p, r, k, ii) THEN Num(x, r) ELSE 0
           Good == {g \in (0 .. n) \X (0 .. n) :
                      turns[g[1]][g[2]][p].Reply1st = Then(g[1], g[2])}
<1>1. \A k, ii \in 0 .. n :
        << k, ii >> \in Good <=> turns[k][ii][p].Reply1st = Then(k, ii)
  OBVIOUS
<1> HIDE DEF Good
<1>2. /\ ~Met(p, r, 0, n) /\ Met(p, r, n, n)
      /\ \A k \in 1 .. n : Met(p, r, k, 0) <=> Met(p, r, k - 1, n)
      /\ \A k, ii \in 1 .. n :
           Met(p, r, k, ii) <=> Met(p, r, k, ii - 1) \/ (k = p /\ ii = r)
      /\ ~Met(p, r, p, r - 1)
  BY MetFacts
<1>3. << 0, n >> \in Good
  <2>1. 0 \in 0 .. n /\ n \in 0 .. n
    OBVIOUS
  <2>2. turns[0][n][p].Reply1st = 0
    <3>1. turns[0][n] = NothingFound
      BY TurnsFind
    <3> QED
      BY <3>1 DEF NothingFound
  <2> QED
    BY <2>1, <2>2, <1>1, <1>2
<1>4. ASSUME NEW k \in 1 .. n, << k - 1, n >> \in Good PROVE << k, 0 >> \in Good
  <2>1. turns[k][0] = turns[k - 1][n]
    BY TurnsFind
  <2>2. k - 1 \in 0 .. n /\ n \in 0 .. n /\ k \in 0 .. n /\ 0 \in 0 .. n
    OBVIOUS
  <2> QED
    BY <2>1, <2>2, <1>1, <1>2, <1>4
<1>5. ASSUME NEW k \in 1 .. n, NEW ii \in 1 .. n, << k, ii - 1 >> \in Good
      PROVE  << k, ii >> \in Good
  <2> DEFINE a == turns[k][ii - 1]
             a1 == turns[k][ii]
  <2>1. Finds(x, crc, a, a1, k, ii)
    BY TurnsFind
  <2>2. k \in 0 .. n /\ ii - 1 \in 0 .. n /\ ii \in 0 .. n
    OBVIOUS
  <2>3. a[p].Reply1st = Then(k, ii - 1)
    BY <2>2, <1>1, <1>5
  <2> HIDE DEF a, a1
  <2>4. a1[p].Reply1st = IF p = k /\ Replies(crc, ii, k) /\ a[k].Reply1st = 0
                         THEN Num(x, ii) ELSE a[p].Reply1st
    BY <2>1 DEF Finds
  <2>5. a1[p].Reply1st = Then(k, ii)
    <3>1. CASE k = p /\ ii = r
      <4>1. a[p].Reply1st = 0
        BY <3>1, <2>3, <1>2
      <4> QED
        BY <4>1, <3>1, <2>4, <1>2
    <3>2. CASE ~(k = p /\ ii = r)
      <4>1. Then(k, ii) = Then(k, ii - 1)
        BY <3>2, <1>2
      <4>2. ASSUME p = k, Replies(crc, ii, k) PROVE a[k].Reply1st # 0
        <5>1. r <= ii /\ r # ii
          BY <4>2, <3>2
        <5>2. Met(p, r, k, ii - 1)
          BY <5>1, <4>2 DEF Met
        <5> QED
          BY <5>2, <4>2, <2>3
      <4> HIDE DEF At
      <4> QED
        BY <4>1, <4>2, <2>3, <2>4
    <3> QED
      BY <3>1, <3>2
  <2> HIDE DEF At
  <2> QED
    BY <2>2, <2>5, <1>1 DEF a1
<1>6. << n, n >> \in Good
  BY <1>3, <1>4, <1>5, InductionOverTurns
<1>7. n \in 0 .. n
  OBVIOUS
<1> QED
  BY <1>1, <1>2, <1>6, <1>7

\* A reply comes to lead to the next one, if both answer the same message and no other
\* one, that stands in front of them, and no other number is the same as its.
LEMMA ChainFound ==
  ASSUME NEW x \in [Msgs -> JAMHDR], NEW crc \in BOOLEAN, Len(idx) \in Nat,
         NEW turns, Steps(turns, x, crc),
         NEW p \in 1 .. Len(idx), NEW r \in 1 .. Len(idx), NEW s \in 1 .. Len(idx),
         p < r, r < s, Replies(crc, r, p), Replies(crc, s, p),
         \A q \in 1 .. Len(idx) : Replies(crc, r, q) \/ Replies(crc, s, q) => q = p,
         \A q \in r + 1 .. s - 1 : ~Replies(crc, q, p),
         Num(x, p) # 0, Num(x, s) # 0,
         \A q \in 1 .. Len(idx) : IsLinked(crc, q) /\ Num(x, q) = Num(x, p) => q = p
  PROVE  turns[Len(idx)][Len(idx)][r].ReplyNext = Num(x, s)
<1> DEFINE n == Len(idx)
           Then(k, ii) == IF Met(r, s, k, ii) THEN Num(x, s) ELSE 0
           Good == {g \in (0 .. n) \X (0 .. n) :
                      turns[g[1]][g[2]][r].ReplyNext = Then(g[1], g[2])}
<1>1. \A k, ii \in 0 .. n :
        << k, ii >> \in Good <=> turns[k][ii][r].ReplyNext = Then(k, ii)
  OBVIOUS
<1> HIDE DEF Good
<1>2. /\ ~Met(r, s, 0, n) /\ Met(r, s, n, n)
      /\ \A k \in 1 .. n : Met(r, s, k, 0) <=> Met(r, s, k - 1, n)
      /\ \A k, ii \in 1 .. n :
           Met(r, s, k, ii) <=> Met(r, s, k, ii - 1) \/ (k = r /\ ii = s)
      /\ ~Met(r, s, r, s - 1)
  BY MetFacts
<1>3. << 0, n >> \in Good
  <2>1. 0 \in 0 .. n /\ n \in 0 .. n
    OBVIOUS
  <2>2. turns[0][n][r].ReplyNext = 0
    <3>1. turns[0][n] = NothingFound
      BY TurnsFind
    <3> QED
      BY <3>1 DEF NothingFound
  <2> QED
    BY <2>1, <2>2, <1>1, <1>2
<1>4. ASSUME NEW k \in 1 .. n, << k - 1, n >> \in Good PROVE << k, 0 >> \in Good
  <2>1. turns[k][0] = turns[k - 1][n]
    BY TurnsFind
  <2>2. k - 1 \in 0 .. n /\ n \in 0 .. n /\ k \in 0 .. n /\ 0 \in 0 .. n
    OBVIOUS
  <2>3. Then(k, 0) = Then(k - 1, n)
    BY <1>2
  <2> HIDE DEF At
  <2>4. turns[k - 1][n][r].ReplyNext = Then(k - 1, n)
    BY <2>2, <1>1, <1>4
  <2> QED
    BY <2>1, <2>2, <2>3, <2>4, <1>1
<1>5. ASSUME NEW ii \in 0 .. n
      PROVE  turns[r][ii][r].ReplyTo = Num(x, p) /\ turns[r][ii][s].ReplyTo = Num(x, p)
  <2>1. Met(p, r, r, ii) /\ Met(p, s, r, ii)
    BY DEF Met
  <2>2. (\A q \in 1 .. n : Replies(crc, r, q) => q <= p)
        /\ (\A q \in 1 .. n : Replies(crc, s, q) => q <= p)
    OBVIOUS
  <2>3. turns[r][ii][r].ReplyTo = Num(x, p)
    BY <2>1, <2>2, ParentFound
  <2>4. turns[r][ii][s].ReplyTo = Num(x, p)
    BY <2>1, <2>2, ParentFound
  <2> QED
    BY <2>3, <2>4
<1>6. ASSUME NEW k \in 1 .. n, NEW ii \in 1 .. n, << k, ii - 1 >> \in Good
      PROVE  << k, ii >> \in Good
  <2> DEFINE a == turns[k][ii - 1]
             a1 == turns[k][ii]
  <2>1. Finds(x, crc, a, a1, k, ii)
    BY TurnsFind
  <2>2. k \in 0 .. n /\ ii - 1 \in 0 .. n /\ ii \in 0 .. n
    OBVIOUS
  <2>3. a[r].ReplyNext = Then(k, ii - 1)
    BY <2>2, <1>1, <1>6
  <2>4. k = r => a1[r].ReplyTo = Num(x, p) /\ a1[s].ReplyTo = Num(x, p)
    BY <2>2, <1>5
  <2>5. FoundLeads(x, crc, a1)
    BY <2>2, RunLeads
  <2> HIDE DEF a, a1
  <2>6. a1[r].ReplyNext = IF r = k /\ IsNext(crc, a, a1, k, ii)
                          THEN Num(x, ii) ELSE a[r].ReplyNext
    BY <2>1 DEF Finds
  <2>7. a1[r].ReplyNext = Then(k, ii)
    <3>1. CASE k = r /\ ii = s
      <4>1. a[r].ReplyNext = 0
        BY <3>1, <2>3, <1>2
      <4>2. IsLinked(crc, r) /\ IsLinked(crc, s)
        BY DEF Replies
      <4>3. IsNext(crc, a, a1, k, ii)
        BY <4>1, <4>2, <3>1, <2>4 DEF IsNext
      <4> QED
        BY <4>3, <3>1, <2>6, <1>2
    <3>2. CASE ~(k = r /\ ii = s)
      <4>1. Then(k, ii) = Then(k, ii - 1)
        BY <3>2, <1>2
      <4>2. ASSUME k = r, IsNext(crc, a, a1, k, ii) PROVE FALSE
        <5>1. ii > r /\ a1[ii].ReplyTo = Num(x, p) /\ a[r].ReplyNext = 0
          BY <4>2, <2>4 DEF IsNext
        <5>2. ~Met(r, s, k, ii - 1)
          BY <5>1, <2>3
        <5>3. ii \in r + 1 .. s - 1
          BY <5>1, <5>2, <4>2, <3>2 DEF Met
        <5>4. PICK q \in 1 .. n : Replies(crc, ii, q) /\ a1[ii].ReplyTo = Num(x, q)
          BY <5>1, <2>5 DEF FoundLeads
        <5>5. IsLinked(crc, q)
          BY <5>4 DEF Replies
        <5>6. q = p
          BY <5>1, <5>4, <5>5
        <5> QED
          BY <5>3, <5>4, <5>6
      <4> HIDE DEF At
      <4> QED
        BY <4>1, <4>2, <2>3, <2>6
    <3> QED
      BY <3>1, <3>2
  <2> HIDE DEF At
  <2> QED
    BY <2>2, <2>7, <1>1 DEF a1
<1>7. << n, n >> \in Good
  BY <1>3, <1>4, <1>6, InductionOverTurns
<1>8. n \in 0 .. n
  OBVIOUS
<1> QED
  BY <1>1, <1>2, <1>7, <1>8

-----------------------------------------------------------------------------
(* The inductive invariant. *)

Tossed == {m \in Msgs : state[m] # "none"}

\* The area: an entry leads to a header that was written, and before a sort may have
\* made the index longer than it was, there is one for each entry.
Area ==
  /\ AreaType
  /\ ~Grown => Len(idx) <= Cardinality(Tossed)
  /\ \A k \in 1 .. Len(idx) : idx[k] \in Msgs => idx[k] \in Tossed
  /\ Grown => pc \in {"idle", "sorted"}

InSort == pc \in {"sort", "sortmsg", "sortidx", "sorted"}
Locked == pc \in {"sortmsg", "sortidx", "sorted"}

\* What a run has in memory is there only while it runs.
Memory ==
  /\ lastread \in 0 .. Dword - 1 /\ idxPos \in 0 .. Dword - 1
  /\ firstnum \in 0 .. Dword - 1 /\ moved \in BOOLEAN
  /\ ~InSort => lastread = 0 /\ moved = FALSE
  /\ ~Locked => jamsort = << >> /\ idxPos = 0 /\ firstnum = 0 /\ before = << >>
  /\ pc # "link" => msginfo = << >> /\ i = 0
  /\ pc = "link" => Len(msginfo) = Len(idx) /\ i \in 1 .. Len(idx) + 1
  /\ msginfo \in Seq(Info) /\ byCRC \in BOOLEAN
  /\ runs \in 0 .. MaxRuns /\ crashes \in 0 .. MaxCrashes
  /\ sorted \subseteq Msgs /\ skewed \in BOOLEAN /\ raced \in BOOLEAN

\* The last read numbers: a user who did not read on during a sort has read what is
\* in the index, unless the sort began behind its end, at a number from before
\* BaseMsgNum.
Marks ==
  /\ InSort /\ ~moved =>
       /\ \A u \in Users : lrd[u] <= lastread
       /\ lastread # 0 => \E u \in Users : lrd[u] = lastread
  /\ moved => raced
  /\ ~raced /\ ~Grown => \A u \in Users : lrd[u] < BaseMsgNum + Len(idx)
  /\ ~raced /\ Grown => /\ \A u \in Users : lrd[u] <= BaseMsgNum - 2
                        /\ \E u \in Users : lrd[u] >= 1

\* How far a sort has come: the entries up to idxPos are written, and the list holds
\* what is left of the new order.
Progress ==
  /\ before \in Seq(Msgs \cup {Cleared})
  /\ idxPos \in Start .. Start + Len(Ordered)
  /\ jamsort \in Seq(Msg) /\ Len(jamsort) = Start + Len(Ordered) - idxPos
  /\ \A k \in 1 .. Len(jamsort) : jamsort[k] = Ordered[idxPos - Start + k]
  /\ Sorting => Len(idx) = Len(before)
  /\ pc = "sortidx" => jamsort # << >>
  /\ pc = "sorted" => jamsort = << >> /\ Len(idx) = idxPos

\* What it has written to the index, ...
Written ==
  \A k \in 1 .. Len(idx) :
    idx[k] = IF k > Len(before) THEN Zero
             ELSE IF Start < k /\ k <= idxPos THEN Ordered[k - Start].msg
             ELSE before[k]

\* ...and to the headers: each number is one above the one before it, as far as no
\* message is written twice.
HdrsWritten == IF pc = "sortidx" THEN idxPos - Start + 1 ELSE idxPos - Start

NewNum(k) == hdr[Ordered[k].msg].MsgNum

Counted ==
  ActiveOnce(before) =>
    /\ \A k \in 1 .. HdrsWritten : hdr[Ordered[k].msg] = Unlinked(NewNum(k))
    /\ \A k \in 2 .. HdrsWritten : NewNum(k) = (NewNum(k - 1) + 1) % Dword
    /\ pc = "sortmsg" /\ HdrsWritten # 0 => firstnum = (NewNum(HdrsWritten) + 1) % Dword
    /\ pc = "sortidx" => firstnum = NewNum(HdrsWritten)

\* As long as nothing is skewed, numbers are places.
InPlace == \A k \in 1 .. Len(idx) : CheckMsg(idx[k]) => hdr[idx[k]].MsgNum = Number(k)

Placed ==
  ~skewed =>
    /\ ~Sorting => InPlace
    /\ Sorting =>
         /\ ActiveOnce(before)
         /\ \A k \in 1 .. Len(before) :
              k <= Start /\ CheckMsg(before[k]) => hdr[before[k]].MsgNum = Number(k)
         /\ jamsort # << >> => firstnum = Number(idxPos + 1)
         /\ \A k \in 1 .. HdrsWritten : NewNum(k) = Number(Start + k)

IInv == Area /\ Memory /\ Marks /\ Placed /\ (Locked => Progress /\ Written /\ Counted)

PCs == {"idle", "sort", "sortmsg", "sortidx", "sorted", "link"}

-----------------------------------------------------------------------------
(* The area. *)

\* The parts of Area.
LEMMA AreaFacts ==
  ASSUME Area
  PROVE  /\ state \in [Msgs -> {"none", "active", "deleted"}]
         /\ hdr \in [Msgs -> JAMHDR] /\ lrd \in [Users -> 0 .. Dword - 1]
         /\ text \in Texts /\ pc \in PCs
         /\ idx \in Seq(Entries) /\ Len(idx) \in Nat
         /\ \A k \in 1 .. Len(idx) : idx[k] \in Entries
         /\ Grown <=> \E k \in 1 .. Len(idx) : idx[k] = Zero
         /\ IsFiniteSet(Tossed) /\ Cardinality(Tossed) \in Nat
         /\ Cardinality(Tossed) <= Cardinality(Msgs)
         /\ ~Grown => Len(idx) <= Cardinality(Msgs)
<1>1. /\ idx \in Seq(Entries) /\ Len(idx) \in Nat
      /\ \A k \in 1 .. Len(idx) : idx[k] \in Entries
  <2>1. idx \in Seq(Entries)
    BY DEF Area, AreaType, Entries
  <2> QED
    BY <2>1, LenProperties, ElementOfSeq
<1>2. Grown <=> \E k \in 1 .. Len(idx) : idx[k] = Zero
  <2>1. DOMAIN idx = 1 .. Len(idx)
    BY <1>1
  <2> QED
    BY <2>1 DEF Grown, ToSet
<1>3. /\ IsFiniteSet(Tossed) /\ Cardinality(Tossed) \in Nat
      /\ Cardinality(Tossed) <= Cardinality(Msgs) /\ Cardinality(Msgs) \in Nat
  <2>1. Tossed \subseteq Msgs /\ IsFiniteSet(Msgs)
    BY AreaAssumption DEF Tossed
  <2> QED
    BY <2>1, FS_Subset, FS_CardinalityType
<1>4. ~Grown => Len(idx) <= Cardinality(Msgs)
  BY <1>1, <1>3 DEF Area
<1> QED
  BY <1>1, <1>2, <1>3, <1>4 DEF Area, AreaType, PCs

\* The numbers of the entries, and of the next one, are dwords.
LEMMA NumberType ==
  ASSUME Area, ~Grown, NEW k \in 1 .. Len(idx) + 1
  PROVE  Number(k) \in 1 .. Dword - 1 /\ Number(k) \in 0 .. Dword - 1
BY AreaFacts, DwordFacts DEF Number

LEMMA UnlinkedType == \A n \in 0 .. Dword - 1 : Unlinked(n) \in JAMHDR
BY DwordFacts DEF Unlinked, JAMHDR

\* A step that writes at most headers keeps it.
LEMMA AreaKept ==
  ASSUME Area, UNCHANGED << state, idx, lrd, text >>, hdr' \in [Msgs -> JAMHDR],
         pc' \in PCs, Grown => pc' \in {"idle", "sorted"}
  PROVE  Area' /\ Grown' = Grown
<1>1. Tossed' = Tossed
  BY DEF Tossed
<1>2. Grown' = Grown
  BY DEF Grown
<1>3. AreaType'
  BY DEF Area, AreaType, PCs
<1> QED
  BY <1>1, <1>2, <1>3 DEF Area

LEMMA AreaKeptByNoWrite ==
  ASSUME Area, UNCHANGED files, pc' \in PCs, Grown => pc' \in {"idle", "sorted"}
  PROVE  Area' /\ Grown' = Grown
BY AreaKept, AreaFacts DEF files

\* Writing one entry.
LEMMA EntryWritten ==
  ASSUME Area, NEW k \in 1 .. Len(idx), NEW e \in Entries, e # Zero,
         idx' = [idx EXCEPT ![k] = e]
  PROVE  /\ idx' \in Seq(Entries) /\ Len(idx') = Len(idx)
         /\ idx'[k] = e
         /\ \A j \in 1 .. Len(idx) : j # k => idx'[j] = idx[j]
         /\ ~Grown => ~Grown'
<1>1. idx \in Seq(Entries) /\ Len(idx) \in Nat
  BY AreaFacts
<1>2. /\ idx' \in Seq(Entries) /\ Len(idx') = Len(idx)
      /\ idx'[k] = e /\ \A j \in 1 .. Len(idx) : j # k => idx'[j] = idx[j]
  BY <1>1
<1>3. DOMAIN idx' = 1 .. Len(idx)
  BY <1>1
<1>4. ASSUME ~Grown PROVE ~Grown'
  <2>1. \A j \in 1 .. Len(idx) : idx[j] # Zero
    BY <1>4, AreaFacts
  <2>2. \A j \in 1 .. Len(idx) : idx'[j] # Zero
    BY <2>1, <1>2
  <2> QED
    BY <2>2, <1>3 DEF Grown, ToSet
<1> QED
  BY <1>2, <1>4

\* The tosser appends a message.
LEMMA AreaKeptByToss ==
  ASSUME Area, NEW m \in Msgs, Toss(m), pc' = pc
  PROVE  Area' /\ ~Grown /\ ~Grown'
<1>1. /\ ~Grown /\ state[m] = "none" /\ state' = [state EXCEPT ![m] = "active"]
      /\ hdr' = [hdr EXCEPT ![m] = Unlinked(Number(Len(idx) + 1))]
      /\ idx' = Append(idx, m) /\ lrd' = lrd /\ text' = text
  BY DEF Toss, Unlocked
<1>2. /\ idx \in Seq(Entries) /\ Len(idx) \in Nat /\ m \in Entries
      /\ \A k \in 1 .. Len(idx) : idx[k] # Zero
  BY <1>1, AreaFacts DEF Entries
<1>3. /\ idx' \in Seq(Entries) /\ Len(idx') = Len(idx) + 1
      /\ \A k \in 1 .. Len(idx) : idx'[k] = idx[k]
      /\ idx'[Len(idx) + 1] = m
  BY <1>1, <1>2
<1>4. \A k \in 1 .. Len(idx) + 1 : k \in 1 .. Len(idx) \/ k = Len(idx) + 1
  BY <1>2
<1>5. ~Grown'
  <2>1. DOMAIN idx' = 1 .. Len(idx) + 1
    BY <1>3, <1>2
  <2>2. \A k \in 1 .. Len(idx) + 1 : idx'[k] # Zero
    BY <1>2, <1>3, <1>4, EntriesApart
  <2> QED
    BY <2>1, <2>2 DEF Grown, ToSet
<1>6. Tossed' = Tossed \cup {m} /\ m \notin Tossed
  BY <1>1, AreaFacts DEF Tossed
<1>7. Cardinality(Tossed') = Cardinality(Tossed) + 1 /\ Cardinality(Tossed) \in Nat
  BY <1>6, AreaFacts, FS_AddElement
<1>8. Len(idx') <= Cardinality(Tossed')
  BY <1>1, <1>2, <1>3, <1>7 DEF Area
<1>9. \A k \in 1 .. Len(idx') : idx'[k] \in Msgs => idx'[k] \in Tossed'
  <2>1. \A k \in 1 .. Len(idx) : idx[k] \in Msgs => idx[k] \in Tossed
    BY DEF Area
  <2> QED
    BY <2>1, <1>3, <1>4, <1>6
<1>10. AreaType'
  <2>1. hdr' \in [Msgs -> JAMHDR]
    <3>1. Len(idx) + 1 \in 1 .. Len(idx) + 1
      BY <1>2
    <3>2. Unlinked(Number(Len(idx) + 1)) \in JAMHDR
      BY <3>1, <1>1, NumberType, UnlinkedType
    <3> QED
      BY <3>2, <1>1, AreaFacts
  <2>2. state' \in [Msgs -> {"none", "active", "deleted"}]
    BY <1>1, AreaFacts
  <2> QED
    BY <2>1, <2>2, <1>1, <1>3, AreaFacts DEF AreaType, Entries, PCs
<1> QED
  BY <1>1, <1>5, <1>8, <1>9, <1>10 DEF Area

\* A message that is marked as deleted was tossed all the same.
LEMMA MarkedIsTossed ==
  ASSUME Area, NEW m \in Msgs, state[m] = "active",
         state' = [state EXCEPT ![m] = "deleted"]
  PROVE  /\ Tossed' = Tossed
         /\ state' \in [Msgs -> {"none", "active", "deleted"}]
BY AreaFacts DEF Tossed

LEMMA AreaKeptByPurge ==
  ASSUME Area, NEW k \in 1 .. Len(idx), Purge(k), pc' = pc
  PROVE  Area' /\ ~Grown /\ ~Grown' /\ Len(idx') = Len(idx)
<1>1. /\ ~Grown /\ idx[k] \in Msgs /\ state[idx[k]] = "active"
      /\ state' = [state EXCEPT ![idx[k]] = "deleted"]
      /\ idx' = [idx EXCEPT ![k] = Cleared] /\ hdr' = hdr /\ lrd' = lrd /\ text' = text
  BY DEF Purge, Unlocked, CheckMsg
<1>2. Cleared \in Entries /\ Cleared # Zero /\ Cleared \notin Msgs
  BY EntriesApart DEF Entries
<1>3. /\ idx' \in Seq(Entries) /\ Len(idx') = Len(idx) /\ idx'[k] = Cleared
      /\ \A j \in 1 .. Len(idx) : j # k => idx'[j] = idx[j]
      /\ ~Grown'
  BY <1>1, <1>2, EntryWritten
<1>4. Tossed' = Tossed /\ state' \in [Msgs -> {"none", "active", "deleted"}]
  BY <1>1, MarkedIsTossed
<1>5. \A j \in 1 .. Len(idx') : idx'[j] \in Msgs => idx'[j] \in Tossed'
  <2>1. \A j \in 1 .. Len(idx) : idx[j] \in Msgs => idx[j] \in Tossed
    BY DEF Area
  <2> QED
    BY <2>1, <1>2, <1>3, <1>4
<1>6. AreaType'
  <2>1. state' \in [Msgs -> {"none", "active", "deleted"}]
    BY <1>4
  <2>2. hdr' \in [Msgs -> JAMHDR] /\ lrd' \in [Users -> 0 .. Dword - 1] /\ text' \in Texts
    BY <1>1, AreaFacts
  <2>3. idx' \in Seq(Msgs \cup {Cleared, Zero})
    BY <1>3 DEF Entries
  <2>4. pc' \in PCs
    BY AreaFacts
  <2> QED
    BY <2>1, <2>2, <2>3, <2>4 DEF AreaType, PCs
<1> QED
  BY <1>1, <1>3, <1>4, <1>5, <1>6 DEF Area

LEMMA AreaKeptByPurgeDies ==
  ASSUME Area, NEW k \in 1 .. Len(idx), PurgeDies(k), pc' = pc
  PROVE  Area' /\ ~Grown /\ ~Grown'
<1>1. /\ ~Grown /\ idx[k] \in Msgs /\ state[idx[k]] = "active"
      /\ state' = [state EXCEPT ![idx[k]] = "deleted"]
      /\ UNCHANGED << hdr, idx, lrd, text >>
  BY DEF PurgeDies, Unlocked, CheckMsg
<1>2. Tossed' = Tossed /\ state' \in [Msgs -> {"none", "active", "deleted"}]
  BY <1>1, MarkedIsTossed
<1>3. ~Grown'
  BY <1>1 DEF Grown
<1>4. AreaType'
  <2>1. state' \in [Msgs -> {"none", "active", "deleted"}]
    BY <1>2
  <2>2. hdr' = hdr /\ idx' = idx /\ lrd' = lrd /\ text' = text
    BY <1>1
  <2> QED
    BY <2>1, <2>2 DEF Area, AreaType
<1> QED
  BY <1>1, <1>2, <1>3, <1>4 DEF Area

LEMMA AreaKeptByReadOn ==
  ASSUME Area, NEW u \in Users, NEW k \in 1 .. Len(idx), ReadOn(u, k), pc' = pc
  PROVE  Area' /\ ~Grown /\ ~Grown'
<1>1. /\ ~Grown /\ lrd' = [lrd EXCEPT ![u] = Number(k)]
      /\ UNCHANGED << state, hdr, idx, text >>
  BY DEF ReadOn
<1>2. Number(k) \in 0 .. Dword - 1
  <2>1. k \in 1 .. Len(idx) + 1
    BY AreaFacts
  <2> QED
    BY <1>1, <2>1, NumberType
<1>3. lrd' \in [Users -> 0 .. Dword - 1]
  BY <1>1, <1>2, AreaFacts
<1>4. Tossed' = Tossed /\ Grown' = Grown
  BY <1>1 DEF Tossed, Grown
<1>5. AreaType'
  <2>1. state' = state /\ hdr' = hdr /\ idx' = idx /\ text' = text
    BY <1>1
  <2> QED
    BY <2>1, <1>3 DEF Area, AreaType
<1> QED
  BY <1>1, <1>4, <1>5 DEF Area

-----------------------------------------------------------------------------
(* The steps of a sort. *)

\* What is known while the lock is held.
LEMMA SortFacts ==
  ASSUME Area, Memory, Progress
  PROVE  /\ before \in Seq(Entries) /\ Len(before) \in Nat
         /\ \A k \in 1 .. Len(before) : before[k] \in Entries /\ before[k] # Zero
         /\ Start \in 0 .. Dword - 1 /\ Start \in Nat /\ Len(Ordered) \in Nat
         /\ Len(Ordered) # 0 => Start + Len(Ordered) <= Len(before)
         /\ Ordered \in Seq(Msg)
         /\ idxPos \in Start .. Start + Len(Ordered) /\ idxPos \in Nat
         /\ Len(jamsort) \in Nat /\ (jamsort = << >> <=> Len(jamsort) = 0)
<1>1. /\ before \in Seq(Entries) /\ Len(before) \in Nat
      /\ \A k \in 1 .. Len(before) : before[k] \in Entries /\ before[k] # Zero
  <2>1. before \in Seq(Msgs \cup {Cleared})
    BY DEF Progress
  <2>2. \A e \in Msgs \cup {Cleared} : e \in Entries /\ e # Zero
    BY EntriesApart DEF Entries
  <2>3. Len(before) \in Nat /\ \A k \in 1 .. Len(before) : before[k] \in Msgs \cup {Cleared}
    BY <2>1, LenProperties, ElementOfSeq
  <2>4. before \in Seq(Entries)
    BY <2>1 DEF Entries
  <2> QED
    BY <2>2, <2>3, <2>4
<1>2. Start \in 0 .. Dword - 1 /\ Start \in Nat
  BY StartValue DEF Memory
<1>3. /\ Len(Ordered) \in Nat /\ Ordered \in Seq(Msg)
      /\ Len(Ordered) # 0 => Start + Len(Ordered) <= Len(before)
  BY <1>1, <1>2, AreaFacts, OrderedProperties
<1>4. jamsort \in Seq(Msg) /\ idxPos \in Start .. Start + Len(Ordered)
  BY DEF Progress
<1>5. Len(jamsort) \in Nat /\ (jamsort = << >> <=> Len(jamsort) = 0)
  BY <1>4, LenProperties, EmptySeq
<1> QED
  BY <1>1, <1>2, <1>3, <1>4, <1>5

\* The next message of the list.
LEMMA NextOfList ==
  ASSUME Area, Memory, Progress, jamsort # << >>
  PROVE  LET n == idxPos - Start + 1
         IN  /\ n \in 1 .. Len(Ordered) /\ jamsort[1] = Ordered[n]
             /\ Ordered[n].msg \in Msgs /\ CheckMsg(Ordered[n].msg)
             /\ idxPos + 1 \in 1 .. Len(before) /\ Start < idxPos + 1
             /\ Start + n = idxPos + 1
<1> DEFINE n == idxPos - Start + 1
<1>1. /\ before \in Seq(Entries) /\ Len(before) \in Nat
      /\ Start \in Nat /\ Len(Ordered) \in Nat /\ idxPos \in Nat
      /\ Len(Ordered) # 0 => Start + Len(Ordered) <= Len(before)
      /\ idxPos \in Start .. Start + Len(Ordered)
      /\ Len(jamsort) \in Nat /\ Len(jamsort) # 0
  BY SortFacts
<1>2. /\ Len(jamsort) = Start + Len(Ordered) - idxPos
      /\ \A k \in 1 .. Len(jamsort) : jamsort[k] = Ordered[idxPos - Start + k]
  BY DEF Progress
<1>3. 1 \in 1 .. Len(jamsort)
  BY <1>1
<1>4. jamsort[1] = Ordered[n]
  BY <1>2, <1>3
<1>5. n \in 1 .. Len(Ordered) /\ Start + n = idxPos + 1 /\ Start < idxPos + 1
  BY <1>1, <1>2
<1>6. idxPos + 1 \in 1 .. Len(before)
  BY <1>1, <1>5
<1>7. Ordered[n].msg \in Msgs /\ CheckMsg(Ordered[n].msg)
  BY <1>1, <1>5, AreaFacts, OrderedFromIndex
<1> QED
  BY <1>4, <1>5, <1>6, <1>7

\* What a step of a sort that holds the lock leaves alone.
LEMMA SortFrame ==
  ASSUME Memory, Sort, Locked
  PROVE  /\ UNCHANGED << linkMemory, runs, crashes, raced, skewed >>
         /\ sorted' = IF pc' = "sorted" THEN {idx'[k] : k \in Start + 1 .. Len(idx')}
                      ELSE sorted
<1>1. pc # "idle" /\ ~LockToSort
  BY DEF Locked, LockToSort
<1>2. UNCHANGED << linkMemory, runs, crashes, raced >>
  BY <1>1 DEF Sort, Called
<1>3. skewed' = skewed
  <2>1. skewed' = (skewed \/ FALSE)
    BY <1>1, Zenon DEF Sort
  <2>2. skewed \in BOOLEAN
    BY DEF Memory
  <2> QED
    BY <2>1, <2>2
<1> QED
  BY <1>2, <1>3 DEF Sort

LEMMA MarksKept ==
  ASSUME Marks, UNCHANGED << lrd, moved, raced, lastread >>, Len(idx') = Len(idx),
         Grown' = Grown, InSort' = InSort
  PROVE  Marks'
BY DEF Marks

LEMMA WriteHdrStep ==
  ASSUME IInv, Sort, WriteHdr
  PROVE  IInv'
<1> DEFINE n == idxPos - Start + 1
           m == Ordered[n].msg
<1>0. /\ pc = "sortmsg" /\ pc' = "sortidx" /\ jamsort # << >>
      /\ hdr' = [hdr EXCEPT ![jamsort[1].msg] = Unlinked(firstnum)]
      /\ UNCHANGED << state, idx, lrd, text, lastread, jamsort, idxPos, firstnum >>
      /\ UNCHANGED << before, moved >>
  BY DEF WriteHdr, Renumbered, sortMemory, sortHistory
<1>1. Area /\ Memory /\ Marks /\ Placed /\ Progress /\ Written /\ Counted /\ Locked
  BY <1>0 DEF IInv, Locked
<1>2. /\ UNCHANGED << byCRC, msginfo, i, runs, crashes, raced, skewed, sorted >>
  BY <1>0, <1>1, SortFrame DEF linkMemory
<1>3. /\ n \in 1 .. Len(Ordered) /\ jamsort[1] = Ordered[n] /\ m \in Msgs
      /\ Start + n = idxPos + 1
  BY <1>0, <1>1, NextOfList
<1>4. Start' = Start /\ Unsorted' = Unsorted /\ Ordered' = Ordered
  BY <1>0, OrderedKept
<1>5. /\ hdr' \in [Msgs -> JAMHDR] /\ hdr'[m] = Unlinked(firstnum)
      /\ \A x \in Msgs : x # m => hdr'[x] = hdr[x]
  <2>1. hdr \in [Msgs -> JAMHDR] /\ Unlinked(firstnum) \in JAMHDR
    BY <1>1, AreaFacts, UnlinkedType DEF Memory
  <2>2. hdr' = [hdr EXCEPT ![m] = Unlinked(firstnum)]
    BY <1>0, <1>3
  <2> HIDE DEF m
  <2> QED
    BY <2>1, <2>2, <1>3
<1>6. Area' /\ Grown' = Grown
  <2>1. Grown => FALSE
    BY <1>0, <1>1 DEF Area
  <2> QED
    BY <2>1, <1>0, <1>1, <1>5, AreaKept DEF PCs
<1>7. Memory'
  BY <1>0, <1>1, <1>2 DEF Memory, InSort, Locked
<1>8. Marks'
  <2>1. InSort' = InSort
    BY <1>0 DEF InSort
  <2> QED
    BY <2>1, <1>0, <1>1, <1>2, <1>6, MarksKept
<1>9. Progress' /\ Written'
  BY <1>0, <1>1, <1>4 DEF Progress, Written, Sorting
<1>10. /\ HdrsWritten = n - 1 /\ HdrsWritten' = n /\ n \in Nat /\ n \in 1 .. n
       /\ \A k \in 1 .. n : k # n => k \in 1 .. n - 1
       /\ Start \in Nat /\ Len(Ordered) \in Nat /\ before \in Seq(Entries) /\ text \in Texts
  <2>1. /\ Start \in Nat /\ Len(Ordered) \in Nat /\ before \in Seq(Entries)
        /\ idxPos \in Nat /\ text \in Texts
    BY <1>1, SortFacts, AreaFacts
  <2> HIDE DEF n, m
  <2>2. pc # "sortidx" /\ pc' = "sortidx" /\ idxPos' = idxPos
    BY <1>0
  <2> USE DEF n
  <2>3. HdrsWritten = n - 1 /\ HdrsWritten' = n
    BY <1>4, <2>1, <2>2 DEF HdrsWritten
  <2>4. n \in Nat /\ n \in 1 .. n /\ \A k \in 1 .. n : k # n => k \in 1 .. n - 1
    <3>1. n \in Nat /\ n >= 1
      BY <1>3, <2>1
    <3> HIDE DEF n
    <3> QED
      BY <3>1
  <2> HIDE DEF n
  <2> QED
    BY <2>1, <2>3, <2>4
<1>11. ASSUME ActiveOnce(before), NEW k \in 1 .. n - 1
       PROVE  hdr'[Ordered[k].msg] = hdr[Ordered[k].msg]
  <2>1. k \in 1 .. Len(Ordered) /\ k # n
    BY <1>3, <1>10
  <2>2. Ordered[k].msg # m /\ Ordered[k].msg \in Msgs
    BY <2>1, <1>3, <1>10, <1>11, OrderedDistinct, OrderedFromIndex
  <2> QED
    BY <2>2, <1>5
<1>12. hdr'[Ordered[n].msg] = Unlinked(firstnum) /\ hdr'[Ordered[n].msg].MsgNum = firstnum
  BY <1>5 DEF Unlinked
<1> HIDE DEF n, m
<1>13. Counted'
  <2> SUFFICES ASSUME ActiveOnce(before)
               PROVE  /\ \A k \in 1 .. n :
                           hdr'[Ordered[k].msg] = Unlinked(hdr'[Ordered[k].msg].MsgNum)
                      /\ \A k \in 2 .. n :
                           hdr'[Ordered[k].msg].MsgNum
                             = (hdr'[Ordered[k - 1].msg].MsgNum + 1) % Dword
                      /\ firstnum = hdr'[Ordered[n].msg].MsgNum
    <3>1. ActiveOnce(before)' <=> ActiveOnce(before)
      BY <1>0 DEF ActiveOnce, CheckMsg
    <3> QED
      BY <3>1, <1>0, <1>4, <1>10 DEF Counted, NewNum
  <2>1. /\ \A k \in 1 .. n - 1 : hdr[Ordered[k].msg] = Unlinked(hdr[Ordered[k].msg].MsgNum)
        /\ \A k \in 2 .. n - 1 :
             hdr[Ordered[k].msg].MsgNum = (hdr[Ordered[k - 1].msg].MsgNum + 1) % Dword
        /\ n - 1 # 0 => firstnum = (hdr[Ordered[n - 1].msg].MsgNum + 1) % Dword
    BY <1>0, <1>1, <1>10 DEF Counted, NewNum
  <2>2. ASSUME NEW k \in 1 .. n
        PROVE  hdr'[Ordered[k].msg] = Unlinked(hdr'[Ordered[k].msg].MsgNum)
    BY <2>1, <1>10, <1>11, <1>12
  <2>3. ASSUME NEW k \in 2 .. n
        PROVE  hdr'[Ordered[k].msg].MsgNum = (hdr'[Ordered[k - 1].msg].MsgNum + 1) % Dword
    <3>1. k - 1 \in 1 .. n - 1
      BY <1>10
    <3>2. hdr'[Ordered[k - 1].msg] = hdr[Ordered[k - 1].msg]
      BY <3>1, <1>11
    <3>3. CASE k = n
      BY <3>1, <3>2, <3>3, <2>1, <1>12
    <3>4. CASE k # n
      <4>1. k \in 2 .. n - 1 /\ k \in 1 .. n - 1
        BY <3>4, <1>10
      <4> QED
        BY <4>1, <3>2, <2>1, <1>11
    <3> QED
      BY <3>3, <3>4
  <2> QED
    BY <2>2, <2>3, <1>12
<1>14. Placed'
  <2> SUFFICES ASSUME ~skewed
               PROVE  /\ ActiveOnce(before)
                      /\ \A k \in 1 .. Len(before) :
                           k <= Start /\ CheckMsg(before[k]) =>
                             hdr'[before[k]].MsgNum = Number(k)
                      /\ firstnum = Number(idxPos + 1)
                      /\ \A k \in 1 .. n : hdr'[Ordered[k].msg].MsgNum = Number(Start + k)
    <3>1. ActiveOnce(before)' <=> ActiveOnce(before)
      BY <1>0 DEF ActiveOnce, CheckMsg
    <3>2. \A k : CheckMsg(before[k])' <=> CheckMsg(before[k])
      BY <1>0 DEF CheckMsg
    <3> QED
      BY <3>1, <3>2, <1>0, <1>2, <1>4, <1>10 DEF Placed, Sorting, NewNum, Number
  <2>1. /\ ActiveOnce(before)
        /\ \A k \in 1 .. Len(before) :
             k <= Start /\ CheckMsg(before[k]) => hdr[before[k]].MsgNum = Number(k)
        /\ firstnum = Number(idxPos + 1)
        /\ \A k \in 1 .. n - 1 : hdr[Ordered[k].msg].MsgNum = Number(Start + k)
    BY <1>0, <1>1, <1>10 DEF Placed, Sorting, NewNum
  <2>2. ASSUME NEW k \in 1 .. Len(before), k <= Start, CheckMsg(before[k])
        PROVE  hdr'[before[k]].MsgNum = Number(k)
    <3>1. before[k] # m /\ before[k] \in Msgs
      BY <2>1, <2>2, <1>3, <1>10, OrderedNotInFront DEF m, CheckMsg
    <3> QED
      BY <3>1, <2>1, <2>2, <1>5
  <2>3. ASSUME NEW k \in 1 .. n PROVE hdr'[Ordered[k].msg].MsgNum = Number(Start + k)
    BY <2>1, <1>3, <1>10, <1>11, <1>12
  <2> QED
    BY <2>1, <2>2, <2>3
<1> QED
  BY <1>6, <1>7, <1>8, <1>9, <1>13, <1>14 DEF IInv

LEMMA WriteIdxStep ==
  ASSUME IInv, Sort, WriteIdx
  PROVE  IInv'
<1> DEFINE n == idxPos - Start + 1
           m == Ordered[n].msg
<1>0. /\ pc = "sortidx" /\ pc' = "sortmsg"
      /\ idx' = [idx EXCEPT ![idxPos + 1] = jamsort[1].msg]
      /\ idxPos' = idxPos + 1 /\ firstnum' = (firstnum + 1) % Dword
      /\ jamsort' = Tail(jamsort)
      /\ UNCHANGED << state, hdr, lrd, text, lastread, before, moved >>
  BY DEF WriteIdx, CountOn, sortHistory
<1>1. Area /\ Memory /\ Marks /\ Placed /\ Progress /\ Written /\ Counted /\ Locked
  BY <1>0 DEF IInv, Locked
<1>2. UNCHANGED << byCRC, msginfo, i, runs, crashes, raced, skewed, sorted >>
  BY <1>0, <1>1, SortFrame DEF linkMemory
<1>3. /\ jamsort # << >> /\ n \in 1 .. Len(Ordered) /\ jamsort[1] = Ordered[n]
      /\ m \in Msgs /\ CheckMsg(m) /\ Start + n = idxPos + 1
      /\ idxPos + 1 \in 1 .. Len(before) /\ Start < idxPos + 1
  <2>1. jamsort # << >>
    BY <1>0, <1>1 DEF Progress
  <2> QED
    BY <2>1, <1>1, NextOfList
<1>4. Start' = Start /\ Unsorted' = Unsorted /\ Ordered' = Ordered
  BY <1>0, OrderedKept
<1>5. /\ before \in Seq(Entries) /\ Len(before) \in Nat /\ Len(idx) = Len(before)
      /\ Start \in Nat /\ Len(Ordered) \in Nat /\ idxPos \in Nat
      /\ idxPos \in Start .. Start + Len(Ordered)
      /\ Start + Len(Ordered) <= Len(before)
      /\ Len(jamsort) \in Nat /\ Len(jamsort) # 0
  BY <1>0, <1>1, <1>3, SortFacts DEF Progress, Sorting
<1>6. /\ idx' \in Seq(Entries) /\ Len(idx') = Len(idx) /\ idx'[idxPos + 1] = m
      /\ \A k \in 1 .. Len(idx) : k # idxPos + 1 => idx'[k] = idx[k]
      /\ ~Grown /\ ~Grown'
  <2>1. idx' = [idx EXCEPT ![idxPos + 1] = m] /\ idxPos + 1 \in 1 .. Len(idx)
    BY <1>0, <1>3, <1>5
  <2>2. m \in Entries /\ m # Zero
    BY <1>3, EntriesApart DEF Entries
  <2>3. ~Grown
    BY <1>0, <1>1 DEF Area
  <2> HIDE DEF m
  <2> QED
    BY <2>1, <2>2, <2>3, <1>1, EntryWritten
<1>7. Area'
  <2>1. Tossed' = Tossed
    BY <1>0 DEF Tossed
  <2>2. m \in Tossed
    BY <1>3 DEF Tossed, CheckMsg
  <2>3. \A k \in 1 .. Len(idx) : idx[k] \in Msgs => idx[k] \in Tossed
    BY <1>1 DEF Area
  <2>4. Len(idx) <= Cardinality(Tossed)
    BY <1>1, <1>6 DEF Area
  <2> HIDE DEF m, n
  <2>5. \A k \in 1 .. Len(idx') : idx'[k] \in Msgs => idx'[k] \in Tossed'
    BY <2>1, <2>2, <2>3, <1>6
  <2>6. AreaType'
    <3>1. idx' \in Seq(Msgs \cup {Cleared, Zero})
      BY <1>6 DEF Entries
    <3>2. state' = state /\ hdr' = hdr /\ lrd' = lrd /\ text' = text
      BY <1>0
    <3> QED
      BY <3>1, <3>2, <1>0, <1>1 DEF Area, AreaType
  <2> QED
    BY <2>1, <2>4, <2>5, <2>6, <1>0, <1>6 DEF Area
<1>8. Memory'
  <2>1. idxPos' \in 0 .. Dword - 1
    <3>1. Len(idx) <= Cardinality(Msgs)
      BY <1>1, <1>6, AreaFacts
    <3>2. idxPos + 1 <= Len(idx)
      BY <1>3, <1>5
    <3> QED
      BY <3>1, <3>2, <1>0, <1>5, DwordFacts
  <2>2. firstnum' \in 0 .. Dword - 1
    BY <1>0, <1>1, DwordArithmetic DEF Memory
  <2> QED
    BY <2>1, <2>2, <1>0, <1>1, <1>2 DEF Memory, InSort, Locked
<1>9. Marks'
  <2>1. InSort' = InSort
    BY <1>0 DEF InSort
  <2>2. Grown' = Grown
    BY <1>6 DEF Grown
  <2> QED
    BY <2>1, <2>2, <1>0, <1>1, <1>2, <1>6, MarksKept
<1>10. Progress'
  <2>1. jamsort \in Seq(Msg)
    BY <1>1 DEF Progress
  <2>2. /\ jamsort' \in Seq(Msg) /\ Len(jamsort') = Len(jamsort) - 1
        /\ \A k \in 1 .. Len(jamsort) - 1 : jamsort'[k] = jamsort[k + 1]
    BY <2>1, <1>0, <1>3, HeadTailProperties
  <2>3. Len(jamsort) = Start + Len(Ordered) - idxPos
    BY <1>1 DEF Progress
  <2>4. ASSUME NEW k \in 1 .. Len(jamsort')
        PROVE  jamsort'[k] = Ordered[idxPos' - Start + k]
    <3>1. k + 1 \in 1 .. Len(jamsort) /\ k \in 1 .. Len(jamsort) - 1
      BY <2>2, <1>5
    <3>2. jamsort[k + 1] = Ordered[idxPos - Start + (k + 1)]
      BY <3>1, <1>1 DEF Progress
    <3>3. idxPos - Start + (k + 1) = idxPos' - Start + k
      BY <3>1, <1>0, <1>5
    <3> QED
      BY <3>1, <3>2, <3>3, <2>2
  <2>5. idxPos' \in Start .. Start + Len(Ordered)
    BY <1>0, <1>3, <1>5
  <2>6. Len(jamsort') = Start + Len(Ordered) - idxPos'
    BY <2>2, <2>3, <1>0, <1>5
  <2>7. before \in Seq(Msgs \cup {Cleared})
    BY <1>1 DEF Progress
  <2> QED
    BY <2>2, <2>4, <2>5, <2>6, <2>7, <1>0, <1>4, <1>5, <1>6 DEF Progress
<1> DEFINE entry(k, pos) == IF k > Len(before) THEN Zero
                            ELSE IF Start < k /\ k <= pos THEN Ordered[k - Start].msg
                            ELSE before[k]
<1>11. Written'
  <2>1. \A k \in 1 .. Len(idx) : idx[k] = entry(k, idxPos)
    BY <1>1 DEF Written
  <2>2. ASSUME NEW k \in 1 .. Len(idx) PROVE idx'[k] = entry(k, idxPos + 1)
    <3>1. CASE k = idxPos + 1
      <4>1. entry(k, idxPos + 1) = Ordered[k - Start].msg /\ k - Start = n
        BY <3>1, <1>3, <1>5
      <4> QED
        BY <4>1, <3>1, <1>6
    <3>2. CASE k # idxPos + 1
      <4>1. k <= idxPos <=> k <= idxPos + 1
        BY <3>2, <1>5
      <4>2. idx'[k] = idx[k]
        BY <3>2, <1>6
      <4> QED
        BY <4>1, <4>2, <2>1
    <3> QED
      BY <3>1, <3>2
  <2> QED
    BY <2>2, <1>0, <1>4, <1>6 DEF Written
<1>12. /\ HdrsWritten = n /\ HdrsWritten' = n /\ n \in Nat /\ n # 0
       /\ \A k : NewNum(k)' = NewNum(k)
  BY <1>0, <1>3, <1>4, <1>5 DEF HdrsWritten, NewNum
<1>13. ActiveOnce(before)' <=> ActiveOnce(before)
  BY <1>0 DEF ActiveOnce, CheckMsg
<1> HIDE DEF n, m
<1>14. Counted'
  <2> SUFFICES ASSUME ActiveOnce(before)
               PROVE  /\ \A k \in 1 .. n : hdr[Ordered[k].msg] = Unlinked(NewNum(k))
                      /\ \A k \in 2 .. n : NewNum(k) = (NewNum(k - 1) + 1) % Dword
                      /\ firstnum' = (NewNum(n) + 1) % Dword
    BY <1>0, <1>4, <1>12, <1>13 DEF Counted
  <2>1. /\ \A k \in 1 .. n : hdr[Ordered[k].msg] = Unlinked(NewNum(k))
        /\ \A k \in 2 .. n : NewNum(k) = (NewNum(k - 1) + 1) % Dword
        /\ firstnum = NewNum(n)
    BY <1>0, <1>1, <1>12 DEF Counted
  <2> QED
    BY <2>1, <1>0
<1>15. Placed'
  <2> SUFFICES ASSUME ~skewed
               PROVE  /\ ActiveOnce(before)
                      /\ \A k \in 1 .. Len(before) :
                           k <= Start /\ CheckMsg(before[k]) =>
                             hdr[before[k]].MsgNum = Number(k)
                      /\ jamsort' # << >> => firstnum' = Number(idxPos' + 1)
                      /\ \A k \in 1 .. n : NewNum(k) = Number(Start + k)
    <3>1. \A k : CheckMsg(before[k])' <=> CheckMsg(before[k])
      BY <1>0 DEF CheckMsg
    <3> QED
      BY <3>1, <1>0, <1>2, <1>4, <1>12, <1>13 DEF Placed, Sorting, Number
  <2>1. /\ ActiveOnce(before)
        /\ \A k \in 1 .. Len(before) :
             k <= Start /\ CheckMsg(before[k]) => hdr[before[k]].MsgNum = Number(k)
        /\ firstnum = Number(idxPos + 1)
        /\ \A k \in 1 .. n : NewNum(k) = Number(Start + k)
    BY <1>0, <1>1, <1>3, <1>12 DEF Placed, Sorting
  <2>2. ASSUME jamsort' # << >> PROVE firstnum' = Number(idxPos' + 1)
    <3>1. jamsort' \in Seq(Msg) /\ Len(jamsort') = Start + Len(Ordered) - (idxPos + 1)
      BY <1>0, <1>4, <1>10 DEF Progress
    <3>2. Len(jamsort') \in Nat /\ Len(jamsort') # 0
      BY <3>1, <2>2, EmptySeq, LenProperties
    <3>3. idxPos + 2 \in 1 .. Len(idx) + 1
      BY <3>1, <3>2, <1>5
    <3>4. Number(idxPos + 2) \in 0 .. Dword - 1
      BY <3>3, <1>1, <1>6, NumberType
    <3>5. firstnum + 1 = Number(idxPos + 2) /\ idxPos' + 1 = idxPos + 2
      BY <2>1, <1>0, <1>5, DwordFacts DEF Number
    <3>6. Number(idxPos + 2) % Dword = Number(idxPos + 2)
      BY <3>4, DwordArithmetic
    <3> QED
      BY <3>5, <3>6, <1>0
  <2> QED
    BY <2>1, <2>2
<1> QED
  BY <1>7, <1>8, <1>9, <1>10, <1>11, <1>14, <1>15 DEF IInv

LEMMA ChsizeStep ==
  ASSUME IInv, Sort, Chsize
  PROVE  IInv'
<1>0. /\ pc = "sortmsg" /\ pc' = "sorted" /\ jamsort = << >>
      /\ idx' = Sized(idx, idxPos)
      /\ UNCHANGED << state, hdr, lrd, text, lastread, jamsort, idxPos, firstnum >>
      /\ UNCHANGED << before, moved >>
  BY DEF Chsize, sortMemory, sortHistory
<1>1. Area /\ Memory /\ Marks /\ Placed /\ Progress /\ Written /\ Counted /\ Locked
  BY <1>0 DEF IInv, Locked
<1>2. /\ UNCHANGED << byCRC, msginfo, i, runs, crashes, raced, skewed >>
      /\ sorted' = {idx'[k] : k \in Start + 1 .. Len(idx')}
  BY <1>0, <1>1, SortFrame DEF linkMemory
<1>3. Start' = Start /\ Unsorted' = Unsorted /\ Ordered' = Ordered
  BY <1>0, OrderedKept
<1>4. /\ Len(before) \in Nat /\ Len(idx) = Len(before) /\ Start \in Nat
      /\ Len(Ordered) \in Nat /\ idxPos \in Nat /\ idxPos = Start + Len(Ordered)
      /\ Len(Ordered) # 0 => Start + Len(Ordered) <= Len(before)
      /\ ~Grown /\ idx \in Seq(Entries) /\ Zero \in Entries
      /\ \A k \in 1 .. Len(idx) : idx[k] \in Entries /\ idx[k] # Zero
  <2>1. ~Grown
    BY <1>0, <1>1 DEF Area
  <2>2. Len(jamsort) = 0 /\ idxPos \in Start .. Start + Len(Ordered)
        /\ Len(jamsort) = Start + Len(Ordered) - idxPos
    BY <1>0, <1>1, SortFacts DEF Progress
  <2>3. /\ idx \in Seq(Entries) /\ \A k \in 1 .. Len(idx) : idx[k] \in Entries /\ idx[k] # Zero
    BY <1>1, <2>1, AreaFacts
  <2>4. /\ Len(before) \in Nat /\ Start \in Nat /\ Len(Ordered) \in Nat /\ idxPos \in Nat
        /\ Len(Ordered) # 0 => Start + Len(Ordered) <= Len(before)
    BY <1>1, SortFacts
  <2>5. idxPos = Start + Len(Ordered)
    BY <2>2, <2>4
  <2>6. Len(idx) = Len(before)
    BY <1>0, <1>1 DEF Progress, Sorting
  <2> QED
    BY <2>1, <2>3, <2>4, <2>5, <2>6 DEF Entries
<1>5. /\ idx' \in Seq(Entries) /\ Len(idx') = idxPos
      /\ \A k \in 1 .. idxPos : idx'[k] = IF k <= Len(idx) THEN idx[k] ELSE Zero
  <2>1. \A k \in 1 .. idxPos : (IF k <= Len(idx) THEN idx[k] ELSE Zero) \in Entries
    BY <1>4
  <2>2. idx' = [k \in 1 .. idxPos |-> IF k <= Len(idx) THEN idx[k] ELSE Zero]
    BY <1>0 DEF Sized
  <2>3. idx' \in [1 .. idxPos -> Entries]
    BY <2>1, <2>2
  <2> QED
    BY <2>2, <2>3, <1>4
<1>6. Grown' <=> idxPos > Len(idx)
  <2>1. DOMAIN idx' = 1 .. idxPos
    BY <1>4, <1>5
  <2>2. Grown' <=> \E k \in 1 .. idxPos : idx'[k] = Zero
    BY <2>1 DEF Grown, ToSet
  <2>3. ASSUME idxPos > Len(idx) PROVE idx'[idxPos] = Zero /\ idxPos \in 1 .. idxPos
    BY <2>3, <1>4, <1>5
  <2>4. ASSUME ~(idxPos > Len(idx)), NEW k \in 1 .. idxPos PROVE idx'[k] # Zero
    <3>1. k \in 1 .. Len(idx) /\ k <= Len(idx)
      BY <2>4, <1>4
    <3> QED
      BY <3>1, <1>4, <1>5
  <2> QED
    BY <2>2, <2>3, <2>4
<1>7. Area'
  <2>1. Tossed' = Tossed
    BY <1>0 DEF Tossed
  <2>2. ~Grown' => Len(idx') <= Cardinality(Tossed)
    <3>1. Len(idx) <= Cardinality(Tossed) /\ Cardinality(Tossed) \in Nat
      BY <1>1, <1>4, AreaFacts DEF Area
    <3> QED
      BY <3>1, <1>4, <1>5, <1>6
  <2>3. ASSUME NEW k \in 1 .. Len(idx'), idx'[k] \in Msgs PROVE idx'[k] \in Tossed
    <3>1. k \in 1 .. Len(idx) /\ idx'[k] = idx[k]
      BY <2>3, <1>4, <1>5, EntriesApart
    <3> QED
      BY <3>1, <2>3, <1>1 DEF Area
  <2>4. AreaType'
    <3>1. idx' \in Seq(Msgs \cup {Cleared, Zero})
      BY <1>5 DEF Entries
    <3>2. state' = state /\ hdr' = hdr /\ lrd' = lrd /\ text' = text
      BY <1>0
    <3> QED
      BY <3>1, <3>2, <1>0, <1>1 DEF Area, AreaType
  <2> QED
    BY <2>1, <2>2, <2>3, <2>4, <1>0 DEF Area
<1> DEFINE entry(k) == IF k > Len(before) THEN Zero
                       ELSE IF Start < k /\ k <= idxPos THEN Ordered[k - Start].msg
                       ELSE before[k]
<1>8. \A k \in 1 .. idxPos : idx'[k] = entry(k)
  <2> TAKE k \in 1 .. idxPos
  <2>1. CASE k <= Len(idx)
    <3>1. k \in 1 .. Len(idx)
      BY <2>1, <1>4
    <3>2. idx[k] = entry(k)
      BY <3>1, <1>1 DEF Written
    <3> QED
      BY <3>2, <2>1, <1>5
  <2>2. CASE ~(k <= Len(idx))
    <3>1. k > Len(before)
      BY <2>2, <1>4
    <3> QED
      BY <3>1, <2>2, <1>5
  <2> QED
    BY <2>1, <2>2
<1>9. sorted' \subseteq Msgs
  <2>1. before \in Seq(Entries) /\ text \in Texts
    BY <1>1, SortFacts, AreaFacts
  <2>2. ASSUME NEW k \in Start + 1 .. idxPos PROVE idx'[k] \in Msgs
    <3>1. /\ k \in 1 .. idxPos /\ ~(k > Len(before)) /\ Start < k /\ k <= idxPos
          /\ k - Start \in 1 .. Len(Ordered)
      BY <1>4
    <3>2. idx'[k] = Ordered[k - Start].msg
      BY <3>1, <1>8
    <3> QED
      BY <2>1, <3>1, <3>2, <1>4, OrderedFromIndex
  <2> QED
    BY <2>2, <1>2, <1>5
<1>10. Memory'
  BY <1>0, <1>1, <1>2, <1>9 DEF Memory, InSort, Locked
<1>11. Marks'
  <2>0. InSort /\ InSort'
    BY <1>0 DEF InSort
  <2>1. /\ \A u \in Users : lrd[u] \in Nat
        /\ lastread \in 0 .. Dword - 1 /\ lastread \in Nat /\ BaseMsgNum \in Nat \ {0}
        /\ Len(idx) \in Nat /\ Len(idx) <= Cardinality(Msgs) /\ Cardinality(Msgs) \in Nat
    BY <1>1, <1>4, AreaFacts, DwordFacts DEF Memory
  <2>2. /\ lastread = 0 => Start = 0
        /\ lastread # 0 /\ lastread >= BaseMsgNum - 1 => Start = lastread - BaseMsgNum + 1
    BY <2>1, StartValue
  <2>3. ASSUME ~raced
        PROVE  /\ \A u \in Users : lrd[u] <= lastread
               /\ lastread # 0 => \E u \in Users : lrd[u] = lastread
               /\ \A u \in Users : lrd[u] < BaseMsgNum + Len(idx)
    BY <2>0, <2>3, <1>1, <1>4 DEF Marks
  <2>4. ASSUME ~raced, NEW u \in Users PROVE lrd[u] < BaseMsgNum + idxPos
    <3>1. lrd[u] <= lastread /\ lrd[u] \in Nat
      BY <2>1, <2>3, <2>4
    <3>2. CASE lastread = 0
      BY <3>1, <3>2, <2>1, <1>4
    <3>3. CASE lastread # 0 /\ lastread >= BaseMsgNum - 1
      BY <3>1, <3>3, <2>1, <2>2, <1>4
    <3>4. CASE lastread < BaseMsgNum - 1
      BY <3>1, <3>4, <2>1, <1>4
    <3> QED
      BY <3>2, <3>3, <3>4, <2>1
  <2>5. ASSUME ~raced, Grown'
        PROVE  /\ \A u \in Users : lrd[u] <= BaseMsgNum - 2
               /\ \E u \in Users : lrd[u] >= 1
    <3>1. Len(Ordered) = 0 /\ Start > Len(idx)
      BY <2>5, <1>4, <1>6
    <3>2. lastread # 0
      BY <3>1, <2>1, <2>2
    <3>3. PICK u \in Users : lrd[u] = lastread
      BY <3>2, <2>3, <2>5
    <3>4. lastread < BaseMsgNum + Len(idx)
      BY <3>3, <2>3, <2>5
    <3>5. lastread <= BaseMsgNum - 2
      BY <3>1, <3>2, <3>4, <2>1, <2>2
    <3>6. \A w \in Users : lrd[w] <= BaseMsgNum - 2
      <4> TAKE w \in Users
      <4>1. lrd[w] <= lastread /\ lrd[w] \in Nat
        BY <2>1, <2>3, <2>5
      <4> QED
        BY <4>1, <3>5, <2>1
    <3>7. lrd[u] >= 1
      BY <3>2, <3>3, <2>1
    <3> QED
      BY <3>6, <3>7
  <2>6. InSort /\ ~moved => /\ \A u \in Users : lrd[u] <= lastread
                            /\ lastread # 0 => \E u \in Users : lrd[u] = lastread
    BY <1>1 DEF Marks
  <2>7. moved => raced
    BY <1>1 DEF Marks
  <2> QED
    BY <2>0, <2>4, <2>5, <2>6, <2>7, <1>0, <1>2, <1>5 DEF Marks
<1>12. Progress'
  <2>1. /\ before \in Seq(Msgs \cup {Cleared})
        /\ jamsort \in Seq(Msg) /\ Len(jamsort) = Start + Len(Ordered) - idxPos
        /\ \A k \in 1 .. Len(jamsort) : jamsort[k] = Ordered[idxPos - Start + k]
        /\ idxPos \in Start .. Start + Len(Ordered)
    BY <1>1 DEF Progress
  <2> QED
    BY <2>1, <1>0, <1>3, <1>5 DEF Progress, Sorting
<1>13. Written'
  BY <1>0, <1>3, <1>5, <1>8 DEF Written
<1>14. /\ HdrsWritten = idxPos - Start /\ HdrsWritten' = idxPos - Start
       /\ \A k : NewNum(k)' = NewNum(k)
       /\ ActiveOnce(before)' <=> ActiveOnce(before)
       /\ \A e : CheckMsg(e)' <=> CheckMsg(e)
  BY <1>0, <1>3 DEF HdrsWritten, NewNum, ActiveOnce, CheckMsg
<1>15. Counted'
  <2>1. ActiveOnce(before) =>
          /\ \A k \in 1 .. HdrsWritten : hdr[Ordered[k].msg] = Unlinked(NewNum(k))
          /\ \A k \in 2 .. HdrsWritten : NewNum(k) = (NewNum(k - 1) + 1) % Dword
    BY <1>1 DEF Counted
  <2> QED
    BY <2>1, <1>0, <1>3, <1>14 DEF Counted
<1>16. Placed'
  <2> SUFFICES ASSUME ~skewed, NEW k \in 1 .. idxPos, CheckMsg(idx'[k])
               PROVE  hdr[idx'[k]].MsgNum = Number(k)
    BY <1>0, <1>2, <1>5, <1>14 DEF Placed, InPlace, Sorting, Number
  <2>1. k \in 1 .. Len(before) /\ ~(k > Len(before))
    <3>1. idx'[k] # Zero
      BY EntriesApart DEF CheckMsg
    <3> QED
      BY <3>1, <1>4, <1>8
  <2>2. /\ \A j \in 1 .. Len(before) :
              j <= Start /\ CheckMsg(before[j]) => hdr[before[j]].MsgNum = Number(j)
        /\ \A j \in 1 .. HdrsWritten : NewNum(j) = Number(Start + j)
    BY <1>0, <1>1 DEF Placed, Sorting
  <2>3. CASE Start < k
    <3>1. k - Start \in 1 .. HdrsWritten /\ Start + (k - Start) = k
      BY <2>3, <1>4, <1>14
    <3>2. idx'[k] = Ordered[k - Start].msg
      BY <2>1, <2>3, <1>4, <1>8
    <3>3. NewNum(k - Start) = Number(k)
      BY <3>1, <2>2
    <3> QED
      BY <3>2, <3>3 DEF NewNum
  <2>4. CASE ~(Start < k)
    <3>1. idx'[k] = before[k] /\ k <= Start
      BY <2>1, <2>4, <1>4, <1>8
    <3> QED
      BY <3>1, <2>1, <2>2
  <2> QED
    BY <2>3, <2>4
<1> QED
  BY <1>7, <1>10, <1>11, <1>12, <1>13, <1>15, <1>16 DEF IInv

\* The number that a sort begins with is a dword, and that of the first message if it
\* has one.
LEMMA FirstNumProperties ==
  ASSUME Area, NEW msgs \in Seq(Msg)
  PROVE  /\ FirstNum(msgs) \in 0 .. Dword - 1
         /\ Len(msgs) # 0 /\ hdr[msgs[1].msg].MsgNum # 0 =>
              FirstNum(msgs) = hdr[msgs[1].msg].MsgNum
<1> DEFINE Numbered == {j \in 1 .. Len(msgs) : hdr[msgs[j].msg].MsgNum # 0}
           first == Min(Numbered)
<1>1. /\ Len(msgs) \in Nat
      /\ \A j \in 1 .. Len(msgs) : hdr[msgs[j].msg].MsgNum \in 0 .. Dword - 1
  <2>0. \A j \in 1 .. Len(msgs) : msgs[j] \in Msg
    BY ElementOfSeq
  <2>1. \A j \in 1 .. Len(msgs) : msgs[j].msg \in Msgs
    BY <2>0 DEF Msg
  <2>2. \A m \in Msgs : hdr[m].MsgNum \in 0 .. Dword - 1
    BY AreaFacts DEF JAMHDR
  <2> QED
    BY <2>1, <2>2, LenProperties
<1>2. FirstNum(msgs) = LET k == IF Numbered # {} THEN first ELSE 0
                       IN  IF k = 0 THEN 0 ELSE hdr[msgs[k].msg].MsgNum
  BY DEF FirstNum, SelectInSeq
<1>3. CASE Numbered = {}
  <2>1. FirstNum(msgs) = 0
    BY <1>2, <1>3
  <2>2. Len(msgs) # 0 => 1 \in 1 .. Len(msgs)
    BY <1>1
  <2> QED
    BY <2>1, <2>2, <1>3, DwordFacts
<1>4. CASE Numbered # {}
  <2>1. \E n \in Numbered : \A m \in Numbered : n <= m
    <3>1. Numbered \subseteq Nat
      BY <1>1
    <3> QED
      BY <3>1, <1>4, LeastOfSet
  <2>2. first \in Numbered /\ \A m \in Numbered : first <= m
    BY <2>1 DEF Min
  <2> HIDE DEF first
  <2>3. first \in 1 .. Len(msgs) /\ FirstNum(msgs) = hdr[msgs[first].msg].MsgNum
    BY <1>2, <1>4, <2>2
  <2>4. ASSUME Len(msgs) # 0, hdr[msgs[1].msg].MsgNum # 0 PROVE first = 1
    <3>1. 1 \in Numbered
      BY <2>4, <1>1
    <3>2. first <= 1
      BY <3>1, <2>2
    <3> QED
      BY <3>2, <2>3
  <2> QED
    BY <2>3, <2>4, <1>1
<1> QED
  BY <1>3, <1>4

LEMMA LockToSortStep ==
  ASSUME IInv, Sort, LockToSort
  PROVE  IInv'
<1>0. /\ pc = "sort" /\ pc' = "sortmsg" /\ idxPos' = Start /\ before' = idx
      /\ jamsort' = SortByDate(Behind(idx, Start))
      /\ firstnum' = FirstNum(Behind(idx, Start))
      /\ UNCHANGED << state, hdr, idx, lrd, text, lastread, moved >>
  BY DEF LockToSort, files
<1>1. Area /\ Memory /\ Marks /\ Placed
  BY DEF IInv
<1>2. /\ UNCHANGED << byCRC, msginfo, i, runs, crashes, raced, sorted >>
      /\ skewed' = (skewed \/ (jamsort' # << >> /\ ~CheckMsg(idx[Start + 1])))
  <2>1. UNCHANGED << byCRC, msginfo, i, runs, crashes, raced, sorted >>
    BY <1>0 DEF Sort, Called, linkMemory
  <2>2. skewed' = (skewed \/ (jamsort' # << >> /\ ~CheckMsg(idx[Start + 1])))
    BY Zenon DEF Sort
  <2> QED
    BY <2>1, <2>2
<1>3. /\ ~Grown /\ idx \in Seq(Entries) /\ Len(idx) \in Nat /\ text \in Texts
      /\ \A k \in 1 .. Len(idx) : idx[k] \in Msgs \cup {Cleared}
      /\ idx \in Seq(Msgs \cup {Cleared})
  <2>1. ~Grown
    BY <1>0, <1>1 DEF Area
  <2>2. /\ idx \in Seq(Entries) /\ Len(idx) \in Nat /\ text \in Texts
        /\ \A k \in 1 .. Len(idx) : idx[k] \in Entries /\ idx[k] # Zero
    BY <1>1, <2>1, AreaFacts
  <2>3. \A k \in 1 .. Len(idx) : idx[k] \in Msgs \cup {Cleared}
    BY <2>2 DEF Entries
  <2>4. idx \in Seq(Msgs \cup {Cleared})
    BY <2>2, <2>3
  <2> QED
    BY <2>1, <2>2, <2>3, <2>4
<1>4. Start \in 0 .. Dword - 1 /\ Start \in Nat
  BY <1>1, StartValue DEF Memory
<1> DEFINE msgs == Behind(idx, Start)
<1>5. Start' = Start /\ Unsorted' = msgs /\ Ordered' = jamsort'
  <2>1. Start' = Start
    BY <1>0 DEF Start
  <2>2. Active(before, Start)' = Active(idx, Start)
    BY <2>1, <1>0 DEF Active, CheckMsg
  <2>3. Unsorted' = msgs
    BY <2>1, <2>2, <1>0 DEF Unsorted, Behind
  <2> QED
    BY <2>1, <2>3, <1>0 DEF Ordered
<1>6. /\ msgs \in Seq(Msg) /\ Len(msgs) = Len(At(idx, Start)) /\ Len(msgs) \in Nat
      /\ \A k \in 1 .. Len(msgs) : msgs[k] = Dated(idx[At(idx, Start)[k]])
      /\ Len(msgs) # 0 => Start + Len(msgs) <= Len(idx)
      /\ Start + 1 \in 1 .. Len(idx) /\ CheckMsg(idx[Start + 1]) =>
           Len(msgs) # 0 /\ At(idx, Start)[1] = Start + 1
  <2>1. msgs \in Seq(Msg)
    BY <1>3, <1>4, BehindProperties
  <2>2. Len(msgs) \in Nat
    BY <2>1, LenProperties
  <2> QED
    BY <2>1, <2>2, <1>3, <1>4, BehindProperties
<1> HIDE DEF msgs
<1>7. /\ jamsort' \in Seq(Msg) /\ Len(jamsort') = Len(msgs)
      /\ (jamsort' = << >> <=> Len(msgs) = 0)
  <2>1. jamsort' = SortByDate(msgs)
    BY <1>0 DEF msgs
  <2>2. SortByDate(msgs) \in Seq(Msg) /\ IsSortOf(SortByDate(msgs), msgs)
    BY <1>6, TimesAreNumbers, SortByDateSorts
  <2>3. jamsort' \in Seq(Msg) /\ Len(jamsort') = Len(msgs)
    BY <2>1, <2>2 DEF IsSortOf
  <2> QED
    BY <2>3, EmptySeq
<1>8. Area' /\ Grown' = Grown
  BY <1>0, <1>1, <1>3, AreaKeptByNoWrite DEF files, PCs
<1>9. Memory'
  <2>1. firstnum' \in 0 .. Dword - 1
    BY <1>0, <1>1, <1>6, FirstNumProperties DEF msgs
  <2>2. skewed' \in BOOLEAN
    BY <1>2
  <2> QED
    BY <2>1, <2>2, <1>0, <1>1, <1>2, <1>4 DEF Memory, InSort, Locked
<1>10. Marks'
  <2>1. InSort' = InSort
    BY <1>0 DEF InSort
  <2> QED
    BY <2>1, <1>0, <1>1, <1>2, <1>8, MarksKept
<1>11. Progress'
  <2>1. Start \in Start .. Start + Len(jamsort')
    BY <1>4, <1>6, <1>7
  <2>2. Len(jamsort') = Start + Len(jamsort') - Start
    BY <1>4, <1>6, <1>7
  <2>3. \A k \in 1 .. Len(jamsort') : jamsort'[k] = jamsort'[Start - Start + k]
    BY <1>4
  <2> QED
    BY <2>1, <2>2, <2>3, <1>0, <1>3, <1>5, <1>7 DEF Progress, Sorting
<1>12. Written'
  <2>1. \A k \in 1 .. Len(idx) : ~(k > Len(idx)) /\ ~(Start < k /\ k <= Start)
    BY <1>3, <1>4
  <2> QED
    BY <2>1, <1>0, <1>5 DEF Written
<1>13. HdrsWritten' = 0
  BY <1>0, <1>4, <1>5 DEF HdrsWritten
<1>14. Counted'
  BY <1>0, <1>13 DEF Counted
<1>15. Placed'
  <2> SUFFICES ASSUME ~skewed'
               PROVE  /\ ActiveOnce(idx)
                      /\ \A k \in 1 .. Len(idx) :
                           CheckMsg(idx[k]) => hdr[idx[k]].MsgNum = Number(k)
                      /\ jamsort' # << >> => firstnum' = Number(Start + 1)
    <3>1. ActiveOnce(before)' <=> ActiveOnce(idx)
      BY <1>0 DEF ActiveOnce, CheckMsg
    <3>2. \A k : CheckMsg(idx[k])' <=> CheckMsg(idx[k])
      BY <1>0 DEF CheckMsg
    <3> QED
      BY <3>1, <3>2, <1>0, <1>5, <1>13 DEF Placed, Sorting, Number
  <2>1. ~skewed /\ (jamsort' # << >> => CheckMsg(idx[Start + 1]))
    BY <1>2
  <2>2. \A k \in 1 .. Len(idx) : CheckMsg(idx[k]) => hdr[idx[k]].MsgNum = Number(k)
    BY <2>1, <1>0, <1>1 DEF Placed, InPlace, Sorting
  <2>3. ActiveOnce(idx)
    <3> SUFFICES ASSUME NEW j \in 1 .. Len(idx), NEW k \in 1 .. Len(idx),
                        idx[j] = idx[k], CheckMsg(idx[k])
                 PROVE  j = k
      BY DEF ActiveOnce
    <3>1. Number(j) = Number(k)
      BY <2>2
    <3> QED
      BY <3>1, DwordFacts DEF Number
  <2>4. ASSUME jamsort' # << >> PROVE firstnum' = Number(Start + 1)
    <3>1. CheckMsg(idx[Start + 1]) /\ Len(msgs) # 0
      BY <2>1, <2>4, <1>7
    <3>2. Start + 1 \in 1 .. Len(idx)
      BY <3>1, <1>3, <1>4, <1>6
    <3>3. At(idx, Start)[1] = Start + 1 /\ 1 \in 1 .. Len(msgs)
      BY <3>1, <3>2, <1>6
    <3>4. msgs[1].msg = idx[Start + 1]
      <4>1. msgs[1] = Dated(idx[At(idx, Start)[1]])
        BY <3>3, <1>6
      <4> QED
        BY <4>1, <3>3 DEF Dated
    <3>5. hdr[msgs[1].msg].MsgNum = Number(Start + 1)
      BY <3>1, <3>2, <3>4, <2>2
    <3>6. Number(Start + 1) # 0
      BY <1>4, DwordFacts DEF Number
    <3>7. firstnum' = FirstNum(msgs)
      BY <1>0 DEF msgs
    <3> QED
      BY <3>1, <3>5, <3>6, <3>7, <1>1, <1>6, FirstNumProperties
  <2> QED
    BY <2>2, <2>3, <2>4
<1> QED
  BY <1>8, <1>9, <1>10, <1>11, <1>12, <1>14, <1>15 DEF IInv

\* Outside a sort, what changes no number and no entry leaves numbers in their places.
LEMMA PlacedKept ==
  ASSUME Placed, ~Sorting, ~Sorting', UNCHANGED << state, idx >>, ~skewed' => ~skewed,
         \A m \in Msgs : hdr'[m].MsgNum = hdr[m].MsgNum
  PROVE  Placed'
<1> SUFFICES ASSUME ~skewed', NEW k \in 1 .. Len(idx), CheckMsg(idx[k])
             PROVE  hdr'[idx[k]].MsgNum = Number(k)
  BY DEF Placed, InPlace, CheckMsg, Number
<1>1. hdr[idx[k]].MsgNum = Number(k)
  BY DEF Placed, InPlace
<1>2. idx[k] \in Msgs
  BY DEF CheckMsg
<1> QED
  BY <1>1, <1>2

\* The highest number that a user has read last.
LEMMA MaxOfReads ==
  ASSUME Area, NEW S, S \subseteq 0 .. Dword - 1, S # {}
  PROVE  Max(S) \in S /\ \A s \in S : s <= Max(S)
<1>1. Dword - 1 \in Nat
  BY DwordFacts
<1> QED
  BY <1>1, EndsOfSet

LEMMA ReadLrdStep ==
  ASSUME IInv, Sort, ReadLrd
  PROVE  IInv'
<1>0. /\ pc = "idle" /\ pc' = "sort"
      /\ lastread' = Max({lrd[u] : u \in Users} \cup {0})
      /\ UNCHANGED << state, hdr, idx, lrd, text, jamsort, idxPos, firstnum >>
      /\ UNCHANGED << before, moved >>
  BY DEF ReadLrd, files, sortHistory
<1>1. Area /\ Memory /\ Marks /\ Placed
  BY DEF IInv
<1>2. /\ UNCHANGED << byCRC, msginfo, i, crashes, raced, sorted >>
      /\ ~Grown /\ runs < MaxRuns /\ runs' = runs + 1
  BY <1>0 DEF Sort, Called, linkMemory
<1>3. skewed' = skewed
  <2>1. ~LockToSort
    BY <1>0 DEF LockToSort
  <2>2. skewed' = (skewed \/ FALSE)
    BY <2>1, Zenon DEF Sort
  <2> QED
    BY <2>2, <1>1 DEF Memory
<1> DEFINE S == {lrd[u] : u \in Users} \cup {0}
<1>4. S \subseteq 0 .. Dword - 1 /\ 0 \in S /\ \A u \in Users : lrd[u] \in S
  BY <1>1, AreaFacts, DwordFacts
<1>5. lastread' \in S /\ \A s \in S : s <= lastread'
  <2> HIDE DEF S
  <2>1. Max(S) \in S /\ \A s \in S : s <= Max(S)
    BY <1>1, <1>4, MaxOfReads
  <2> QED
    BY <2>1, <1>0 DEF S
<1>6. lastread' # 0 => \E u \in Users : lrd[u] = lastread'
  BY <1>5
<1> HIDE DEF S
<1>7. Area' /\ Grown' = Grown
  BY <1>0, <1>1, <1>2, AreaKeptByNoWrite DEF files, PCs
<1>8. Memory'
  <2>1. lastread' \in 0 .. Dword - 1
    BY <1>4, <1>5
  <2>2. runs' \in 0 .. MaxRuns
    BY <1>1, <1>2, BoundsAssumption DEF Memory
  <2> QED
    BY <2>1, <2>2, <1>0, <1>1, <1>2, <1>3 DEF Memory, InSort, Locked
<1>9. Marks'
  BY <1>0, <1>1, <1>2, <1>4, <1>5, <1>6, <1>7 DEF Marks
<1>10. Placed'
  BY <1>0, <1>1, <1>3, PlacedKept DEF Sorting
<1> QED
  BY <1>0, <1>7, <1>8, <1>9, <1>10 DEF IInv, Locked

\* The end of a sort, also of one that finds the area locked.
LEMMA EndSortStep ==
  ASSUME IInv, Sort, SortLocked \/ Unlock
  PROVE  IInv'
<1>0. /\ pc \in {"sort", "sorted"} /\ pc' = "idle"
      /\ lastread' = 0 /\ jamsort' = << >> /\ idxPos' = 0 /\ firstnum' = 0
      /\ before' = << >> /\ moved' = FALSE
      /\ UNCHANGED << state, hdr, idx, lrd, text >>
  BY DEF SortLocked, Unlock, EndSort, files
<1>1. Area /\ Memory /\ Marks /\ Placed
  BY DEF IInv
<1>2. UNCHANGED << byCRC, msginfo, i, runs, crashes, raced, sorted >>
  BY <1>0 DEF Sort, Called, linkMemory
<1>3. skewed' = skewed
  <2>1. ~LockToSort
    BY <1>0 DEF LockToSort
  <2>2. skewed' = (skewed \/ FALSE)
    BY <2>1, Zenon DEF Sort
  <2> QED
    BY <2>2, <1>1 DEF Memory
<1>4. Area' /\ Grown' = Grown
  BY <1>0, <1>1, AreaKeptByNoWrite DEF files, PCs
<1>5. Memory'
  BY <1>0, <1>1, <1>2, <1>3, DwordFacts DEF Memory, InSort, Locked
<1>6. Marks'
  BY <1>0, <1>1, <1>2, <1>4 DEF Marks, InSort
<1>7. Placed'
  BY <1>0, <1>1, <1>3, PlacedKept DEF Sorting
<1> QED
  BY <1>0, <1>4, <1>5, <1>6, <1>7 DEF IInv, Locked

LEMMA SortInvariance == ASSUME IInv, Sort PROVE IInv'
<1>1. SortStep
  BY DEF Sort
<1> QED
  BY <1>1, WriteHdrStep, WriteIdxStep, ChsizeStep, LockToSortStep, ReadLrdStep,
     EndSortStep DEF SortStep

-----------------------------------------------------------------------------
(* The steps of link, of other programs, and a crash. *)

\* What a step of link leaves alone.
LEMMA LinkFrame ==
  ASSUME Link
  PROVE  /\ UNCHANGED << lastread, jamsort, idxPos, firstnum, before, moved >>
         /\ UNCHANGED << crashes, sorted, skewed, raced >>
         /\ pc # "idle" => runs' = runs
         /\ pc = "idle" => runs < MaxRuns /\ runs' = runs + 1
BY DEF Link, Called, sortMemory, sortHistory

\* Link reads the area, and what it has found has a type.
LEMMA ReadMsgsStep ==
  ASSUME IInv, Link, ReadMsgs
  PROVE  IInv'
<1>0. /\ pc = "idle" /\ ~Grown /\ pc' = "link" /\ i' = 1
      /\ UNCHANGED << state, hdr, idx, lrd, text >>
      /\ \E crc \in BOOLEAN : byCRC' = crc /\ msginfo' = LinkAll(hdr, crc)
  BY DEF ReadMsgs, files
<1>1. Area /\ Memory /\ Marks /\ Placed
  BY DEF IInv
<1>2. /\ UNCHANGED << lastread, jamsort, idxPos, firstnum, before, moved >>
      /\ UNCHANGED << crashes, sorted, skewed, raced >>
      /\ runs' \in 0 .. MaxRuns
  <2>1. runs < MaxRuns /\ runs' = runs + 1 /\ runs \in 0 .. MaxRuns
    BY <1>0, <1>1, LinkFrame DEF Memory
  <2> QED
    BY <2>1, BoundsAssumption, LinkFrame
<1>3. /\ msginfo' \in Seq(Info) /\ Len(msginfo') = Len(idx) /\ byCRC' \in BOOLEAN
      /\ 1 \in 1 .. Len(idx) + 1
  BY <1>0, <1>1, LinkAllType, AreaFacts
<1>4. Area' /\ Grown' = Grown
  BY <1>0, <1>1, AreaKeptByNoWrite DEF files, PCs
<1>5. Memory'
  BY <1>0, <1>1, <1>2, <1>3 DEF Memory, InSort, Locked
<1>6. Marks'
  BY <1>0, <1>1, <1>2, <1>4 DEF Marks, InSort
<1>7. Placed'
  BY <1>0, <1>1, <1>2, PlacedKept DEF Sorting
<1> QED
  BY <1>0, <1>4, <1>5, <1>6, <1>7 DEF IInv, Locked

LEMMA WriteLinksStep ==
  ASSUME IInv, Link, WriteLinks
  PROVE  IInv'
<1>0. /\ pc = "link" /\ pc' = "link" /\ i <= Len(idx) /\ i' = i + 1
      /\ hdr' = IF msginfo[i].rewrite
                THEN [hdr EXCEPT ![idx[i]] = Relinked(@, msginfo[i])] ELSE hdr
      /\ UNCHANGED << state, idx, lrd, text, byCRC, msginfo >>
  BY DEF WriteLinks
<1>1. Area /\ Memory /\ Marks /\ Placed
  BY DEF IInv
<1>2. /\ UNCHANGED << lastread, jamsort, idxPos, firstnum, before, moved >>
      /\ UNCHANGED << crashes, sorted, skewed, raced, runs >>
  BY <1>0, LinkFrame
<1>3. /\ i \in 1 .. Len(idx) /\ i' \in 1 .. Len(idx) + 1
      /\ Len(idx) \in Nat /\ Len(msginfo) = Len(idx) /\ hdr \in [Msgs -> JAMHDR]
  <2>1. Len(idx) \in Nat /\ i \in 1 .. Len(idx) + 1
    BY <1>0, <1>1, AreaFacts DEF Memory
  <2>2. Len(msginfo) = Len(idx) /\ hdr \in [Msgs -> JAMHDR]
    BY <1>0, <1>1, AreaFacts DEF Memory
  <2> QED
    BY <2>1, <2>2, <1>0
<1>4. msginfo[i] \in Info
  BY <1>1, <1>3, ElementOfSeq DEF Memory
<1>5. ASSUME NEW m \in Msgs
      PROVE  Relinked(hdr[m], msginfo[i]) \in JAMHDR
             /\ Relinked(hdr[m], msginfo[i]).MsgNum = hdr[m].MsgNum
  <2>1. hdr[m] \in JAMHDR
    BY <1>3
  <2> QED
    BY <2>1, <1>4 DEF Relinked, JAMHDR, Info
<1>6. hdr' \in [Msgs -> JAMHDR] /\ \A m \in Msgs : hdr'[m].MsgNum = hdr[m].MsgNum
  <2>1. DOMAIN hdr' = Msgs /\ hdr' = [m \in Msgs |-> hdr'[m]]
    BY <1>0, <1>3
  <2>2. \A m \in Msgs : hdr'[m] = hdr[m] \/ hdr'[m] = Relinked(hdr[m], msginfo[i])
    BY <1>0, <1>3
  <2>3. \A m \in Msgs : hdr'[m] \in JAMHDR /\ hdr'[m].MsgNum = hdr[m].MsgNum
    BY <2>2, <1>3, <1>5
  <2> QED
    BY <2>1, <2>3
<1>7. Area' /\ Grown' = Grown
  <2>1. Grown => FALSE
    BY <1>0, <1>1 DEF Area
  <2> QED
    BY <2>1, <1>0, <1>1, <1>6, AreaKept DEF PCs
<1>8. Memory'
  BY <1>0, <1>1, <1>2, <1>3 DEF Memory, InSort, Locked
<1>9. Marks'
  BY <1>0, <1>1, <1>2, <1>7 DEF Marks, InSort
<1>10. Placed'
  BY <1>0, <1>1, <1>2, <1>6, PlacedKept DEF Sorting
<1> QED
  BY <1>0, <1>7, <1>8, <1>9, <1>10 DEF IInv, Locked

LEMMA UnlockLinkedStep ==
  ASSUME IInv, Link, UnlockLinked
  PROVE  IInv'
<1>0. /\ pc = "link" /\ pc' = "idle" /\ byCRC' = FALSE /\ msginfo' = << >> /\ i' = 0
      /\ UNCHANGED << state, hdr, idx, lrd, text >>
  BY DEF UnlockLinked, LinkDone, EndLink, files
<1>1. Area /\ Memory /\ Marks /\ Placed
  BY DEF IInv
<1>2. /\ UNCHANGED << lastread, jamsort, idxPos, firstnum, before, moved >>
      /\ UNCHANGED << crashes, sorted, skewed, raced, runs >>
  BY <1>0, LinkFrame
<1>3. Area' /\ Grown' = Grown
  BY <1>0, <1>1, AreaKeptByNoWrite DEF files, PCs
<1>4. << >> \in Seq(Info)
  OBVIOUS
<1>5. Memory'
  BY <1>0, <1>1, <1>2, <1>4 DEF Memory, InSort, Locked
<1>6. Marks'
  BY <1>0, <1>1, <1>2, <1>3 DEF Marks, InSort
<1>7. Placed'
  BY <1>0, <1>1, <1>2, PlacedKept DEF Sorting
<1> QED
  BY <1>0, <1>3, <1>5, <1>6, <1>7 DEF IInv, Locked

LEMMA LinkStepInvariance == ASSUME IInv, Link PROVE IInv'
<1>1. LinkStep
  BY DEF Link
<1> QED
  BY <1>1, ReadMsgsStep, WriteLinksStep, UnlockLinkedStep DEF LinkStep

\* What a step of another program leaves alone.
OtherFrame ==
  /\ UNCHANGED << pc, lastread, jamsort, idxPos, firstnum, before >>
  /\ UNCHANGED << byCRC, msginfo, i, runs, crashes, skewed >>

LEMMA TossStep ==
  ASSUME IInv, OtherFrame, NEW m \in Msgs, Toss(m), UNCHANGED << sorted, moved, raced >>
  PROVE  IInv'
<1>0. /\ pc \in {"idle", "sort"} /\ state[m] = "none"
      /\ state' = [state EXCEPT ![m] = "active"]
      /\ hdr' = [hdr EXCEPT ![m] = Unlinked(Number(Len(idx) + 1))]
      /\ idx' = Append(idx, m) /\ lrd' = lrd /\ text' = text
  BY DEF Toss, Unlocked
<1>1. Area /\ Memory /\ Marks /\ Placed
  BY DEF IInv
<1>2. UNCHANGED << pc, lastread, jamsort, idxPos, firstnum, before >>
      /\ UNCHANGED << byCRC, msginfo, i, runs, crashes, skewed >>
  BY DEF OtherFrame
<1>3. Area' /\ ~Grown /\ ~Grown'
  BY <1>1, <1>2, AreaKeptByToss
<1>4. /\ Len(idx) \in Nat /\ Len(idx') = Len(idx) + 1 /\ idx'[Len(idx) + 1] = m
      /\ \A k \in 1 .. Len(idx) : idx'[k] = idx[k]
      /\ \A k \in 1 .. Len(idx) + 1 : k # Len(idx) + 1 => k \in 1 .. Len(idx)
  BY <1>0, <1>1, AreaFacts
<1>5. Memory'
  BY <1>0, <1>1, <1>2 DEF Memory, InSort, Locked
<1>6. Marks'
  <2>1. \A u \in Users : lrd[u] \in Nat
    BY <1>1, AreaFacts, DwordFacts
  <2>2. ~raced => \A u \in Users : lrd[u] < BaseMsgNum + Len(idx)
    BY <1>1, <1>3 DEF Marks
  <2>3. ~raced => \A u \in Users : lrd[u] < BaseMsgNum + Len(idx')
    BY <2>1, <2>2, <1>4, DwordFacts
  <2> QED
    BY <2>3, <1>0, <1>1, <1>2, <1>3 DEF Marks, InSort
<1>7. Placed'
  <2> SUFFICES ASSUME ~skewed, NEW k \in 1 .. Len(idx) + 1,
                      idx'[k] \in Msgs, state'[idx'[k]] = "active"
               PROVE  hdr'[idx'[k]].MsgNum = Number(k)
    BY <1>0, <1>2, <1>4 DEF Placed, InPlace, Sorting, Number, CheckMsg
  <2>1. state \in [Msgs -> {"none", "active", "deleted"}] /\ hdr \in [Msgs -> JAMHDR]
    BY <1>1, AreaFacts
  <2>2. CASE k = Len(idx) + 1
    BY <2>1, <2>2, <1>0, <1>4 DEF Unlinked
  <2>3. CASE k # Len(idx) + 1
    <3>1. k \in 1 .. Len(idx) /\ idx'[k] = idx[k] /\ idx[k] \in Msgs
      BY <2>3, <1>4
    <3>2. idx[k] # m
      BY <3>1, <1>0, <1>1 DEF Area, Tossed
    <3>3. CheckMsg(idx[k]) /\ hdr'[idx[k]] = hdr[idx[k]]
      BY <3>1, <3>2, <2>1, <1>0 DEF CheckMsg
    <3>4. hdr[idx[k]].MsgNum = Number(k)
      BY <3>1, <3>3, <1>0, <1>1 DEF Placed, InPlace, Sorting
    <3> QED
      BY <3>1, <3>3, <3>4
  <2> QED
    BY <2>2, <2>3
<1> QED
  BY <1>0, <1>2, <1>3, <1>5, <1>6, <1>7 DEF IInv, Locked

LEMMA PurgeStep ==
  ASSUME IInv, OtherFrame, NEW k \in 1 .. Len(idx), Purge(k) \/ PurgeDies(k),
         sorted' = {}, UNCHANGED << moved, raced >>
  PROVE  IInv'
<1>0. /\ pc \in {"idle", "sort"} /\ CheckMsg(idx[k])
      /\ state' = [state EXCEPT ![idx[k]] = "deleted"]
      /\ idx' = idx \/ idx' = [idx EXCEPT ![k] = Cleared]
      /\ UNCHANGED << hdr, lrd, text >>
  BY DEF Purge, PurgeDies, Unlocked
<1>1. Area /\ Memory /\ Marks /\ Placed
  BY DEF IInv
<1>2. UNCHANGED << pc, lastread, jamsort, idxPos, firstnum, before >>
      /\ UNCHANGED << byCRC, msginfo, i, runs, crashes, skewed >>
  BY DEF OtherFrame
<1>3. Area' /\ ~Grown /\ ~Grown'
  BY <1>1, <1>2, AreaKeptByPurge, AreaKeptByPurgeDies
<1>4. /\ Len(idx') = Len(idx)
      /\ \A j \in 1 .. Len(idx) : idx'[j] = idx[j] \/ idx'[j] = Cleared
  <2>1. idx \in Seq(Entries) /\ Len(idx) \in Nat
    BY <1>1, AreaFacts
  <2> QED
    BY <2>1, <1>0
<1>5. Memory'
  BY <1>0, <1>1, <1>2 DEF Memory, InSort, Locked
<1>6. Marks'
  BY <1>0, <1>1, <1>2, <1>3, <1>4 DEF Marks, InSort
<1>7. Placed'
  <2> SUFFICES ASSUME ~skewed, NEW j \in 1 .. Len(idx),
                      idx'[j] \in Msgs, state'[idx'[j]] = "active"
               PROVE  hdr[idx'[j]].MsgNum = Number(j)
    BY <1>0, <1>2, <1>4 DEF Placed, InPlace, Sorting, Number, CheckMsg
  <2>1. idx'[j] = idx[j]
    BY <1>4, EntriesApart
  <2>2. state \in [Msgs -> {"none", "active", "deleted"}]
    BY <1>1, AreaFacts
  <2>3. CheckMsg(idx[j])
    BY <2>1, <2>2, <1>0 DEF CheckMsg
  <2> QED
    BY <2>1, <2>3, <1>0, <1>1 DEF Placed, InPlace, Sorting
<1> QED
  BY <1>0, <1>2, <1>3, <1>5, <1>6, <1>7 DEF IInv, Locked

LEMMA ReadOnStep ==
  ASSUME IInv, OtherFrame, NEW u \in Users, NEW k \in 1 .. Len(idx), ReadOn(u, k),
         moved' = InSort, raced' = (raced \/ moved'), sorted' = sorted
  PROVE  IInv'
<1>0. /\ lrd' = [lrd EXCEPT ![u] = Number(k)] /\ ~Grown
      /\ UNCHANGED << state, hdr, idx, text >>
  BY DEF ReadOn
<1>1. Area /\ Memory /\ Marks /\ Placed /\ (Locked => Progress /\ Written /\ Counted)
  BY DEF IInv
<1>2. UNCHANGED << pc, lastread, jamsort, idxPos, firstnum, before >>
      /\ UNCHANGED << byCRC, msginfo, i, runs, crashes, skewed >>
  BY DEF OtherFrame
<1>3. Area' /\ ~Grown'
  BY <1>1, <1>2, AreaKeptByReadOn
<1>4. InSort \in BOOLEAN /\ InSort' = InSort
  BY <1>2 DEF InSort
<1>5. Memory'
  <2>1. raced' \in BOOLEAN /\ moved' \in BOOLEAN
    BY <1>4
  <2> QED
    BY <2>1, <1>0, <1>1, <1>2, <1>4 DEF Memory, Locked
<1>6. Marks'
  <2>1. ASSUME ~raced', NEW w \in Users PROVE lrd'[w] < BaseMsgNum + Len(idx)
    <3>1. lrd[w] < BaseMsgNum + Len(idx)
      BY <2>1, <1>0, <1>1 DEF Marks
    <3>2. Number(k) < BaseMsgNum + Len(idx)
      BY <1>1, AreaFacts, DwordFacts DEF Number
    <3>3. lrd'[w] = IF w = u THEN Number(k) ELSE lrd[w]
      BY <1>0, <1>1, AreaFacts
    <3> QED
      BY <3>1, <3>2, <3>3
  <2>2. Len(idx') = Len(idx)
    BY <1>0
  <2> QED
    BY <2>1, <2>2, <1>3, <1>4 DEF Marks
<1>7. Start' = Start /\ Unsorted' = Unsorted /\ Ordered' = Ordered
  BY <1>0, <1>2, OrderedKept
<1>8. /\ HdrsWritten' = HdrsWritten /\ \A j : NewNum(j)' = NewNum(j)
      /\ ActiveOnce(before)' <=> ActiveOnce(before)
      /\ \A e : CheckMsg(e)' <=> CheckMsg(e)
  BY <1>0, <1>2, <1>7 DEF HdrsWritten, NewNum, ActiveOnce, CheckMsg
<1>9. Placed'
  BY <1>0, <1>1, <1>2, <1>7, <1>8 DEF Placed, Sorting, InPlace, Number
<1>10. ASSUME Locked' PROVE Progress' /\ Written' /\ Counted'
  <2>1. Progress /\ Written /\ Counted
    BY <1>1, <1>2, <1>10 DEF Locked
  <2>2. Progress' /\ Written'
    BY <2>1, <1>0, <1>2, <1>7 DEF Progress, Written, Sorting
  <2>3. Counted'
    BY <2>1, <1>0, <1>2, <1>7, <1>8 DEF Counted
  <2> QED
    BY <2>2, <2>3
<1> QED
  BY <1>3, <1>5, <1>6, <1>9, <1>10 DEF IInv

LEMMA OtherInvariance == ASSUME IInv, Other PROVE IInv'
<1>1. OtherFrame
  BY DEF Other, OtherFrame, sortMemory, linkMemory
<1>2. CASE (\E m \in Msgs : Toss(m)) /\ UNCHANGED << sorted, moved, raced >>
  BY <1>1, <1>2, TossStep
<1>3. CASE /\ \E k \in 1 .. Len(idx) : Purge(k) \/ PurgeDies(k)
           /\ sorted' = {} /\ UNCHANGED << moved, raced >>
  BY <1>1, <1>3, PurgeStep
<1>4. CASE /\ \E u \in Users, k \in 1 .. Len(idx) : ReadOn(u, k)
           /\ moved' = (pc \in {"sort", "sortmsg", "sortidx", "sorted"})
           /\ raced' = (raced \/ moved') /\ UNCHANGED sorted
  <2>1. moved' = InSort
    BY <1>4 DEF InSort
  <2> QED
    BY <2>1, <1>1, <1>4, ReadOnStep
<1> QED
  BY <1>2, <1>3, <1>4 DEF Other

LEMMA CrashInvariance == ASSUME IInv, Crash PROVE IInv'
<1>0. /\ pc # "idle" /\ crashes < MaxCrashes /\ crashes' = crashes + 1 /\ pc' = "idle"
      /\ lastread' = 0 /\ jamsort' = << >> /\ idxPos' = 0 /\ firstnum' = 0
      /\ before' = << >> /\ moved' = FALSE /\ byCRC' = FALSE /\ msginfo' = << >> /\ i' = 0
      /\ UNCHANGED << state, hdr, idx, lrd, text, runs, raced >>
  BY DEF Crash, EndSort, EndLink, files
<1>1. Area /\ Memory /\ Marks /\ Placed
  BY DEF IInv
<1>2. /\ sorted' = (IF Sorting THEN {} ELSE sorted)
      /\ skewed' = (skewed \/ Sorting)
  BY Zenon DEF Crash
<1>3. sorted' \subseteq Msgs /\ skewed' \in BOOLEAN /\ crashes' \in 0 .. MaxCrashes
  <2>1. Sorting \in BOOLEAN
    BY DEF Sorting
  <2> QED
    BY <2>1, <1>0, <1>1, <1>2, BoundsAssumption DEF Memory
<1>4. Area' /\ Grown' = Grown
  BY <1>0, <1>1, AreaKeptByNoWrite DEF files, PCs
<1>5. << >> \in Seq(Info)
  OBVIOUS
<1>6. Memory'
  BY <1>0, <1>1, <1>3, <1>5, DwordFacts DEF Memory, InSort, Locked
<1>7. Marks'
  BY <1>0, <1>1, <1>4 DEF Marks, InSort
<1>8. Placed'
  <2>1. CASE Sorting
    BY <2>1, <1>2 DEF Placed
  <2>2. CASE ~Sorting
    <3>1. ~Sorting' /\ (~skewed' => ~skewed)
      BY <1>0, <1>2 DEF Sorting
    <3> QED
      BY <2>2, <3>1, <1>0, <1>1, PlacedKept
  <2> QED
    BY <2>1, <2>2
<1> QED
  BY <1>0, <1>4, <1>6, <1>7, <1>8 DEF IInv, Locked

-----------------------------------------------------------------------------
(* The invariant. *)

LEMMA InitInvariant == Init => IInv
<1> SUFFICES ASSUME NEW messages \in Texts, InitWith(messages) PROVE IInv
  BY DEF Init
<1>0. /\ state = [m \in Msgs |-> "none"] /\ hdr = [m \in Msgs |-> Unlinked(0)]
      /\ idx = << >> /\ lrd \in [Users -> {0} \cup OldMarks] /\ text \in Texts
      /\ pc = "idle" /\ lastread = 0 /\ jamsort = << >> /\ idxPos = 0 /\ firstnum = 0
      /\ before = << >> /\ moved = FALSE /\ byCRC = FALSE /\ msginfo = << >> /\ i = 0
      /\ runs = 0 /\ crashes = 0 /\ sorted = {} /\ skewed = FALSE /\ raced = FALSE
  BY DEF InitWith, InitArea, NoSort, NoLink
<1>1. /\ Len(idx) = 0 /\ idx \in Seq(Entries) /\ idx \in Seq(Msgs \cup {Cleared, Zero})
      /\ DOMAIN idx = {}
  BY <1>0
<1>2. ~Grown
  BY <1>1 DEF Grown, ToSet
<1>3. \A u \in Users : lrd[u] \in 0 .. Dword - 1 /\ lrd[u] < BaseMsgNum
  <2>1. \A u \in Users : lrd[u] = 0 \/ lrd[u] \in 0 .. BaseMsgNum - 2
    BY <1>0, AreaAssumption
  <2> QED
    BY <2>1, DwordFacts
<1>4. Area
  <2>1. lrd \in [Users -> 0 .. Dword - 1]
    BY <1>0, <1>3
  <2>2. hdr \in [Msgs -> JAMHDR]
    BY <1>0, UnlinkedType, DwordFacts
  <2>3. state \in [Msgs -> {"none", "active", "deleted"}]
    BY <1>0
  <2>4. AreaType
    BY <2>1, <2>2, <2>3, <1>0, <1>1 DEF AreaType
  <2>5. Tossed \subseteq Msgs
    BY DEF Tossed
  <2>6. Cardinality(Tossed) \in Nat
    BY <2>5, AreaAssumption, FS_Subset, FS_CardinalityType
  <2> QED
    BY <2>4, <2>6, <1>0, <1>1, <1>2 DEF Area
<1>5. Memory
  <2>1. << >> \in Seq(Info) /\ 0 \in 0 .. MaxRuns /\ 0 \in 0 .. MaxCrashes
    BY BoundsAssumption
  <2> QED
    BY <2>1, <1>0, DwordFacts DEF Memory, InSort, Locked
<1>6. Marks
  BY <1>0, <1>1, <1>2, <1>3, DwordFacts DEF Marks, InSort
<1>7. Placed
  BY <1>0, <1>1 DEF Placed, InPlace, Sorting
<1> QED
  BY <1>0, <1>4, <1>5, <1>6, <1>7 DEF IInv, Locked

LEMMA StutterInvariance == ASSUME IInv, UNCHANGED vars PROVE IInv'
<1>0. /\ UNCHANGED << state, hdr, idx, lrd, text, pc >>
      /\ UNCHANGED << lastread, jamsort, idxPos, firstnum, before, moved >>
      /\ UNCHANGED << byCRC, msginfo, i, runs, crashes, sorted, skewed, raced >>
  BY DEF vars, files, sortMemory, sortHistory, linkMemory, history
<1>1. Area /\ Memory /\ Marks /\ Placed /\ (Locked => Progress /\ Written /\ Counted)
  BY DEF IInv
<1>2. Area' /\ Grown' = Grown
  <2>1. Grown => pc' \in {"idle", "sorted"}
    BY <1>0, <1>1 DEF Area
  <2> QED
    BY <2>1, <1>0, <1>1, AreaKeptByNoWrite, AreaFacts DEF files
<1>3. Memory'
  BY <1>0, <1>1 DEF Memory, InSort, Locked
<1>4. Marks'
  BY <1>0, <1>1, <1>2 DEF Marks, InSort
<1>5. Start' = Start /\ Unsorted' = Unsorted /\ Ordered' = Ordered
  BY <1>0, OrderedKept
<1>6. /\ HdrsWritten' = HdrsWritten /\ \A j : NewNum(j)' = NewNum(j)
      /\ ActiveOnce(before)' <=> ActiveOnce(before)
      /\ \A e : CheckMsg(e)' <=> CheckMsg(e)
  BY <1>0, <1>5 DEF HdrsWritten, NewNum, ActiveOnce, CheckMsg
<1>7. Placed'
  BY <1>0, <1>1, <1>5, <1>6 DEF Placed, Sorting, InPlace, Number
<1>8. ASSUME Locked' PROVE Progress' /\ Written' /\ Counted'
  <2>1. Progress /\ Written /\ Counted
    BY <1>0, <1>1, <1>8 DEF Locked
  <2>2. Progress' /\ Written'
    BY <2>1, <1>0, <1>5 DEF Progress, Written, Sorting
  <2>3. Counted'
    BY <2>1, <1>0, <1>5, <1>6 DEF Counted
  <2> QED
    BY <2>2, <2>3
<1> QED
  BY <1>2, <1>3, <1>4, <1>7, <1>8 DEF IInv

LEMMA NextInvariant == IInv /\ [Next]_vars => IInv'
<1> SUFFICES ASSUME IInv, [Next]_vars PROVE IInv'
  OBVIOUS
<1>1. CASE Next
  BY <1>1, SortInvariance, LinkStepInvariance, OtherInvariance, CrashInvariance DEF Next
<1>2. CASE UNCHANGED vars
  BY <1>2, StutterInvariance
<1> QED
  BY <1>1, <1>2

\* The inductive invariant holds in every reachable state: what a sort has written and
\* what it has still in memory make up the new order, and the last read numbers stay
\* within the index as long as nobody reads on during a sort.
THEOREM Invariance == Spec => []IInv
<1>1. Init => IInv
  BY InitInvariant
<1>2. IInv /\ [Next]_vars => IInv'
  BY NextInvariant
<1> QED
  BY <1>1, <1>2, PTL DEF Spec

\* At every moment all state is of its type: numbers are dwords, sort and link stay
\* inside the index, and inside what they have in memory.
THEOREM Typed == Spec => []TypeOK
<1>1. IInv => TypeOK
  <2> SUFFICES ASSUME IInv PROVE TypeOK
    OBVIOUS
  <2>1. Area /\ Memory /\ AreaType
    BY DEF IInv, Area
  <2>2. Len(idx) \in Nat
    BY <2>1, AreaFacts
  <2>3. jamsort \in Seq(Msg) /\ before \in Seq(Msgs \cup {Cleared})
    <3>1. CASE Locked
      BY <3>1 DEF IInv, Progress
    <3>2. CASE ~Locked
      BY <3>2, <2>1 DEF Memory
    <3> QED
      BY <3>1, <3>2
  <2>4. i \in 0 .. Len(idx) + 1
    BY <2>1, <2>2 DEF Memory
  <2>5. {skewed, raced} \subseteq BOOLEAN
    BY <2>1 DEF Memory
  <2> QED
    BY <2>1, <2>3, <2>4, <2>5 DEF TypeOK, Memory, Info, Msg
<1> QED
  BY <1>1, Invariance, PTL

\* The number in a header is that of its place in the index, unless a sort has died, or
\* has left out the entries that it should have started at (sortarea.c:469-496, 357-372).
THEOREM NumbersStay == Spec => []NumbersMatch
<1>1. IInv => NumbersMatch
  BY DEF IInv, Placed, InPlace, NumbersMatch
<1> QED
  BY <1>1, Invariance, PTL

\* Sort makes the index longer only if a user reads on meanwhile, or if the last number
\* read is one from before BaseMsgNum (sortarea.c:457-467, 372).
THEOREM GrowsOutside == Spec => []GrowsOnlyOutside
<1>1. IInv => GrowsOnlyOutside
  <2> SUFFICES ASSUME IInv, Grown, ~raced
               PROVE  Max({lrd[u] : u \in Users}) \in 1 .. BaseMsgNum - 2
    BY DEF GrowsOnlyOutside
  <2> DEFINE S == {lrd[u] : u \in Users}
  <2>1. /\ \A u \in Users : lrd[u] <= BaseMsgNum - 2
        /\ \E u \in Users : lrd[u] >= 1
    BY DEF IInv, Marks
  <2>2. \A u \in Users : lrd[u] \in 0 .. Dword - 1
    BY AreaFacts DEF IInv
  <2>3. /\ S \subseteq 0 .. Dword - 1
        /\ \A s \in S : s <= BaseMsgNum - 2
        /\ \E s \in S : s >= 1
    BY <2>1, <2>2
  <2> HIDE DEF S
  <2>4. Max(S) \in S /\ \A s \in S : s <= Max(S)
    BY <2>3, MaxOfReads DEF IInv
  <2>5. Max(S) \in Nat /\ Max(S) <= BaseMsgNum - 2
    <3>1. Max(S) \in 0 .. Dword - 1
      BY <2>3, <2>4
    <3> QED
      BY <3>1, <2>3, <2>4
  <2>6. PICK s \in S : s >= 1
    BY <2>3
  <2>7. s \in Nat /\ s <= Max(S)
    BY <2>3, <2>4, DwordFacts
  <2>8. Max(S) \in 1 .. BaseMsgNum - 2
    BY <2>5, <2>6, <2>7, DwordFacts
  <2> QED
    BY <2>8 DEF S
<1> QED
  BY <1>1, Invariance, PTL

\* What is known at the end of a sort.
LEMMA SortedFacts ==
  ASSUME IInv, pc = "sorted"
  PROVE  /\ Area /\ Memory /\ Marks /\ Progress /\ Written /\ Counted
         /\ text \in Texts /\ before \in Seq(Entries) /\ idx \in Seq(Entries)
         /\ Len(before) \in Nat /\ Len(Ordered) \in Nat /\ Start \in Nat
         /\ Len(idx) = Start + Len(Ordered) /\ idxPos = Len(idx)
         /\ Len(Ordered) # 0 => Start + Len(Ordered) <= Len(before)
         /\ \A k \in 1 .. Len(Ordered) : Ordered[k].msg \in Msgs /\ CheckMsg(Ordered[k].msg)
<1>1. Area /\ Memory /\ Marks /\ Progress /\ Written /\ Counted
  BY DEF IInv, Locked
<1>2. /\ before \in Seq(Entries) /\ Len(before) \in Nat /\ Start \in Nat
      /\ Len(Ordered) \in Nat /\ text \in Texts /\ idx \in Seq(Entries)
      /\ Len(Ordered) # 0 => Start + Len(Ordered) <= Len(before)
      /\ idxPos \in Start .. Start + Len(Ordered) /\ (jamsort = << >> <=> Len(jamsort) = 0)
  BY <1>1, SortFacts, AreaFacts
<1>3. jamsort = << >> /\ Len(idx) = idxPos /\ Len(jamsort) = Start + Len(Ordered) - idxPos
  BY <1>1 DEF Progress
<1>4. Len(idx) = Start + Len(Ordered)
  BY <1>2, <1>3
<1>5. \A k \in 1 .. Len(Ordered) : Ordered[k].msg \in Msgs /\ CheckMsg(Ordered[k].msg)
  BY <1>2, OrderedFromIndex
<1> QED
  BY <1>1, <1>2, <1>3, <1>4, <1>5

LEMMA TailSortedAtEnd == ASSUME IInv PROVE TailSorted
<1> SUFFICES ASSUME pc = "sorted", ~Grown
             PROVE  /\ SubSeq(idx, 1, Start) = SubSeq(before, 1, Start)
                    /\ Len(idx) = Start + Len(Unsorted)
                    /\ IsSortOf(Behind(idx, Start), Unsorted)
                    /\ Once(before) =>
                         \A k \in Start + 1 .. Len(idx) :
                           /\ hdr[idx[k]] = Unlinked(hdr[idx[k]].MsgNum)
                           /\ k > Start + 1 =>
                                hdr[idx[k]].MsgNum = (hdr[idx[k - 1]].MsgNum + 1) % Dword
  BY DEF TailSorted, Unsorted
<1>0. /\ Area /\ Written /\ Counted
      /\ text \in Texts /\ before \in Seq(Entries) /\ idx \in Seq(Entries)
      /\ Len(before) \in Nat /\ Len(Ordered) \in Nat /\ Start \in Nat
      /\ Len(idx) = Start + Len(Ordered) /\ idxPos = Len(idx)
      /\ Len(Ordered) # 0 => Start + Len(Ordered) <= Len(before)
      /\ \A k \in 1 .. Len(Ordered) : Ordered[k].msg \in Msgs /\ CheckMsg(Ordered[k].msg)
  BY SortedFacts
<1>1. \A k \in 1 .. Len(idx) : ~(k > Len(before))
  BY <1>0, AreaFacts DEF Written
<1>2. \A k \in 1 .. Len(idx) : idx[k] = IF Start < k THEN Ordered[k - Start].msg
                                        ELSE before[k]
  <2>1. \A k \in 1 .. Len(idx) : k <= idxPos
    BY <1>0
  <2> QED
    BY <2>1, <1>0, <1>1 DEF Written
<1>3. SubSeq(idx, 1, Start) = SubSeq(before, 1, Start)
  <2>1. \A k \in 1 .. Start : /\ k \in 1 .. Len(idx) /\ k \in 1 .. Len(before)
                              /\ idx[k] = before[k]
    <3> TAKE k \in 1 .. Start
    <3>1. k \in 1 .. Len(idx) /\ ~(Start < k)
      BY <1>0
    <3>2. k \in 1 .. Len(before)
      BY <3>1, <1>0, <1>1
    <3> QED
      BY <3>1, <3>2, <1>2
  <2>2. \A k \in 1 .. Start : idx[k] \in Entries /\ before[k] \in Entries
    BY <2>1, <1>0, ElementOfSeq
  <2>3. /\ SubSeq(idx, 1, Start) \in Seq(Entries) /\ Len(SubSeq(idx, 1, Start)) = Start
        /\ \A k \in 1 .. Start : SubSeq(idx, 1, Start)[k] = idx[k]
    BY <1>0, <2>2, SubSeqProperties
  <2>4. /\ SubSeq(before, 1, Start) \in Seq(Entries)
        /\ Len(SubSeq(before, 1, Start)) = Start
        /\ \A k \in 1 .. Start : SubSeq(before, 1, Start)[k] = before[k]
    BY <1>0, <2>2, SubSeqProperties
  <2> QED
    BY <2>1, <2>3, <2>4, SeqEqual
<1>4. /\ Len(Unsorted) = Len(Ordered) /\ IsSortOf(Ordered, Unsorted) /\ Ordered \in Seq(Msg)
  BY <1>0, OrderedProperties
<1>5. \A k \in 1 .. Len(Ordered) : /\ Start + k \in 1 .. Len(idx)
                                   /\ idx[Start + k] = Ordered[k].msg
  <2> TAKE k \in 1 .. Len(Ordered)
  <2>1. Start + k \in 1 .. Len(idx) /\ Start < Start + k /\ (Start + k) - Start = k
    BY <1>0
  <2> QED
    BY <2>1, <1>2
<1>6. Behind(idx, Start) = Ordered
  <2>1. \A k \in Start + 1 .. Len(idx) : CheckMsg(idx[k])
    <3> TAKE k \in Start + 1 .. Len(idx)
    <3>1. k - Start \in 1 .. Len(Ordered) /\ Start + (k - Start) = k
      BY <1>0
    <3> QED
      BY <3>1, <1>0, <1>5
  <2>2. Start <= Len(idx) /\ Len(idx) - Start = Len(Ordered)
    BY <1>0
  <2>3. Behind(idx, Start) = [k \in 1 .. Len(Ordered) |-> Dated(idx[Start + k])]
    BY <2>1, <2>2, <1>0, BehindWhole
  <2>4. \A k \in 1 .. Len(Ordered) : Dated(idx[Start + k]) = Ordered[k]
    <3>1. \A k \in 1 .. Len(Ordered) : Ordered[k] = Dated(Ordered[k].msg)
      BY <1>0, OrderedFromIndex
    <3> QED
      BY <3>1, <1>5
  <2>5. Ordered = [k \in 1 .. Len(Ordered) |-> Ordered[k]]
    BY <1>4
  <2> QED
    BY <2>3, <2>4, <2>5
<1>7. ASSUME Once(before), NEW k \in Start + 1 .. Len(idx)
      PROVE  /\ hdr[idx[k]] = Unlinked(hdr[idx[k]].MsgNum)
             /\ k > Start + 1 => hdr[idx[k]].MsgNum = (hdr[idx[k - 1]].MsgNum + 1) % Dword
  <2>1. ActiveOnce(before)
    BY <1>7 DEF Once, ActiveOnce, CheckMsg
  <2>2. HdrsWritten = Len(Ordered)
    BY <1>0 DEF HdrsWritten
  <2>3. /\ \A j \in 1 .. Len(Ordered) : hdr[Ordered[j].msg] = Unlinked(NewNum(j))
        /\ \A j \in 2 .. Len(Ordered) : NewNum(j) = (NewNum(j - 1) + 1) % Dword
    BY <2>1, <2>2, <1>0 DEF Counted
  <2> DEFINE j == k - Start
  <2>4. j \in 1 .. Len(Ordered) /\ Start + j = k
    BY <1>0
  <2>5. idx[k] = Ordered[j].msg
    BY <2>4, <1>5
  <2>6. k > Start + 1 =>
          j \in 2 .. Len(Ordered) /\ j - 1 \in 1 .. Len(Ordered) /\ Start + (j - 1) = k - 1
    BY <2>4, <1>0
  <2>7. k > Start + 1 => idx[k - 1] = Ordered[j - 1].msg
    BY <2>6, <1>5
  <2> HIDE DEF j
  <2> QED
    BY <2>3, <2>4, <2>5, <2>6, <2>7 DEF NewNum
<1> QED
  BY <1>0, <1>3, <1>4, <1>6, <1>7

\* A user who has not read on has read the same messages before and after the sort, also
\* if the index has become longer.
LEMMA ReadKeptAtEnd == ASSUME IInv PROVE ReadKept
<1> SUFFICES ASSUME pc = "sorted", ~moved, NEW u \in Users
             PROVE  ReadBy(u, idx) = ReadBy(u, before)
  BY DEF ReadKept
<1>0. /\ Area /\ Memory /\ Marks /\ Written
      /\ Len(before) \in Nat /\ Len(Ordered) \in Nat /\ Start \in Nat
      /\ Len(idx) = Start + Len(Ordered)
  BY SortedFacts
<1>1. /\ lrd[u] <= lastread /\ lrd[u] \in Nat /\ lastread \in Nat
      /\ lastread \in 0 .. Dword - 1
  BY <1>0, AreaFacts, DwordFacts DEF Marks, Memory, InSort
<1>2. \A k \in Nat \ {0} : Number(k) <= lrd[u] => k <= Start
  <2> SUFFICES ASSUME NEW k \in Nat \ {0}, Number(k) <= lrd[u] PROVE k <= Start
    OBVIOUS
  <2>1. lastread # 0 /\ lastread >= BaseMsgNum - 1
    BY <1>1, DwordFacts DEF Number
  <2>2. Start = lastread - BaseMsgNum + 1
    BY <1>1, <2>1, StartValue
  <2> QED
    BY <2>2, <1>1, DwordFacts DEF Number
<1>3. \A k \in 1 .. Len(idx) : k <= Start =>
         idx[k] = IF k > Len(before) THEN Zero ELSE before[k]
  <2>1. \A k \in 1 .. Len(idx) : k <= Start => ~(Start < k)
    BY <1>0
  <2> QED
    BY <2>1, <1>0 DEF Written
<1> DEFINE Read(s) == {k \in 1 .. Len(s) : CheckMsg(s[k]) /\ Number(k) <= lrd[u]}
<1>4. ASSUME NEW k \in Read(idx) PROVE k \in Read(before) /\ idx[k] = before[k]
  <2>1. k \in 1 .. Len(idx) /\ k <= Start /\ CheckMsg(idx[k])
    BY <1>0, <1>2
  <2>2. ~(k > Len(before)) /\ idx[k] = before[k]
    BY <2>1, <1>3, EntriesApart DEF CheckMsg
  <2> QED
    BY <2>1, <2>2, <1>0
<1>5. ASSUME NEW k \in Read(before) PROVE k \in Read(idx)
  <2>1. k \in 1 .. Len(before) /\ k <= Start
    BY <1>0, <1>2
  <2>2. k \in 1 .. Len(idx) /\ ~(k > Len(before))
    BY <2>1, <1>0
  <2> QED
    BY <2>1, <2>2, <1>3
<1>6. Read(idx) = Read(before)
  BY <1>4, <1>5
<1>7. ReadBy(u, idx) = {idx[k] : k \in Read(idx)}
      /\ ReadBy(u, before) = {before[k] : k \in Read(before)}
  BY DEF ReadBy
<1> HIDE DEF Read
<1> QED
  BY <1>4, <1>6, <1>7

\* A sort that comes to its end has put the active messages behind the last one read in
\* the order of their dates, each once, numbered up and without links; the index in front
\* of them is as it was, and to every user the same messages are read as before
\* (sortarea.c:357-373, 420-497).
THEOREM SortDone == Spec => []SortResult
<1>1. IInv => SortResult
  BY TailSortedAtEnd, ReadKeptAtEnd DEF SortResult
<1> QED
  BY <1>1, Invariance, PTL

-----------------------------------------------------------------------------
(* A link, moment by moment. *)

\* Only links are written, and to write them again changes nothing.
LEMMA RelinkedFacts ==
  ASSUME NEW x \in JAMHDR, NEW info \in Info
  PROVE  /\ Relinked(x, info) \in JAMHDR
         /\ Relinked(x, info).MsgNum = x.MsgNum
         /\ Relinked(x, info).ReplyTo = info.ReplyTo
         /\ Relinked(x, info).Reply1st = info.Reply1st
         /\ Relinked(x, info).ReplyNext = info.ReplyNext
         /\ Relinked(Relinked(x, info), info) = Relinked(x, info)
<1> DEFINE Of(n) == [MsgNum |-> n, ReplyTo |-> info.ReplyTo, Reply1st |-> info.Reply1st,
                     ReplyNext |-> info.ReplyNext]
<1>1. ASSUME NEW y \in JAMHDR PROVE Relinked(y, info) = Of(y.MsgNum)
  <2>1. y = [MsgNum |-> y.MsgNum, ReplyTo |-> y.ReplyTo, Reply1st |-> y.Reply1st,
             ReplyNext |-> y.ReplyNext]
    BY DEF JAMHDR
  <2>2. ASSUME NEW n, NEW a, NEW b, NEW c, NEW t, NEW f, NEW g
        PROVE  [[MsgNum |-> n, ReplyTo |-> a, Reply1st |-> b, ReplyNext |-> c]
                  EXCEPT !.ReplyTo = t, !.Reply1st = f, !.ReplyNext = g]
                 = [MsgNum |-> n, ReplyTo |-> t, Reply1st |-> f, ReplyNext |-> g]
    <3>1. [[MsgNum |-> n, ReplyTo |-> a, Reply1st |-> b, ReplyNext |-> c]
             EXCEPT !.ReplyTo = t]
            = [MsgNum |-> n, ReplyTo |-> t, Reply1st |-> b, ReplyNext |-> c]
      OBVIOUS
    <3>2. [[MsgNum |-> n, ReplyTo |-> t, Reply1st |-> b, ReplyNext |-> c]
             EXCEPT !.Reply1st = f]
            = [MsgNum |-> n, ReplyTo |-> t, Reply1st |-> f, ReplyNext |-> c]
      OBVIOUS
    <3>3. [[MsgNum |-> n, ReplyTo |-> t, Reply1st |-> f, ReplyNext |-> c]
             EXCEPT !.ReplyNext = g]
            = [MsgNum |-> n, ReplyTo |-> t, Reply1st |-> f, ReplyNext |-> g]
      OBVIOUS
    <3> QED
      BY <3>1, <3>2, <3>3
  <2>3. Relinked(y, info) = [y EXCEPT !.ReplyTo = info.ReplyTo,
                                      !.Reply1st = info.Reply1st,
                                      !.ReplyNext = info.ReplyNext]
    BY DEF Relinked
  <2> QED
    BY <2>1, <2>2, <2>3
<1>2. /\ Of(x.MsgNum) \in JAMHDR
      /\ Of(x.MsgNum).MsgNum = x.MsgNum /\ Of(x.MsgNum).ReplyTo = info.ReplyTo
      /\ Of(x.MsgNum).Reply1st = info.Reply1st /\ Of(x.MsgNum).ReplyNext = info.ReplyNext
  BY DEF JAMHDR, Info
<1> HIDE DEF Of
<1>3. Relinked(x, info) = Of(x.MsgNum)
  BY <1>1
<1>4. Relinked(Of(x.MsgNum), info) = Of(x.MsgNum)
  BY <1>1, <1>2
<1> QED
  BY <1>2, <1>3, <1>4

\* The mark is not written.
LEMMA RelinkedAlike ==
  ASSUME NEW x, NEW a, NEW b,
         a.ReplyTo = b.ReplyTo, a.Reply1st = b.Reply1st, a.ReplyNext = b.ReplyNext
  PROVE  Relinked(x, a) = Relinked(x, b)
BY DEF Relinked

\* What the end of link makes of the message of one entry, if no other names it, and of
\* a message that no entry names.
LEMMA ResultAt ==
  ASSUME Len(idx) \in Nat, NEW x, NEW info
  PROVE  /\ Once(idx) =>
              \A e \in 1 .. Len(idx) :
                idx[e] \in Msgs =>
                  Result(x, info)[idx[e]] =
                    IF info[e].rewrite THEN Relinked(x[idx[e]], info[e]) ELSE x[idx[e]]
         /\ \A m \in Msgs : m \notin ToSet(idx) => Result(x, info)[m] = x[m]
<1>1. ASSUME Once(idx), NEW e \in 1 .. Len(idx), idx[e] \in Msgs
      PROVE  Result(x, info)[idx[e]] =
               IF info[e].rewrite THEN Relinked(x[idx[e]], info[e]) ELSE x[idx[e]]
  <2> DEFINE m == idx[e]
             I == {k \in 1 .. Len(idx) : idx[k] = m}
  <2>1. I = {e}
    BY <1>1 DEF Once
  <2>2. SelectInSeq(idx, LAMBDA d : d = m) = IF I # {} THEN Min(I) ELSE 0
    BY DEF SelectInSeq
  <2>3. Min({e}) = e
    BY DEF Min
  <2>4. SelectInSeq(idx, LAMBDA d : d = m) = e
    BY <2>1, <2>2, <2>3
  <2>5. (\E k \in 1 .. Len(idx) : idx[k] = m /\ info[k].rewrite) <=> info[e].rewrite
    BY <1>1 DEF Once
  <2> QED
    BY <1>1, <2>4, <2>5 DEF Result
<1>2. ASSUME NEW m \in Msgs, m \notin ToSet(idx)
      PROVE  Result(x, info)[m] = x[m]
  <2>1. ~\E k \in 1 .. Len(idx) : idx[k] = m /\ info[k].rewrite
    BY <1>2 DEF ToSet
  <2> QED
    BY <2>1 DEF Result
<1> QED
  BY <1>1, <1>2

\* A link under way: start is the headers as they were read.  What was found is what
\* the turns find, and the messages of the first entries have come to their end.
LinkTrack(start, turns) ==
  /\ start \in [Msgs -> JAMHDR]
  /\ Steps(turns, start, byCRC)
  /\ msginfo = FoundBy(turns, start, byCRC)
  /\ SameNumbers(start, hdr)
  /\ goal = [m \in Msgs |-> goal[m]]
  /\ Once(idx) =>
       /\ \A e \in 1 .. Len(idx) :
            idx[e] \in Msgs =>
              goal[idx[e]] = IF msginfo[e].rewrite THEN Relinked(start[idx[e]], msginfo[e])
                             ELSE start[idx[e]]
       /\ \A m \in Msgs : m \notin ToSet(idx) => goal[m] = start[m]
       /\ \A m \in Msgs : hdr[m] = IF \E e \in 1 .. Len(idx) : e < i /\ idx[e] = m
                                   THEN goal[m] ELSE start[m]

\* At every moment of a link there are such headers and turns.
Linking == pc = "link" => \E start, turns : LinkTrack(start, turns)

\* What there is to find depends on the index and the messages.
LEMMA StepsKept ==
  ASSUME UNCHANGED << state, idx, text >>, NEW turns, NEW x, NEW crc, byCRC' = crc
  PROVE  /\ Steps(turns, x, byCRC)' <=> Steps(turns, x, crc)
         /\ FoundBy(turns, x, byCRC)' = FoundBy(turns, x, crc)
         /\ Once(idx)' <=> Once(idx)
         /\ ToSet(idx)' = ToSet(idx)
<1>1. \A k : IsLinked(byCRC, k)' <=> IsLinked(crc, k)
  BY DEF IsLinked, CheckMsg
<1>2. \A k, ii : IsReply(byCRC, ii, k)' <=> IsReply(crc, ii, k)
  BY DEF IsReply, Msgid, Reply, GetOnlyId
<1>3. \A info, k, ii : LinkReply(x, byCRC, info, k, ii)' = LinkReply(x, crc, info, k, ii)
  BY <1>2 DEF LinkReply
<1>4. \A info, k, ii : LinkNext(x, info, k, ii)' = LinkNext(x, info, k, ii)
  BY DEF LinkNext
<1>5. \A info, k, ii : LinkPair(x, byCRC, info, k, ii)' = LinkPair(x, crc, info, k, ii)
  BY <1>1, <1>3, <1>4 DEF LinkPair
<1>6. NothingFound' = NothingFound
  BY DEF NothingFound
<1>7. Steps(turns, x, byCRC)' <=> Steps(turns, x, crc)
  BY <1>5, <1>6 DEF Steps
<1>8. FoundBy(turns, x, byCRC)' = FoundBy(turns, x, crc)
  BY <1>1 DEF FoundBy
<1> QED
  BY <1>7, <1>8 DEF Once, ToSet

\* A link begins when the area is read; only its own writes touch what it works on.
LEMMA LinkingStep ==
  ASSUME [Next]_vars, pc' = "link"
  PROVE  \/ ReadMsgs
         \/ WriteLinks
         \/ pc = "link" /\ UNCHANGED << state, hdr, idx, text, byCRC, msginfo, i, goal >>
<1>1. CASE Sort
  BY <1>1 DEF Sort, SortStep, ReadLrd, LockToSort, SortLocked, WriteHdr, WriteIdx, Chsize,
              Unlock, EndSort
<1>2. CASE Link
  BY <1>2 DEF Link, LinkStep, UnlockLinked, EndLink
<1>3. CASE Other
  <2>1. pc' = pc /\ UNCHANGED << byCRC, msginfo, i, goal >>
    BY <1>3 DEF Other, linkMemory
  <2>2. ~Unlocked
    BY <2>1 DEF Unlocked
  <2>3. \E u \in Users, k \in 1 .. Len(idx) : ReadOn(u, k)
    BY <1>3, <2>2, Zenon DEF Other, Toss, Purge, PurgeDies
  <2> QED
    BY <2>1, <2>3 DEF ReadOn
<1>4. CASE Crash
  BY <1>4 DEF Crash, EndSort
<1>5. CASE UNCHANGED vars
  BY <1>5 DEF vars, files, linkMemory
<1> QED
  BY <1>1, <1>2, <1>3, <1>4, <1>5 DEF Next

\* A write changes links only.
LEMMA WriteLinksFacts ==
  ASSUME IInv, WriteLinks
  PROVE  /\ pc = "link" /\ i \in 1 .. Len(idx) /\ Len(idx) \in Nat /\ i' = i + 1
         /\ hdr' = IF msginfo[i].rewrite
                   THEN [hdr EXCEPT ![idx[i]] = Relinked(hdr[idx[i]], msginfo[i])] ELSE hdr
         /\ UNCHANGED << state, idx, text, byCRC, msginfo, goal >>
         /\ hdr \in [Msgs -> JAMHDR] /\ SameNumbers(hdr, hdr')
<1>1. Area /\ Memory
  BY DEF IInv
<1>2. /\ pc = "link" /\ i <= Len(idx) /\ i' = i + 1
      /\ UNCHANGED << state, idx, text, byCRC, msginfo, goal >>
  BY DEF WriteLinks
<1>3. i \in 1 .. Len(idx) /\ Len(idx) \in Nat /\ Len(msginfo) = Len(idx)
  BY <1>1, <1>2, AreaFacts DEF Memory
<1>4. hdr \in [Msgs -> JAMHDR]
  BY <1>1, AreaFacts
<1>5. hdr' = IF msginfo[i].rewrite
             THEN [hdr EXCEPT ![idx[i]] = Relinked(hdr[idx[i]], msginfo[i])] ELSE hdr
  BY <1>4 DEF WriteLinks
<1>6. msginfo[i] \in Info
  BY <1>1, <1>3, ElementOfSeq DEF Memory
<1>7. ASSUME NEW m \in Msgs PROVE hdr[m].MsgNum = hdr'[m].MsgNum
  <2>1. hdr'[m] = hdr[m] \/ hdr'[m] = Relinked(hdr[m], msginfo[i])
    BY <1>4, <1>5
  <2>2. hdr[m] \in JAMHDR
    BY <1>4
  <2> QED
    BY <2>1, <2>2, <1>6, RelinkedFacts
<1>8. SameNumbers(hdr, hdr')
  BY <1>7 DEF SameNumbers
<1> QED
  BY <1>2, <1>3, <1>4, <1>5, <1>8

\* What was read is found by turns, and nothing is written yet.
LEMMA LinkingAtRead ==
  ASSUME IInv, ReadMsgs
  PROVE  \E start, turns : LinkTrack(start, turns)'
<1>1. /\ UNCHANGED << state, hdr, idx, text >> /\ i' = 1
      /\ byCRC' \in BOOLEAN
      /\ msginfo' = LinkAll(hdr, byCRC') /\ goal' = Result(hdr, LinkAll(hdr, byCRC'))
  BY DEF ReadMsgs, files
<1>2. hdr \in [Msgs -> JAMHDR] /\ Len(idx) \in Nat
  BY AreaFacts DEF IInv
<1>3. PICK crc, start : crc = byCRC' /\ start = hdr
  OBVIOUS
<1>4. PICK turns : Steps(turns, start, crc) /\ LinkAll(start, crc) = FoundBy(turns, start, crc)
  BY <1>1, <1>2, <1>3, LinkAllByRun
<1> DEFINE info == LinkAll(start, crc)
<1>5. msginfo' = info /\ goal' = Result(start, info) /\ hdr' = start
  BY <1>1, <1>3
<1>6. /\ Steps(turns, start, byCRC)' /\ info = FoundBy(turns, start, byCRC)'
      /\ Once(idx)' <=> Once(idx)
      /\ ToSet(idx)' = ToSet(idx)
  BY <1>1, <1>3, <1>4, StepsKept
<1> HIDE DEF info
<1>7. start \in [Msgs -> JAMHDR] /\ SameNumbers(start, hdr')
  BY <1>2, <1>3, <1>5 DEF SameNumbers
<1>8. goal' = [m \in Msgs |-> goal'[m]]
  BY <1>5 DEF Result
<1>9. ASSUME Once(idx)
      PROVE  /\ \A e \in 1 .. Len(idx) :
                  idx[e] \in Msgs =>
                    goal'[idx[e]] = IF msginfo'[e].rewrite
                                    THEN Relinked(start[idx[e]], msginfo'[e])
                                    ELSE start[idx[e]]
             /\ \A m \in Msgs : m \notin ToSet(idx) => goal'[m] = start[m]
  BY <1>2, <1>5, <1>9, ResultAt
<1>10. \A m \in Msgs : ~(\E e \in 1 .. Len(idx) : e < 1 /\ idx[e] = m) /\ hdr'[m] = start[m]
  BY <1>2, <1>5
<1>11. LinkTrack(start, turns)'
  BY <1>1, <1>5, <1>6, <1>7, <1>8, <1>9, <1>10 DEF LinkTrack, SameNumbers
<1> QED
  BY <1>11

\* A write leads the message of one entry to its end.
LEMMA LinkingAtWrite ==
  ASSUME IInv, WriteLinks, NEW start, NEW turns, LinkTrack(start, turns)
  PROVE  LinkTrack(start, turns)'
<1>1. /\ pc = "link" /\ i \in 1 .. Len(idx) /\ Len(idx) \in Nat /\ i' = i + 1
      /\ hdr' = IF msginfo[i].rewrite
                THEN [hdr EXCEPT ![idx[i]] = Relinked(hdr[idx[i]], msginfo[i])] ELSE hdr
      /\ UNCHANGED << state, idx, text, byCRC, msginfo, goal >>
      /\ hdr \in [Msgs -> JAMHDR] /\ SameNumbers(hdr, hdr')
  BY WriteLinksFacts
<1>2. PICK crc : crc = byCRC
  OBVIOUS
<1>3. /\ Steps(turns, start, crc) /\ msginfo = FoundBy(turns, start, crc)
      /\ start \in [Msgs -> JAMHDR] /\ SameNumbers(start, hdr)
      /\ goal = [m \in Msgs |-> goal[m]]
  BY <1>2 DEF LinkTrack
<1>4. /\ Steps(turns, start, byCRC)' /\ msginfo = FoundBy(turns, start, byCRC)'
      /\ Once(idx)' <=> Once(idx)
      /\ ToSet(idx)' = ToSet(idx)
  BY <1>1, <1>2, <1>3, StepsKept
<1>5. SameNumbers(start, hdr')
  BY <1>1, <1>3 DEF SameNumbers
<1>6. ASSUME Once(idx)
      PROVE  /\ \A e \in 1 .. Len(idx) :
                  idx[e] \in Msgs =>
                    goal[idx[e]] = IF msginfo[e].rewrite
                                   THEN Relinked(start[idx[e]], msginfo[e])
                                   ELSE start[idx[e]]
             /\ \A m \in Msgs : m \notin ToSet(idx) => goal[m] = start[m]
             /\ \A m \in Msgs : hdr[m] = IF \E e \in 1 .. Len(idx) : e < i /\ idx[e] = m
                                         THEN goal[m] ELSE start[m]
  BY <1>6 DEF LinkTrack
<1>7. ASSUME Once(idx), NEW m \in Msgs
      PROVE  hdr'[m] = IF \E e \in 1 .. Len(idx) : e < i + 1 /\ idx[e] = m
                       THEN goal[m] ELSE start[m]
  <2>1. \A e \in 1 .. Len(idx) : e < i + 1 <=> e < i \/ e = i
    BY <1>1
  <2>2. CASE m = idx[i]
    <3>1. ~\E e \in 1 .. Len(idx) : e < i /\ idx[e] = m
      BY <1>1, <1>7, <2>2 DEF Once
    <3>2. hdr[m] = start[m]
      BY <3>1, <1>6, <1>7
    <3>3. hdr'[m] = goal[m]
      BY <3>2, <2>2, <1>1, <1>6, <1>7
    <3>4. i < i + 1
      BY <1>1
    <3> QED
      BY <3>3, <3>4, <2>2, <1>1
  <2>3. CASE m # idx[i]
    <3>1. hdr'[m] = hdr[m]
      BY <2>3, <1>1
    <3>2. (\E e \in 1 .. Len(idx) : e < i + 1 /\ idx[e] = m)
            <=> \E e \in 1 .. Len(idx) : e < i /\ idx[e] = m
      BY <2>1, <2>3
    <3> QED
      BY <3>1, <3>2, <1>6, <1>7
  <2> QED
    BY <2>2, <2>3
<1> QED
  BY <1>1, <1>3, <1>4, <1>5, <1>6, <1>7 DEF LinkTrack, SameNumbers

\* All other steps leave it alone.
LEMMA LinkingKept ==
  ASSUME UNCHANGED << state, hdr, idx, text, byCRC, msginfo, i, goal >>,
         NEW start, NEW turns, LinkTrack(start, turns)
  PROVE  LinkTrack(start, turns)'
<1>1. PICK crc : crc = byCRC
  OBVIOUS
<1>2. Steps(turns, start, crc) /\ msginfo = FoundBy(turns, start, crc)
  BY <1>1 DEF LinkTrack
<1>3. /\ Steps(turns, start, byCRC)' /\ msginfo = FoundBy(turns, start, byCRC)'
      /\ Once(idx)' <=> Once(idx)
      /\ ToSet(idx)' = ToSet(idx)
  BY <1>1, <1>2, StepsKept
<1> QED
  BY <1>3 DEF LinkTrack, SameNumbers

\* Each step of Next keeps Linking.
LEMMA LinkingInvariance ==
  ASSUME IInv, Linking, [Next]_vars
  PROVE  Linking'
<1> SUFFICES ASSUME pc' = "link" PROVE \E start, turns : LinkTrack(start, turns)'
  BY DEF Linking
<1>1. CASE ReadMsgs
  BY <1>1, LinkingAtRead
<1>2. CASE WriteLinks
  <2>1. PICK start, turns : LinkTrack(start, turns)
    BY <1>2 DEF Linking, WriteLinks
  <2>2. LinkTrack(start, turns)'
    BY <1>2, <2>1, LinkingAtWrite
  <2> QED
    BY <2>2
<1>3. CASE pc = "link" /\ UNCHANGED << state, hdr, idx, text, byCRC, msginfo, i, goal >>
  <2>1. PICK start, turns : LinkTrack(start, turns)
    BY <1>3 DEF Linking
  <2>2. LinkTrack(start, turns)'
    BY <1>3, <2>1, LinkingKept
  <2> QED
    BY <2>2
<1> QED
  BY <1>1, <1>2, <1>3, LinkingStep

\* The parts of LinkTrack.
LEMMA TrackFacts ==
  ASSUME IInv, pc = "link", NEW start, NEW turns, LinkTrack(start, turns)
  PROVE  /\ Len(idx) \in Nat /\ i \in 1 .. Len(idx) + 1 /\ byCRC \in BOOLEAN
         /\ hdr \in [Msgs -> JAMHDR] /\ start \in [Msgs -> JAMHDR]
         /\ Steps(turns, start, byCRC) /\ SameNumbers(start, hdr)
         /\ \A e \in 1 .. Len(idx) : msginfo[e] \in Info
<1>1. Area /\ Memory
  BY DEF IInv
<1>2. Len(idx) \in Nat /\ hdr \in [Msgs -> JAMHDR]
  BY <1>1, AreaFacts
<1>3. Len(msginfo) = Len(idx) /\ i \in 1 .. Len(idx) + 1 /\ byCRC \in BOOLEAN
  BY <1>1 DEF Memory
<1>4. \A e \in 1 .. Len(idx) : msginfo[e] \in Info
  BY <1>1, <1>2, <1>3, ElementOfSeq DEF Memory
<1> QED
  BY <1>2, <1>3, <1>4 DEF LinkTrack

\* At each moment of a link, a new one would find the same links, and the same to
\* rewrite where nothing was written.
LEMMA FoundAgain ==
  ASSUME IInv, pc = "link", NEW start, NEW turns, LinkTrack(start, turns),
         NEW e \in 1 .. Len(idx)
  PROVE  LET info == LinkAll(hdr, byCRC)[e]
         IN  /\ info.ReplyTo = msginfo[e].ReplyTo /\ info.Reply1st = msginfo[e].Reply1st
             /\ info.ReplyNext = msginfo[e].ReplyNext
             /\ idx[e] \in Msgs /\ hdr[idx[e]] = start[idx[e]] =>
                  (info.rewrite <=> msginfo[e].rewrite)
<1> DEFINE n == Len(idx)
<1>1. /\ n \in Nat /\ byCRC \in BOOLEAN /\ SameNumbers(start, hdr)
      /\ hdr \in [Msgs -> JAMHDR] /\ start \in [Msgs -> JAMHDR]
      /\ Steps(turns, start, byCRC) /\ msginfo = FoundBy(turns, start, byCRC)
  BY TrackFacts DEF LinkTrack
<1>2. PICK others :
        Steps(others, hdr, byCRC) /\ LinkAll(hdr, byCRC) = FoundBy(others, hdr, byCRC)
  BY <1>1, LinkAllByRun
<1> DEFINE a == turns[n][n]
           b == others[n][n]
<1>3. Alike(start, hdr, a, b)
  BY <1>1, <1>2, SameRuns
<1>4. a \in [1 .. n -> Info] /\ b \in [1 .. n -> Info]
  BY <1>1, <1>2, TurnTypes
<1>5. ASSUME NEW found \in Info, NEW r
      PROVE  LET set == [found EXCEPT !.rewrite = r]
             IN  /\ set.ReplyTo = found.ReplyTo /\ set.Reply1st = found.Reply1st
                 /\ set.ReplyNext = found.ReplyNext /\ set.rewrite = r
  BY DEF Info
<1> DEFINE Rewrite(x, found) == IF ~byCRC \/ ~IsLinked(byCRC, e) THEN found.rewrite
                                ELSE Relinked(x[idx[e]], found) # x[idx[e]]
<1>6. /\ msginfo[e] = [a[e] EXCEPT !.rewrite = Rewrite(start, a[e])]
      /\ LinkAll(hdr, byCRC)[e] = [b[e] EXCEPT !.rewrite = Rewrite(hdr, b[e])]
  BY <1>1, <1>2 DEF FoundBy
<1>7. a[e] \in Info /\ b[e] \in Info
  BY <1>4
<1>8. /\ a[e].ReplyTo = b[e].ReplyTo /\ a[e].Reply1st = b[e].Reply1st
      /\ a[e].ReplyNext = b[e].ReplyNext
      /\ start[idx[e]] = hdr[idx[e]] => (a[e].rewrite <=> b[e].rewrite)
  BY <1>3 DEF Alike
<1>9. start[idx[e]] = hdr[idx[e]] => (Rewrite(start, a[e]) <=> Rewrite(hdr, b[e]))
  BY <1>8, RelinkedAlike
<1> HIDE DEF Rewrite, a, b
<1>10. /\ msginfo[e].ReplyTo = a[e].ReplyTo /\ msginfo[e].Reply1st = a[e].Reply1st
       /\ msginfo[e].ReplyNext = a[e].ReplyNext
       /\ msginfo[e].rewrite = Rewrite(start, a[e])
  BY <1>5, <1>6, <1>7
<1>11. LET info == LinkAll(hdr, byCRC)[e]
       IN  /\ info.ReplyTo = b[e].ReplyTo /\ info.Reply1st = b[e].Reply1st
           /\ info.ReplyNext = b[e].ReplyNext
           /\ info.rewrite = Rewrite(hdr, b[e])
  BY <1>5, <1>6, <1>7
<1> QED
  BY <1>8, <1>9, <1>10, <1>11

\* At each moment of a link, a new one would come to the same end.
LEMMA RepeatedAtAnyTime ==
  ASSUME IInv, pc = "link", Once(idx), NEW start, NEW turns, LinkTrack(start, turns)
  PROVE  LinkResult = goal /\ (LinkDone => hdr = goal)
<1> DEFINE info == LinkAll(hdr, byCRC)
<1>0. /\ Len(idx) \in Nat /\ i \in 1 .. Len(idx) + 1
      /\ hdr \in [Msgs -> JAMHDR] /\ start \in [Msgs -> JAMHDR]
      /\ goal = [m \in Msgs |-> goal[m]]
  BY TrackFacts DEF LinkTrack
<1>1. \A m \in Msgs : hdr[m] = IF \E e \in 1 .. Len(idx) : e < i /\ idx[e] = m
                               THEN goal[m] ELSE start[m]
  BY DEF LinkTrack
<1>2. \A m \in Msgs : m \notin ToSet(idx) => goal[m] = start[m] /\ hdr[m] = goal[m]
  <2>1. \A m \in Msgs : m \notin ToSet(idx) => goal[m] = start[m]
    BY DEF LinkTrack
  <2> QED
    BY <2>1, <1>1
<1>3. ASSUME NEW e \in 1 .. Len(idx), idx[e] \in Msgs
      PROVE  Result(hdr, info)[idx[e]] = goal[idx[e]]
  <2> DEFINE m == idx[e]
             mine == msginfo[e]
             new == info[e]
  <2>1. mine \in Info /\ start[m] \in JAMHDR
    BY <1>0, <1>3, TrackFacts
  <2>2. /\ new.ReplyTo = mine.ReplyTo /\ new.Reply1st = mine.Reply1st
        /\ new.ReplyNext = mine.ReplyNext
        /\ hdr[m] = start[m] => (new.rewrite <=> mine.rewrite)
    BY <1>3, FoundAgain
  <2>3. goal[m] = IF mine.rewrite THEN Relinked(start[m], mine) ELSE start[m]
    BY <1>3 DEF LinkTrack
  <2>4. Result(hdr, info)[m] = IF new.rewrite THEN Relinked(hdr[m], new) ELSE hdr[m]
    <3> HIDE DEF info
    <3> QED
      BY <1>0, <1>3, ResultAt
  <2>5. hdr[m] = goal[m] \/ hdr[m] = start[m]
    BY <1>1, <1>3
  <2> SUFFICES Result(hdr, info)[m] = goal[m]
    OBVIOUS
  <2> HIDE DEF m, mine, new, info
  <2>6. \A x : Relinked(x, new) = Relinked(x, mine)
    BY <2>2, RelinkedAlike
  <2>7. Relinked(Relinked(start[m], mine), mine) = Relinked(start[m], mine)
    BY <2>1, RelinkedFacts
  <2>8. CASE hdr[m] = start[m]
    BY <2>8, <2>2, <2>3, <2>4, <2>6
  <2>9. CASE hdr[m] = goal[m] /\ hdr[m] # start[m]
    <3>1. goal[m] = Relinked(start[m], mine)
      BY <2>9, <2>3
    <3> QED
      BY <3>1, <2>4, <2>6, <2>7, <2>9
  <2> QED
    BY <2>5, <2>8, <2>9
<1>4. LinkResult = goal
  <2>1. \A m \in Msgs : Result(hdr, info)[m] = goal[m]
    <3> TAKE m \in Msgs
    <3>1. CASE m \in ToSet(idx)
      BY <3>1, <1>3 DEF ToSet
    <3>2. CASE m \notin ToSet(idx)
      <4> HIDE DEF info
      <4> QED
        BY <3>2, <1>0, <1>2, ResultAt
    <3> QED
      BY <3>1, <3>2
  <2>2. LinkResult = Result(hdr, info)
    BY DEF LinkResult
  <2>3. Result(hdr, info) = [m \in Msgs |-> Result(hdr, info)[m]]
    <3> HIDE DEF info
    <3> QED
      BY DEF Result
  <2> HIDE DEF info
  <2> QED
    BY <2>1, <2>2, <2>3, <1>0
<1>5. LinkDone => hdr = goal
  <2> SUFFICES ASSUME LinkDone PROVE hdr = goal
    OBVIOUS
  <2>1. \A e \in 1 .. Len(idx) : e < i
    BY <1>0 DEF LinkDone
  <2>2. \A m \in Msgs : hdr[m] = goal[m]
    <3> TAKE m \in Msgs
    <3>1. CASE m \in ToSet(idx)
      <4>1. \E e \in 1 .. Len(idx) : e < i /\ idx[e] = m
        BY <3>1, <2>1 DEF ToSet
      <4> QED
        BY <4>1, <1>1
    <3>2. CASE m \notin ToSet(idx)
      BY <3>2, <1>2
    <3> QED
      BY <3>1, <3>2
  <2> QED
    BY <2>2, <1>0
<1> QED
  BY <1>4, <1>5

-----------------------------------------------------------------------------
(* What a link that comes to its end has found. *)

\* What is a reply by the ids that are compared answers its parent; with -j only where
\* no id is taken for another one.
LEMMA RepliesAnswer ==
  ASSUME Area, byCRC \in BOOLEAN, NEW r \in 1 .. Len(idx), NEW p \in 1 .. Len(idx)
  PROVE  /\ (byCRC => LongIsDword) /\ Replies(byCRC, r, p) => Answers(r, p)
         /\ NoneKnown => (Replies(byCRC, r, p) <=> Answers(r, p))
<1> DEFINE reply == text[idx[r]].reply
           msgid == text[idx[p]].msgid
<1> SUFFICES ASSUME CheckMsg(idx[r]), CheckMsg(idx[p]), r # p
             PROVE  /\ (byCRC => LongIsDword) /\ Replies(byCRC, r, p) => Answers(r, p)
                    /\ NoneKnown => (Replies(byCRC, r, p) <=> Answers(r, p))
  BY DEF Replies, Answers, Names, IsLinked
<1>1. reply \in Id \cup {NoId} /\ msgid \in Id \cup {NoId}
  <2>1. idx[r] \in Msgs /\ idx[p] \in Msgs /\ text \in Texts
    BY AreaFacts DEF CheckMsg
  <2> QED
    BY <2>1 DEF Texts
<1>2. \A id \in Id : id.serial # NoId /\ id # NoId
  BY AreaAssumption DEF Id
<1>3. /\ \A id \in Id \cup {NoId} : CRC[id] \in 0 .. Dword - 1
      /\ CRC[NoId] = Dword - 1 /\ NoId \notin 0 .. Dword - 1
  BY CRCAssumption
<1>4. CASE ~byCRC
  <2>1. Msgid(byCRC, p) = GetOnlyId(msgid) /\ Reply(byCRC, r) = GetOnlyId(reply)
    BY <1>4 DEF Msgid, Reply
  <2>2. /\ IsLinked(byCRC, r) <=> text[idx[r]].msgid # NoId
        /\ IsLinked(byCRC, p) <=> msgid # NoId
    BY <1>4 DEF IsLinked
  <2>3. Names(r, p) <=> NoId \notin {reply, msgid} /\ reply.serial = msgid.serial
    BY <1>4 DEF Names
  <2> HIDE DEF reply, msgid
  <2>4. (GetOnlyId(msgid) # NoId /\ GetOnlyId(reply) = GetOnlyId(msgid))
          <=> NoId \notin {reply, msgid} /\ reply.serial = msgid.serial
    BY <1>1, <1>2 DEF GetOnlyId
  <2>5. IsReply(byCRC, r, p) <=> NoId \notin {reply, msgid} /\ reply.serial = msgid.serial
    BY <2>1, <2>4 DEF IsReply
  <2> QED
    BY <2>2, <2>3, <2>5, <1>4 DEF Replies, Answers
<1>5. CASE byCRC
  <2>1. /\ Msgid(byCRC, p) = IF CRC[msgid] = Dword - 1 /\ LongIsDword THEN NoId ELSE CRC[msgid]
        /\ Reply(byCRC, r) = CRC[reply]
    BY <1>5 DEF Msgid, Reply
  <2>2. IsLinked(byCRC, r) /\ IsLinked(byCRC, p)
    BY <1>5 DEF IsLinked
  <2>3. Names(r, p) <=> NoId \notin {reply, msgid} /\ CRC[reply] = CRC[msgid]
    BY <1>5 DEF Names
  <2> HIDE DEF reply, msgid
  <2>4. ASSUME LongIsDword, IsReply(byCRC, r, p)
        PROVE  NoId \notin {reply, msgid} /\ CRC[reply] = CRC[msgid]
    BY <2>1, <2>4, <1>1, <1>3 DEF IsReply
  <2>5. ASSUME NoneKnown, NoId \notin {reply, msgid}, CRC[reply] = CRC[msgid]
        PROVE  IsReply(byCRC, r, p)
    <3>1. CRC[msgid] # Dword - 1 /\ CRC[msgid] # NoId
      BY <2>5, <1>1, <1>3, <1>5 DEF NoneKnown
    <3> QED
      BY <3>1, <2>1, <2>5 DEF IsReply
  <2>6. NoneKnown => LongIsDword
    BY <1>5 DEF NoneKnown
  <2> QED
    BY <2>2, <2>3, <2>4, <2>5, <2>6, <1>5 DEF Replies, Answers
<1> QED
  BY <1>4, <1>5

\* What the header of a linked message holds when all is written.
LEMMA EndedHdr ==
  ASSUME IInv, LinkDone, Once(idx), NEW start, NEW turns, LinkTrack(start, turns),
         NEW k \in 1 .. Len(idx), IsLinked(byCRC, k)
  PROVE  LET h == hdr[idx[k]]
             old == start[idx[k]]
             f == turns[Len(idx)][Len(idx)][k]
         IN  /\ h.ReplyTo \in {f.ReplyTo, old.ReplyTo}
             /\ h.Reply1st \in {f.Reply1st, old.Reply1st}
             /\ h.ReplyNext \in {f.ReplyNext, old.ReplyNext}
             /\ byCRC \/ f.ReplyTo # 0 => h.ReplyTo = f.ReplyTo
             /\ byCRC \/ f.Reply1st # 0 => h.Reply1st = f.Reply1st
             /\ byCRC \/ f.ReplyNext # 0 => h.ReplyNext = f.ReplyNext
<1> DEFINE m == idx[k]
           f == turns[Len(idx)][Len(idx)][k]
           info == msginfo[k]
<1>0. pc = "link"
  BY DEF LinkDone
<1>1. /\ Len(idx) \in Nat /\ start \in [Msgs -> JAMHDR] /\ byCRC \in BOOLEAN
      /\ Steps(turns, start, byCRC)
  BY <1>0, TrackFacts
<1>2. m \in Msgs
  BY DEF IsLinked, CheckMsg
<1>3. start[m] \in JAMHDR /\ f \in Info
  <2>1. turns[Len(idx)][Len(idx)] \in [1 .. Len(idx) -> Info]
    BY <1>1, TurnTypes
  <2> QED
    BY <2>1, <1>1, <1>2
<1>4. FoundOld(start, turns[Len(idx)][Len(idx)])
  BY <1>1, RunLeads
<1>5. ~f.rewrite =>
        /\ f.ReplyTo # 0 => f.ReplyTo = start[m].ReplyTo
        /\ f.Reply1st # 0 => f.Reply1st = start[m].Reply1st
        /\ f.ReplyNext # 0 => f.ReplyNext = start[m].ReplyNext
  BY <1>4 DEF FoundOld
<1>6. hdr[m] = IF info.rewrite THEN Relinked(start[m], info) ELSE start[m]
  <2>1. hdr = goal
    BY <1>0, RepeatedAtAnyTime
  <2> QED
    BY <2>1, <1>2 DEF LinkTrack
<1> DEFINE Rewrite == IF ~byCRC THEN f.rewrite ELSE Relinked(start[m], f) # start[m]
<1>7. info = [f EXCEPT !.rewrite = Rewrite]
  <2>1. msginfo = FoundBy(turns, start, byCRC)
    BY DEF LinkTrack
  <2>2. info = [f EXCEPT !.rewrite = IF ~byCRC \/ ~IsLinked(byCRC, k) THEN @
                                     ELSE Relinked(start[m], f) # start[m]]
    BY <2>1 DEF FoundBy
  <2> QED
    BY <2>2
<1> SUFFICES /\ hdr[m].ReplyTo \in {f.ReplyTo, start[m].ReplyTo}
             /\ hdr[m].Reply1st \in {f.Reply1st, start[m].Reply1st}
             /\ hdr[m].ReplyNext \in {f.ReplyNext, start[m].ReplyNext}
             /\ byCRC \/ f.ReplyTo # 0 => hdr[m].ReplyTo = f.ReplyTo
             /\ byCRC \/ f.Reply1st # 0 => hdr[m].Reply1st = f.Reply1st
             /\ byCRC \/ f.ReplyNext # 0 => hdr[m].ReplyNext = f.ReplyNext
  OBVIOUS
<1>8. Rewrite <=> IF ~byCRC THEN f.rewrite ELSE Relinked(start[m], f) # start[m]
  BY <1>3 DEF Info
<1> HIDE DEF m, f, info, Rewrite
<1>9. /\ info.ReplyTo = f.ReplyTo /\ info.Reply1st = f.Reply1st
      /\ info.ReplyNext = f.ReplyNext /\ info.rewrite = Rewrite
  BY <1>7, <1>3 DEF Info
<1>10. Relinked(start[m], info) = Relinked(start[m], f)
  BY <1>9, RelinkedAlike
<1>11. /\ Relinked(start[m], f).ReplyTo = f.ReplyTo
       /\ Relinked(start[m], f).Reply1st = f.Reply1st
       /\ Relinked(start[m], f).ReplyNext = f.ReplyNext
  BY <1>3, RelinkedFacts
<1>12. CASE info.rewrite
  <2>1. hdr[m] = Relinked(start[m], f)
    BY <1>12, <1>6, <1>10
  <2> QED
    BY <2>1, <1>11
<1>13. CASE ~info.rewrite /\ byCRC
  <2>1. hdr[m] = Relinked(start[m], f)
    BY <1>13, <1>6, <1>8, <1>9
  <2> QED
    BY <2>1, <1>11
<1>14. CASE ~info.rewrite /\ ~byCRC
  <2>1. hdr[m] = start[m] /\ ~f.rewrite
    BY <1>14, <1>6, <1>8, <1>9
  <2> QED
    BY <2>1, <1>5, <1>14
<1> QED
  BY <1>12, <1>13, <1>14

\* The numbers at the end are those that the links were found with.
LEMMA EndedNumbers ==
  ASSUME IInv, LinkDone, NEW start, NEW turns, LinkTrack(start, turns),
         NEW k \in 1 .. Len(idx), CheckMsg(idx[k])
  PROVE  Num(start, k) = hdr[idx[k]].MsgNum
BY TrackFacts DEF LinkDone, SameNumbers, Num, CheckMsg

\* A message leads to the last message that it answers and to the first of its replies.
LEMMA RepliesFoundAtEnd ==
  ASSUME IInv, Linking, LinkDone, Once(idx), NoneKnown, AllNumbered, NEW p \in 1 .. Len(idx)
  PROVE  LET parents == {q \in 1 .. Len(idx) : Answers(p, q)}
             replies == {r \in 1 .. Len(idx) : Answers(r, p)}
         IN  /\ parents # {} => hdr[idx[p]].ReplyTo = hdr[idx[Max(parents)]].MsgNum
             /\ replies # {} => hdr[idx[p]].Reply1st = hdr[idx[Min(replies)]].MsgNum
<1> DEFINE n == Len(idx)
           parents == {q \in 1 .. n : Answers(p, q)}
           replies == {r \in 1 .. n : Answers(r, p)}
<1>1. PICK start, turns : LinkTrack(start, turns)
  BY DEF Linking, LinkDone
<1>2. /\ n \in Nat /\ start \in [Msgs -> JAMHDR] /\ byCRC \in BOOLEAN
      /\ Steps(turns, start, byCRC)
  BY <1>1, TrackFacts DEF LinkDone
<1>3. \A r, q \in 1 .. n : Replies(byCRC, r, q) <=> Answers(r, q)
  BY <1>2, RepliesAnswer DEF IInv
<1>4. ASSUME NEW r \in 1 .. n, NEW q \in 1 .. n, Answers(r, q)
      PROVE  /\ Replies(byCRC, r, q) /\ IsLinked(byCRC, r) /\ IsLinked(byCRC, q)
             /\ Num(start, r) = hdr[idx[r]].MsgNum /\ Num(start, r) # 0
             /\ Num(start, q) = hdr[idx[q]].MsgNum /\ Num(start, q) # 0
  <2>1. Replies(byCRC, r, q)
    BY <1>3, <1>4
  <2>2. IsLinked(byCRC, r) /\ IsLinked(byCRC, q)
    BY <2>1 DEF Replies
  <2>3. CheckMsg(idx[r]) /\ CheckMsg(idx[q])
    BY <2>2 DEF IsLinked
  <2> QED
    BY <2>1, <2>2, <2>3, <1>1, EndedNumbers DEF AllNumbered
<1>5. ASSUME parents # {}
      PROVE  hdr[idx[p]].ReplyTo = hdr[idx[Max(parents)]].MsgNum
  <2> DEFINE q == Max(parents)
  <2>1. q \in parents /\ \A s \in parents : s <= q
    <3>1. parents \subseteq 0 .. n
      OBVIOUS
    <3> HIDE DEF parents
    <3> QED
      BY <3>1, <1>2, <1>5, EndsOfSet
  <2> HIDE DEF q
  <2>2. q \in 1 .. n /\ Answers(p, q) /\ \A s \in 1 .. n : Replies(byCRC, p, s) => s <= q
    BY <2>1, <1>3
  <2>3. turns[n][n][p].ReplyTo = Num(start, q)
    BY <2>2, <1>2, <1>4, ParentFound
  <2>4. hdr[idx[p]].ReplyTo = turns[n][n][p].ReplyTo
    BY <2>2, <2>3, <1>1, <1>4, EndedHdr
  <2>5. hdr[idx[p]].ReplyTo = hdr[idx[q]].MsgNum
    BY <2>2, <2>3, <2>4, <1>4
  <2> QED
    BY <2>5 DEF q
<1>6. ASSUME replies # {}
      PROVE  hdr[idx[p]].Reply1st = hdr[idx[Min(replies)]].MsgNum
  <2> DEFINE r == Min(replies)
  <2>1. r \in replies /\ \A s \in replies : r <= s
    <3>1. replies \subseteq 0 .. n
      OBVIOUS
    <3> HIDE DEF replies
    <3> QED
      BY <3>1, <1>2, <1>6, EndsOfSet
  <2> HIDE DEF r
  <2>2. r \in 1 .. n /\ Answers(r, p) /\ \A s \in 1 .. n : Replies(byCRC, s, p) => r <= s
    BY <2>1, <1>3
  <2>3. turns[n][n][p].Reply1st = Num(start, r)
    BY <2>2, <1>2, <1>4, FirstFound
  <2>4. hdr[idx[p]].Reply1st = turns[n][n][p].Reply1st
    BY <2>2, <2>3, <1>1, <1>4, EndedHdr
  <2>5. hdr[idx[p]].Reply1st = hdr[idx[r]].MsgNum
    BY <2>2, <2>3, <2>4, <1>4
  <2> QED
    BY <2>5 DEF r
<1> QED
  BY <1>5, <1>6

\* Replies to one message, and to no other, are chained in the order of the index.
LEMMA ChainCompleteAtEnd ==
  ASSUME IInv, Linking, LinkDone, Once(idx), NoneKnown, AllNumbered, NumbersApart,
         NEW p \in 1 .. Len(idx), NEW r \in 1 .. Len(idx), NEW s \in 1 .. Len(idx),
         p < r, r < s, Answers(r, p), Answers(s, p),
         \A q \in 1 .. Len(idx) : Answers(r, q) \/ Answers(s, q) => q = p,
         \A q \in r + 1 .. s - 1 : ~Answers(q, p)
  PROVE  hdr[idx[r]].ReplyNext = hdr[idx[s]].MsgNum
<1> DEFINE n == Len(idx)
<1>1. PICK start, turns : LinkTrack(start, turns)
  BY DEF Linking, LinkDone
<1>2. /\ n \in Nat /\ start \in [Msgs -> JAMHDR] /\ byCRC \in BOOLEAN
      /\ Steps(turns, start, byCRC)
  BY <1>1, TrackFacts DEF LinkDone
<1>3. \A a, b \in 1 .. n : Replies(byCRC, a, b) <=> Answers(a, b)
  BY <1>2, RepliesAnswer DEF IInv
<1>4. ASSUME NEW e \in 1 .. n, IsLinked(byCRC, e)
      PROVE  CheckMsg(idx[e]) /\ Num(start, e) = hdr[idx[e]].MsgNum /\ Num(start, e) # 0
  <2>1. CheckMsg(idx[e])
    BY <1>4 DEF IsLinked
  <2> QED
    BY <2>1, <1>1, EndedNumbers DEF AllNumbered
<1>5. /\ Replies(byCRC, r, p) /\ Replies(byCRC, s, p)
      /\ IsLinked(byCRC, r) /\ IsLinked(byCRC, s) /\ IsLinked(byCRC, p)
  BY <1>3 DEF Replies
<1>6. \A q \in 1 .. n : Replies(byCRC, r, q) \/ Replies(byCRC, s, q) => q = p
  BY <1>3
<1>7. \A q \in r + 1 .. s - 1 : ~Replies(byCRC, q, p)
  <2>1. \A q \in r + 1 .. s - 1 : q \in 1 .. n
    BY <1>2
  <2> QED
    BY <2>1, <1>3
<1>8. Num(start, p) # 0 /\ Num(start, s) # 0 /\ Num(start, s) = hdr[idx[s]].MsgNum
  BY <1>4, <1>5
<1>9. ASSUME NEW q \in 1 .. n, IsLinked(byCRC, q), Num(start, q) = Num(start, p)
      PROVE  q = p
  BY <1>4, <1>5, <1>9 DEF NumbersApart
<1>10. turns[n][n][r].ReplyNext = Num(start, s)
  BY <1>2, <1>5, <1>6, <1>7, <1>8, <1>9, ChainFound
<1>11. hdr[idx[r]].ReplyNext = turns[n][n][r].ReplyNext
  BY <1>1, <1>5, <1>8, <1>10, EndedHdr
<1> QED
  BY <1>8, <1>10, <1>11

\* Both parts of LinksFound.
LEMMA LinksFoundAtEnd == ASSUME IInv, Linking PROVE LinksFound
<1>1. RepliesFound
  BY RepliesFoundAtEnd DEF RepliesFound
<1>2. ChainComplete
  BY ChainCompleteAtEnd DEF ChainComplete
<1> QED
  BY <1>1, <1>2 DEF LinksFound

-----------------------------------------------------------------------------
(* Links that were not found anew. *)

\* Entry r names entry p by the CRCs of the ids, or by their serial numbers.
NamesBy(crc, r, p) ==
  LET reply == text[idx[r]].reply
      msgid == text[idx[p]].msgid
  IN  /\ r # p /\ CheckMsg(idx[r]) /\ CheckMsg(idx[p])
      /\ NoId \notin {reply, msgid}
      /\ IF crc THEN CRC[reply] = CRC[msgid] ELSE reply.serial = msgid.serial

\* The links x of the message of entry k lead to messages that it names or that name it.
LinksLead(x, crc, k) ==
  /\ x.ReplyTo # 0 =>
       \E j \in 1 .. Len(idx) : x.ReplyTo = Number(j) /\ NamesBy(crc, k, j)
  /\ x.Reply1st # 0 =>
       \E j \in 1 .. Len(idx) : x.Reply1st = Number(j) /\ NamesBy(crc, j, k)
  /\ x.ReplyNext # 0 =>
       \E j, p \in 1 .. Len(idx) :
         x.ReplyNext = Number(j) /\ NamesBy(crc, k, p) /\ NamesBy(crc, j, p)

\* Outside of a sort, those of the messages that were sorted do at every moment.
SortedLead ==
  ~Sorting /\ ~skewed /\ LongIsDword /\ CRCTellsApart =>
    \A k \in 1 .. Len(idx) :
      idx[k] \in sorted /\ CheckMsg(idx[k]) => LinksLead(hdr[idx[k]], FALSE, k)

\* Where CRCs tell serial numbers apart, links by CRC are links by serial number.
LEMMA SerialLinks ==
  ASSUME Area, CRCTellsApart, NEW crc \in BOOLEAN, NEW x, NEW k, LinksLead(x, crc, k)
  PROVE  LinksLead(x, FALSE, k)
<1>1. ASSUME NEW r, NEW p, NamesBy(crc, r, p) PROVE NamesBy(FALSE, r, p)
  <2>1. idx[r] \in Msgs /\ idx[p] \in Msgs /\ text \in Texts
    BY <1>1, AreaFacts DEF NamesBy, CheckMsg
  <2>2. text[idx[r]].reply \in Id \cup {NoId} /\ text[idx[p]].msgid \in Id \cup {NoId}
    BY <2>1 DEF Texts
  <2> QED
    BY <2>2, <1>1 DEF NamesBy, CRCTellsApart
<1> QED
  BY <1>1 DEF LinksLead

\* What a link finds leads where it should, if numbers are places.
LEMMA FoundLinksLead ==
  ASSUME IInv, pc = "link", ~skewed, byCRC => LongIsDword,
         NEW start, NEW turns, LinkTrack(start, turns), NEW k \in 1 .. Len(idx)
  PROVE  LinksLead(turns[Len(idx)][Len(idx)][k], byCRC, k)
<1> DEFINE n == Len(idx)
           f == turns[n][n][k]
<1>1. /\ n \in Nat /\ start \in [Msgs -> JAMHDR] /\ byCRC \in BOOLEAN
      /\ Steps(turns, start, byCRC) /\ SameNumbers(start, hdr)
  BY TrackFacts
<1>2. \A r, p \in 1 .. n : Replies(byCRC, r, p) => NamesBy(byCRC, r, p)
  BY <1>1, RepliesAnswer DEF IInv, Answers, Names, NamesBy
<1>3. ASSUME NEW e \in 1 .. n, IsLinked(byCRC, e) PROVE Num(start, e) = Number(e)
  <2>1. CheckMsg(idx[e]) /\ idx[e] \in Msgs
    BY <1>3 DEF IsLinked, CheckMsg
  <2>2. hdr[idx[e]].MsgNum = Number(e)
    BY <2>1 DEF IInv, Placed, InPlace, Sorting
  <2> QED
    BY <2>1, <2>2, <1>1 DEF SameNumbers, Num
<1>4. \A r, p \in 1 .. n : Replies(byCRC, r, p) =>
        Num(start, r) = Number(r) /\ Num(start, p) = Number(p)
  BY <1>3 DEF Replies
<1>5. FoundLeads(start, byCRC, turns[n][n])
  BY <1>1, RunLeads
<1>6. \A p, q \in 1 .. n : Number(p) = Number(q) => p = q
  BY <1>1, DwordFacts DEF Number
<1>7. f.ReplyTo # 0 => \E j \in 1 .. n : f.ReplyTo = Number(j) /\ NamesBy(byCRC, k, j)
  BY <1>2, <1>4, <1>5 DEF FoundLeads
<1>8. f.Reply1st # 0 => \E j \in 1 .. n : f.Reply1st = Number(j) /\ NamesBy(byCRC, j, k)
  BY <1>2, <1>4, <1>5 DEF FoundLeads
<1>9. ASSUME f.ReplyNext # 0
      PROVE  \E j, p \in 1 .. n :
               f.ReplyNext = Number(j) /\ NamesBy(byCRC, k, p) /\ NamesBy(byCRC, j, p)
  <2>1. PICK r \in 1 .. n, p \in 1 .. n, q \in 1 .. n :
          /\ Replies(byCRC, k, p) /\ Replies(byCRC, r, q)
          /\ Num(start, p) = Num(start, q) /\ f.ReplyNext = Num(start, r)
    BY <1>5, <1>9 DEF FoundLeads
  <2>2. p = q
    BY <2>1, <1>4, <1>6
  <2> QED
    BY <2>1, <2>2, <1>2, <1>4
<1> QED
  BY <1>7, <1>8, <1>9 DEF LinksLead

\* Links that lead where they should do so as long as their messages are there.
LEMMA LeadsStay ==
  ASSUME Len(idx) \in Nat, text' = text,
         \A k \in 1 .. Len(idx) : k \in 1 .. Len(idx') /\ idx'[k] = idx[k],
         \A m \in Msgs : state[m] = "active" => state'[m] = "active",
         NEW x, NEW crc \in BOOLEAN, NEW k \in 1 .. Len(idx), LinksLead(x, crc, k)
  PROVE  LinksLead(x, crc, k)'
<1>1. ASSUME NEW r \in 1 .. Len(idx), NEW p \in 1 .. Len(idx), NamesBy(crc, r, p)
      PROVE  NamesBy(crc, r, p)'
  <2>1. CheckMsg(idx[r])' /\ CheckMsg(idx[p])'
    BY <1>1 DEF NamesBy, CheckMsg
  <2> QED
    BY <2>1, <1>1 DEF NamesBy
<1>2. x.ReplyTo # 0 =>
        \E j \in 1 .. Len(idx') : x.ReplyTo = Number(j) /\ NamesBy(crc, k, j)'
  BY <1>1 DEF LinksLead
<1>3. x.Reply1st # 0 =>
        \E j \in 1 .. Len(idx') : x.Reply1st = Number(j) /\ NamesBy(crc, j, k)'
  BY <1>1 DEF LinksLead
<1>4. x.ReplyNext # 0 =>
        \E j, p \in 1 .. Len(idx') :
          x.ReplyNext = Number(j) /\ NamesBy(crc, k, p)' /\ NamesBy(crc, j, p)'
  BY <1>1 DEF LinksLead
<1> QED
  BY <1>2, <1>3, <1>4 DEF LinksLead, Number

\* Steps that write nothing keep SortedLead.
LEMMA LeadsKept ==
  ASSUME IInv, SortedLead, ~Sorting, UNCHANGED << state, hdr, idx, text >>,
         sorted' = sorted \/ sorted' = {}, ~skewed' => ~skewed
  PROVE  SortedLead'
<1> SUFFICES ASSUME ~skewed', LongIsDword, CRCTellsApart, NEW k \in 1 .. Len(idx),
                    idx[k] \in sorted', CheckMsg(idx[k])
             PROVE  LinksLead(hdr[idx[k]], FALSE, k)'
  BY DEF SortedLead, CheckMsg, CRCTellsApart
<1>1. LinksLead(hdr[idx[k]], FALSE, k)
  BY DEF SortedLead
<1>2. PICK x : x = hdr[idx[k]]
  OBVIOUS
<1>3. Len(idx) \in Nat
  BY AreaFacts DEF IInv
<1>4. LinksLead(x, FALSE, k)'
  BY <1>1, <1>2, <1>3, LeadsStay
<1>5. hdr'[idx'[k]] = x
  BY <1>2
<1> QED
  BY <1>4, <1>5 DEF LinksLead

\* The messages that a sort has written have no links.
LEMMA LeadsAtChsize ==
  ASSUME IInv, Sort, Chsize
  PROVE  SortedLead'
<1>0. /\ pc = "sortmsg" /\ jamsort = << >>
      /\ UNCHANGED << state, hdr, text, lastread, idxPos, before >>
      /\ idx' = Sized(idx, idxPos)
      /\ sorted' = {idx'[k] : k \in Start + 1 .. Len(idx')}
      /\ skewed' = skewed
  <2>1. Memory /\ Locked /\ pc' = "sorted" /\ pc = "sortmsg"
    BY DEF IInv, Locked, Chsize
  <2> QED
    BY <2>1, SortFrame DEF Chsize, sortMemory, sortHistory
<1> SUFFICES ASSUME ~skewed, NEW k \in 1 .. Len(idx'), idx'[k] \in sorted', CheckMsg(idx[k])'
             PROVE  LinksLead(hdr[idx[k]], FALSE, k)'
  BY <1>0 DEF SortedLead
<1>1. Area /\ Memory /\ Progress /\ Written /\ Counted /\ Placed
  BY <1>0 DEF IInv, Locked
<1>2. /\ Len(before) \in Nat /\ Len(idx) = Len(before) /\ Start \in Nat
      /\ Len(Ordered) \in Nat /\ idxPos = Start + Len(Ordered)
  <2>1. Len(before) \in Nat /\ Start \in Nat /\ Len(Ordered) \in Nat
    BY <1>1, SortFacts
  <2>2. Len(jamsort) = 0 /\ idxPos \in Start .. Start + Len(Ordered)
        /\ Len(jamsort) = Start + Len(Ordered) - idxPos
    BY <1>0, <1>1 DEF Progress
  <2>3. Len(idx) = Len(before)
    BY <1>0, <1>1 DEF Progress, Sorting
  <2> QED
    BY <2>1, <2>2, <2>3
<1>3. /\ Len(idx') = idxPos
      /\ \A j \in 1 .. idxPos : idx'[j] = IF j <= Len(idx) THEN idx[j] ELSE Zero
  BY <1>0, <1>2 DEF Sized
<1>4. PICK j \in Start + 1 .. idxPos : idx'[k] = idx'[j]
  BY <1>0, <1>3
<1>5. idx'[j] # Zero /\ j \in 1 .. idxPos
  BY <1>2, <1>4, EntriesApart DEF CheckMsg
<1>6. j \in 1 .. Len(idx) /\ idx'[j] = idx[j]
  BY <1>2, <1>3, <1>5
<1>7. j - Start \in 1 .. Len(Ordered) /\ ~(j > Len(before)) /\ Start < j /\ j <= idxPos
  BY <1>2, <1>4, <1>6
<1>8. idx[j] = Ordered[j - Start].msg
  BY <1>1, <1>6, <1>7 DEF Written
<1>9. /\ ActiveOnce(before) /\ HdrsWritten = Len(Ordered)
  BY <1>0, <1>1, <1>2 DEF Placed, Sorting, HdrsWritten
<1>10. hdr[idx[j]] = Unlinked(NewNum(j - Start))
  BY <1>1, <1>7, <1>8, <1>9 DEF Counted
<1>11. PICK num : num = NewNum(j - Start)
  OBVIOUS
<1>12. hdr'[idx'[k]] = Unlinked(num)
  BY <1>0, <1>4, <1>6, <1>10, <1>11
<1>13. Unlinked(num).ReplyTo = 0 /\ Unlinked(num).Reply1st = 0 /\ Unlinked(num).ReplyNext = 0
  BY DEF Unlinked
<1> QED
  BY <1>12, <1>13 DEF LinksLead

\* A write of link gives a message links that lead where they should.
LEMMA LeadsAtWrite ==
  ASSUME IInv, Linking, SortedLead, Link, WriteLinks
  PROVE  SortedLead'
<1>0. /\ pc = "link" /\ i \in 1 .. Len(idx) /\ Len(idx) \in Nat
      /\ hdr' = IF msginfo[i].rewrite
                THEN [hdr EXCEPT ![idx[i]] = Relinked(hdr[idx[i]], msginfo[i])] ELSE hdr
      /\ UNCHANGED << state, idx, text, sorted, skewed >>
      /\ hdr \in [Msgs -> JAMHDR]
  BY WriteLinksFacts, LinkFrame
<1> SUFFICES ASSUME ~skewed, LongIsDword, CRCTellsApart, NEW k \in 1 .. Len(idx),
                    idx[k] \in sorted, CheckMsg(idx[k])
             PROVE  LinksLead(hdr[idx[k]], FALSE, k)'
  BY <1>0 DEF SortedLead, CheckMsg, CRCTellsApart
<1>1. PICK start, turns : LinkTrack(start, turns)
  BY <1>0 DEF Linking
<1> DEFINE f == turns[Len(idx)][Len(idx)][i]
<1>2. byCRC \in BOOLEAN /\ msginfo[i] \in Info /\ f \in Info
  <2>1. /\ start \in [Msgs -> JAMHDR] /\ byCRC \in BOOLEAN /\ msginfo[i] \in Info
        /\ Steps(turns, start, byCRC)
    BY <1>0, <1>1, TrackFacts
  <2>2. turns[Len(idx)][Len(idx)] \in [1 .. Len(idx) -> Info]
    BY <1>0, <2>1, TurnTypes
  <2> QED
    BY <2>1, <2>2, <1>0
<1>3. LinksLead(f, byCRC, i)
  BY <1>0, <1>1, FoundLinksLead
<1>4. LinksLead(f, FALSE, i)
  BY <1>2, <1>3, SerialLinks DEF IInv
<1> DEFINE Rewrite == IF ~byCRC \/ ~IsLinked(byCRC, i) THEN f.rewrite
                      ELSE Relinked(start[idx[i]], f) # start[idx[i]]
<1>5. msginfo[i] = [f EXCEPT !.rewrite = Rewrite]
  <2>1. msginfo = FoundBy(turns, start, byCRC)
    BY <1>1 DEF LinkTrack
  <2> QED
    BY <2>1, <1>0 DEF FoundBy
<1> HIDE DEF f, Rewrite
<1>6. /\ msginfo[i].ReplyTo = f.ReplyTo /\ msginfo[i].Reply1st = f.Reply1st
      /\ msginfo[i].ReplyNext = f.ReplyNext
  BY <1>2, <1>5 DEF Info
<1>7. PICK x : x = hdr'[idx[k]]
  OBVIOUS
<1>8. LinksLead(x, FALSE, k)
  <2>1. idx[k] \in Msgs
    BY DEF CheckMsg
  <2>2. CASE idx[k] = idx[i] /\ msginfo[i].rewrite
    <3>1. hdr[idx[k]].MsgNum = Number(k) /\ hdr[idx[k]].MsgNum = Number(i)
      BY <2>2, <1>0 DEF IInv, Placed, InPlace, Sorting
    <3>2. k = i
      BY <3>1, <1>0, DwordFacts DEF Number
    <3>3. x = Relinked(hdr[idx[k]], msginfo[i]) /\ hdr[idx[k]] \in JAMHDR
      BY <2>1, <2>2, <1>0, <1>7
    <3>4. x.ReplyTo = f.ReplyTo /\ x.Reply1st = f.Reply1st /\ x.ReplyNext = f.ReplyNext
      BY <3>3, <1>2, <1>6, RelinkedFacts
    <3> QED
      BY <3>2, <3>4, <1>4 DEF LinksLead
  <2>3. CASE ~(idx[k] = idx[i] /\ msginfo[i].rewrite)
    <3>1. x = hdr[idx[k]]
      BY <2>1, <2>3, <1>0, <1>7
    <3>2. LinksLead(hdr[idx[k]], FALSE, k)
      BY <1>0 DEF SortedLead, Sorting
    <3> QED
      BY <3>1, <3>2
  <2> QED
    BY <2>2, <2>3
<1>9. LinksLead(x, FALSE, k)'
  BY <1>0, <1>8, LeadsStay
<1>10. hdr'[idx'[k]] = x
  BY <1>0, <1>7
<1> QED
  BY <1>9, <1>10 DEF LinksLead

\* A message that is tossed has no links, and the links of the others stay.
LEMMA LeadsAtToss ==
  ASSUME IInv, SortedLead, NEW m \in Msgs, Other, Toss(m), UNCHANGED sorted
  PROVE  SortedLead'
<1>0. /\ pc \in {"idle", "sort"} /\ skewed' = skewed
      /\ state[m] = "none" /\ state' = [state EXCEPT ![m] = "active"] /\ text' = text
      /\ hdr' = [hdr EXCEPT ![m] = Unlinked(Number(Len(idx) + 1))]
      /\ idx' = Append(idx, m)
  BY DEF Other, Toss, Unlocked
<1>1. /\ Len(idx) \in Nat /\ idx \in Seq(Entries) /\ m \in Entries
      /\ hdr \in [Msgs -> JAMHDR] /\ state \in [Msgs -> {"none", "active", "deleted"}]
  BY AreaFacts DEF IInv, Entries
<1>2. /\ Len(idx') = Len(idx) + 1 /\ idx'[Len(idx) + 1] = m
      /\ \A k \in 1 .. Len(idx) : k \in 1 .. Len(idx') /\ idx'[k] = idx[k]
  BY <1>0, <1>1
<1>3. \A k \in 1 .. Len(idx') : k \in 1 .. Len(idx) \/ k = Len(idx) + 1
  BY <1>1, <1>2
<1>4. \A a \in Msgs : state[a] = "active" => state'[a] = "active"
  BY <1>0, <1>1
<1> SUFFICES ASSUME ~skewed, LongIsDword, CRCTellsApart, NEW k \in 1 .. Len(idx'),
                    idx'[k] \in sorted, CheckMsg(idx[k])'
             PROVE  LinksLead(hdr[idx[k]], FALSE, k)'
  BY <1>0 DEF SortedLead, CRCTellsApart
<1>5. PICK x : x = hdr'[idx'[k]]
  OBVIOUS
<1>6. LinksLead(x, FALSE, k)'
  <2>1. CASE idx'[k] = m
    <3>1. x = Unlinked(Number(Len(idx) + 1))
      BY <2>1, <1>0, <1>1, <1>5
    <3>2. x.ReplyTo = 0 /\ x.Reply1st = 0 /\ x.ReplyNext = 0
      BY <3>1 DEF Unlinked
    <3> QED
      BY <3>2 DEF LinksLead
  <2>2. CASE idx'[k] # m
    <3>1. k \in 1 .. Len(idx) /\ idx'[k] = idx[k]
      BY <2>2, <1>2, <1>3
    <3>2. CheckMsg(idx[k]) /\ x = hdr[idx[k]]
      BY <2>2, <3>1, <1>0, <1>1, <1>5 DEF CheckMsg
    <3>3. LinksLead(x, FALSE, k)
      BY <3>1, <3>2, <1>0 DEF SortedLead, Sorting
    <3> QED
      BY <3>1, <3>3, <1>0, <1>1, <1>2, <1>4, LeadsStay
  <2> QED
    BY <2>1, <2>2
<1> QED
  BY <1>5, <1>6 DEF LinksLead

\* Each step of Next keeps SortedLead.
LEMMA LeadsInvariance ==
  ASSUME IInv, Linking, SortedLead, [Next]_vars
  PROVE  SortedLead'
<1>0. skewed \in BOOLEAN
  BY DEF IInv, Memory
<1>1. CASE Sort
  <2>1. CASE Chsize
    BY <2>1, <1>1, LeadsAtChsize
  <2>2. CASE LockToSort \/ WriteHdr \/ WriteIdx
    BY <2>2 DEF LockToSort, WriteHdr, WriteIdx, SortedLead, Sorting
  <2>3. CASE ReadLrd \/ SortLocked \/ Unlock
    <3>1. /\ UNCHANGED << state, hdr, idx, text >> /\ ~Sorting /\ pc' # "sorted"
          /\ ~LockToSort
      BY <2>3 DEF ReadLrd, SortLocked, Unlock, EndSort, files, Sorting, LockToSort
    <3>2. sorted' = sorted
      BY <3>1, <1>1 DEF Sort
    <3>3. ~skewed' => ~skewed
      BY <3>1, <1>1, Zenon DEF Sort
    <3> QED
      BY <3>1, <3>2, <3>3, LeadsKept
  <2> QED
    BY <1>1, <2>1, <2>2, <2>3 DEF Sort, SortStep
<1>2. CASE Link
  <2>1. CASE WriteLinks
    BY <2>1, <1>2, LeadsAtWrite
  <2>2. CASE ReadMsgs \/ UnlockLinked
    <3>1. UNCHANGED << state, hdr, idx, text, sorted, skewed >> /\ ~Sorting
      BY <2>2, <1>2 DEF ReadMsgs, UnlockLinked, LinkDone, files, Link, Sorting
    <3> QED
      BY <3>1, LeadsKept
  <2> QED
    BY <1>2, <2>1, <2>2 DEF Link, LinkStep
<1>3. CASE Other
  <2>0. skewed' = skewed /\ pc' = pc
    BY <1>3 DEF Other
  <2>1. \/ \E m \in Msgs : Toss(m) /\ UNCHANGED sorted
        \/ sorted' = {}
        \/ \E u \in Users, k \in 1 .. Len(idx) : ReadOn(u, k) /\ UNCHANGED sorted
    BY <1>3, Zenon DEF Other
  <2>2. CASE \E m \in Msgs : Toss(m) /\ UNCHANGED sorted
    BY <2>2, <1>3, LeadsAtToss
  <2>3. CASE sorted' = {}
    BY <2>3 DEF SortedLead
  <2>4. CASE \E u \in Users, k \in 1 .. Len(idx) : ReadOn(u, k) /\ UNCHANGED sorted
    <3>1. UNCHANGED << state, hdr, idx, text, sorted, skewed, pc >>
      BY <2>0, <2>4 DEF ReadOn
    <3>2. CASE Sorting
      BY <3>1, <3>2 DEF SortedLead, Sorting
    <3>3. CASE ~Sorting
      BY <3>1, <3>3, LeadsKept
    <3> QED
      BY <3>2, <3>3
  <2> QED
    BY <2>1, <2>2, <2>3, <2>4
<1>4. CASE Crash
  <2>1. /\ UNCHANGED << state, hdr, idx, text >>
        /\ sorted' = IF Sorting THEN {} ELSE sorted
    BY <1>4 DEF Crash, files
  <2>2. skewed' = (skewed \/ Sorting)
    BY <1>4, Zenon DEF Crash
  <2>3. CASE Sorting
    BY <2>1, <2>3 DEF SortedLead
  <2>4. CASE ~Sorting
    BY <2>1, <2>2, <2>4, LeadsKept
  <2> QED
    BY <2>3, <2>4
<1>5. CASE UNCHANGED vars
  <2>1. UNCHANGED << state, hdr, idx, text, sorted, skewed, pc >>
    BY <1>5 DEF vars, files, history
  <2>2. CASE Sorting
    BY <2>1, <2>2 DEF SortedLead, Sorting
  <2>3. CASE ~Sorting
    BY <2>1, <2>3, LeadsKept
  <2> QED
    BY <2>2, <2>3
<1> QED
  BY <1>1, <1>2, <1>3, <1>4, <1>5 DEF Next

\* The links of the header h are those that were found.
HasLinks(h, f) ==
  h.ReplyTo = f.ReplyTo /\ h.Reply1st = f.Reply1st /\ h.ReplyNext = f.ReplyNext

\* With -j the links of a message are those that the link found.
LEMMA EndedByCRC ==
  ASSUME IInv, LinkDone, Once(idx), NEW start, NEW turns, LinkTrack(start, turns),
         NEW k \in 1 .. Len(idx), IsLinked(byCRC, k)
  PROVE  byCRC => HasLinks(hdr[idx[k]], turns[Len(idx)][Len(idx)][k])
<1> DEFINE f == turns[Len(idx)][Len(idx)][k]
           h == hdr[idx[k]]
<1>1. /\ byCRC \/ f.ReplyTo # 0 => h.ReplyTo = f.ReplyTo
      /\ byCRC \/ f.Reply1st # 0 => h.Reply1st = f.Reply1st
      /\ byCRC \/ f.ReplyNext # 0 => h.ReplyNext = f.ReplyNext
  BY EndedHdr
<1> HIDE DEF f, h
<1>2. byCRC => HasLinks(h, f)
  BY <1>1 DEF HasLinks
<1> QED
  BY <1>2 DEF f, h

\* At the end of link the links that it has found, and those of sorted messages, are true.
LEMMA LinksTrueAtEnd == ASSUME IInv, Linking, SortedLead PROVE LinksTrue
<1>1. ASSUME NEW k \in 1 .. Len(idx), NEW x, LinksLead(x, byCRC, k)
      PROVE  /\ x.ReplyTo # 0 =>
                  /\ x.ReplyTo - BaseMsgNum + 1 \in 1 .. Len(idx)
                  /\ Names(k, x.ReplyTo - BaseMsgNum + 1)
             /\ x.Reply1st # 0 =>
                  /\ x.Reply1st - BaseMsgNum + 1 \in 1 .. Len(idx)
                  /\ Names(x.Reply1st - BaseMsgNum + 1, k)
             /\ x.ReplyNext # 0 =>
                  /\ x.ReplyNext - BaseMsgNum + 1 \in 1 .. Len(idx)
                  /\ \E p \in 1 .. Len(idx) :
                       Names(k, p) /\ Names(x.ReplyNext - BaseMsgNum + 1, p)
  <2>1. \A j \in 1 .. Len(idx) : Number(j) - BaseMsgNum + 1 = j
    BY DwordFacts DEF Number
  <2>2. \A r, p : NamesBy(byCRC, r, p) => Names(r, p)
    BY DEF NamesBy, Names
  <2> QED
    BY <1>1, <2>1, <2>2 DEF LinksLead
<1> SUFFICES ASSUME LinkDone, Once(idx), ~skewed, LongIsDword, NEW k \in 1 .. Len(idx),
                    CheckMsg(idx[k]), byCRC \/ (idx[k] \in sorted /\ CRCTellsApart)
             PROVE  LinksLead(hdr[idx[k]], byCRC, k)
  BY <1>1 DEF LinksTrue
<1>2. pc = "link" /\ byCRC \in BOOLEAN
  BY DEF LinkDone, IInv, Memory
<1>3. CASE byCRC
  <2>1. PICK start, turns : LinkTrack(start, turns)
    BY <1>2 DEF Linking
  <2>2. IsLinked(byCRC, k)
    BY <1>3 DEF IsLinked
  <2>3. LinksLead(turns[Len(idx)][Len(idx)][k], byCRC, k)
    BY <2>1, <1>2, FoundLinksLead
  <2> DEFINE f == turns[Len(idx)][Len(idx)][k]
             h == hdr[idx[k]]
  <2>4. byCRC => HasLinks(h, f)
    BY <2>1, <2>2, EndedByCRC
  <2> HIDE DEF f, h
  <2>5. LinksLead(h, byCRC, k)
    BY <1>3, <2>3, <2>4 DEF LinksLead, HasLinks, f
  <2> QED
    BY <2>5 DEF h
<1>4. CASE ~byCRC
  <2>1. LinksLead(hdr[idx[k]], FALSE, k)
    BY <1>2, <1>4 DEF SortedLead, Sorting
  <2>2. byCRC = FALSE
    BY <1>2, <1>4
  <2> QED
    BY <2>1, <2>2
<1> QED
  BY <1>2, <1>3, <1>4

\* The inductive invariant of the link.
LinkInv == IInv /\ Linking /\ SortedLead

\* At every moment of a link, what it has found is what the turns of its loops find, the
\* messages in front of the next one to write are as they will be, and the links of the
\* messages that were sorted lead where they should (linkarea.c:400-449, 596-622).
THEOREM LinkInvariance == Spec => []LinkInv
<1>1. Init => Linking /\ SortedLead
  <2>1. Init => pc = "idle" /\ sorted = {}
    BY DEF Init, InitWith, InitArea
  <2> QED
    BY <2>1 DEF Linking, SortedLead, Sorting
<1>2. LinkInv /\ [Next]_vars => LinkInv'
  BY NextInvariant, LinkingInvariance, LeadsInvariance DEF LinkInv
<1>3. Init => LinkInv
  BY <1>1, InitInvariant DEF LinkInv
<1> QED
  BY <1>2, <1>3, PTL DEF Spec

\* A link that dies between two writes is completed by the next one, which would come to
\* the same end at each moment, and a second link changes nothing (linkarea.c:596-622).
THEOREM LinkRepeated == Spec => []LinkRepeatable
<1>1. LinkInv => LinkRepeatable
  <2> SUFFICES ASSUME LinkInv, pc = "link", Once(idx)
               PROVE  LinkResult = goal /\ (LinkDone => hdr = goal)
    BY DEF LinkRepeatable
  <2>1. PICK start, turns : LinkTrack(start, turns)
    BY DEF LinkInv, Linking
  <2> QED
    BY <2>1, RepeatedAtAnyTime DEF LinkInv
<1> QED
  BY <1>1, LinkInvariance, PTL

\* Link finds what there is to find, where no number is 0 and no id is taken for none:
\* each reply comes to lead to the last message that it answers, each message to its
\* first reply, and where numbers are apart each reply to the next one in the order of
\* the index (linkarea.c:404-449).
THEOREM LinkFinds == Spec => []LinksFound
<1>1. LinkInv => LinksFound
  BY LinksFoundAtEnd DEF LinkInv
<1> QED
  BY <1>1, LinkInvariance, PTL

\* With -j each link leads where it should, and without it those of the messages that
\* were sorted do, wherever a sort or a link died and whatever was tossed meanwhile,
\* until the next purge (sortarea.c:357-373, linkarea.c:459-474, 596-622).
THEOREM SortedLinks == Spec => []LinksTrue
<1>1. LinkInv => LinksTrue
  BY LinksTrueAtEnd DEF LinkInv
<1> QED
  BY <1>1, LinkInvariance, PTL
==============================================================================
