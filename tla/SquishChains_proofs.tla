-------------------------- MODULE SquishChains_proofs --------------------------
(***************************************************************************)
(* Proofs about SquishChains: what sort and link do to a Squish area, for   *)
(* every set of frames, users, ids and dates, any room for replies, and any *)
(* number of runs and crashes.                                              *)
(***************************************************************************)
EXTENDS SquishChains, DateSort_proofs

-----------------------------------------------------------------------------
(* The operators of the sort. *)

Msg == [ofs : Frames, time : Dates]

\* The dates of messages are numbers.
LEMMA TimesAreNumbers == \A m \in Msg : m.time \in Int
<1>1. \A d \in Dates : d \in Int
  BY AreaAssumption
<1>2. \A m \in Msg : m.time \in Dates
  BY DEF Msg
<1> QED
  BY <1>1, <1>2

\* Lastread is the place of the first entry with the umsgid that was read last, or 0
\* (sortarea.c:208-219).
LEMMA LastreadProperties ==
  ASSUME NEW idx \in Seq(SQIDX)
  PROVE  /\ Lastread(idx) \in 0 .. Len(idx)
         /\ lastuid = 0 => Lastread(idx) = 0
         /\ Lastread(idx) # 0 => lastuid # 0 /\ idx[Lastread(idx)].umsgid = lastuid
         /\ lastuid # 0 /\ Lastread(idx) = 0 =>
              \A k \in 1 .. Len(idx) : idx[k].umsgid # lastuid
<1> DEFINE Named == {k \in 1 .. Len(idx) : lastuid # 0 /\ idx[k].umsgid = lastuid}
           least == Min(Named)
<1>0. Len(idx) \in Nat
  BY LenProperties
<1>1. Lastread(idx) = IF Named # {} THEN least ELSE 0
  BY DEF Lastread, SelectInSeq
<1>2. CASE Named = {}
  BY <1>0, <1>1, <1>2
<1>3. CASE Named # {}
  <2>1. \E n \in Named : \A m \in Named : n <= m
    <3>1. Named \subseteq Nat
      BY <1>0
    <3> QED
      BY <3>1, <1>3, LeastOfSet
  <2>2. least \in Named
    BY <2>1 DEF Min
  <2> HIDE DEF least
  <2> QED
    BY <2>2, <1>0, <1>1, <1>3
<1> QED
  BY <1>2, <1>3

\* What Behind makes of an index: its entries behind the first ones, with the dates of
\* the messages.
LEMMA BehindProperties ==
  ASSUME text \in Texts, NEW idx \in Seq(SQIDX), NEW from \in 0 .. Len(idx)
  PROVE  /\ Behind(idx, from) \in Seq(Msg)
         /\ Len(Behind(idx, from)) = Len(idx) - from
         /\ \A k \in 1 .. Len(idx) - from :
               Behind(idx, from)[k] = [ofs |-> idx[from + k].ofs,
                                       time |-> text[idx[from + k].ofs].date]
<1>1. Len(idx) \in Nat /\ \A k \in 1 .. Len(idx) : idx[k].ofs \in Frames
  <2>1. Len(idx) \in Nat /\ \A k \in 1 .. Len(idx) : idx[k] \in SQIDX
    BY LenProperties, ElementOfSeq
  <2> QED
    BY <2>1 DEF SQIDX
<1>2. \A f \in Frames : text[f].date \in Dates
  BY DEF Texts
<1>3. \A k \in 1 .. Len(idx) - from : from + k \in 1 .. Len(idx)
  BY <1>1
<1>4. Len(idx) - from \in Nat
  BY <1>1
<1>5. \A k \in 1 .. Len(idx) - from :
         [ofs |-> idx[from + k].ofs, time |-> text[idx[from + k].ofs].date] \in Msg
  BY <1>1, <1>2, <1>3 DEF Msg
<1>6. Behind(idx, from) \in [1 .. Len(idx) - from -> Msg]
  BY <1>5 DEF Behind
<1>7. Behind(idx, from) \in Seq(Msg)
  BY <1>4, <1>6
<1>8. Len(Behind(idx, from)) = Len(idx) - from
  BY <1>4, <1>6, <1>7
<1> QED
  BY <1>7, <1>8 DEF Behind

\* The part of the index in front of the messages to sort, these messages, and their
\* order.
ReadPart == Lastread(before)
Unsorted == Behind(before, ReadPart)
Ordered == SortByDate(Unsorted)

LEMMA OrderedProperties ==
  ASSUME text \in Texts, before \in Seq(SQIDX)
  PROVE  /\ ReadPart \in 0 .. Len(before) /\ Len(before) \in Nat
         /\ Unsorted \in Seq(Msg) /\ Len(Unsorted) = Len(before) - ReadPart
         /\ Ordered \in Seq(Msg) /\ Len(Ordered) = Len(before) - ReadPart
         /\ \A p \in 1 .. Len(before) - ReadPart :
               /\ NewPlace(Unsorted, p) \in 1 .. Len(before) - ReadPart
               /\ Ordered[NewPlace(Unsorted, p)] = Unsorted[p]
               /\ Unsorted[p] = [ofs |-> before[ReadPart + p].ofs,
                                 time |-> text[before[ReadPart + p].ofs].date]
<1>1. ReadPart \in 0 .. Len(before) /\ Len(before) \in Nat
  BY LastreadProperties, LenProperties DEF ReadPart
<1>2. /\ Unsorted \in Seq(Msg) /\ Len(Unsorted) = Len(before) - ReadPart
      /\ \A p \in 1 .. Len(before) - ReadPart :
            Unsorted[p] = [ofs |-> before[ReadPart + p].ofs,
                           time |-> text[before[ReadPart + p].ofs].date]
  BY <1>1, BehindProperties DEF Unsorted
<1>3. Ordered \in Seq(Msg) /\ IsSortOf(Ordered, Unsorted)
  BY <1>2, TimesAreNumbers, SortByDateSorts DEF Ordered
<1>4. \A p \in 1 .. Len(Unsorted) : NewPlace(Unsorted, p) \in 1 .. Len(Unsorted)
  BY <1>2, TimesAreNumbers, NewPlaceBijection
<1> QED
  BY <1>1, <1>2, <1>3, <1>4 DEF IsSortOf

\* Each message in the new order is one of the old messages...
LEMMA OrderedFromUnsorted ==
  ASSUME text \in Texts, before \in Seq(SQIDX),
         NEW k \in 1 .. Len(before) - ReadPart
  PROVE  /\ \E p \in 1 .. Len(before) - ReadPart :
              NewPlace(Unsorted, p) = k /\ Ordered[k] = Unsorted[p]
         /\ Ordered[k].ofs \in Frames
         /\ Ordered[k] = [ofs |-> Ordered[k].ofs, time |-> text[Ordered[k].ofs].date]
<1>1. PICK p \in 1 .. Len(before) - ReadPart : NewPlace(Unsorted, p) = k
  <2>1. \A j \in 1 .. Len(Unsorted) : \E p \in 1 .. Len(Unsorted) : NewPlace(Unsorted, p) = j
    BY OrderedProperties, TimesAreNumbers, NewPlaceBijection
  <2> QED
    BY <2>1, OrderedProperties
<1>2. Ordered[k] = Unsorted[p]
  BY <1>1, OrderedProperties
<1>3. Unsorted[p] = [ofs |-> before[ReadPart + p].ofs,
                     time |-> text[before[ReadPart + p].ofs].date]
  BY OrderedProperties
<1>4. Ordered[k] \in Msg
  <2>1. Ordered \in Seq(Msg) /\ k \in 1 .. Len(Ordered)
    BY OrderedProperties
  <2> QED
    BY <2>1, ElementOfSeq
<1> QED
  BY <1>1, <1>2, <1>3, <1>4 DEF Msg

\* ...and no frame comes twice if the index names none twice.
LEMMA OrderedDistinct ==
  ASSUME text \in Texts, before \in Seq(SQIDX), NoDuplicates(before),
         NEW j \in 1 .. Len(before) - ReadPart, NEW k \in 1 .. Len(before) - ReadPart,
         Ordered[j].ofs = Ordered[k].ofs
  PROVE  j = k
<1>1. PICK p \in 1 .. Len(before) - ReadPart :
        NewPlace(Unsorted, p) = j /\ Ordered[j] = Unsorted[p]
  BY OrderedFromUnsorted
<1>2. PICK q \in 1 .. Len(before) - ReadPart :
        NewPlace(Unsorted, q) = k /\ Ordered[k] = Unsorted[q]
  BY OrderedFromUnsorted
<1>3. before[ReadPart + p].ofs = before[ReadPart + q].ofs
  <2>1. /\ Unsorted[p] = [ofs |-> before[ReadPart + p].ofs,
                          time |-> text[before[ReadPart + p].ofs].date]
        /\ Unsorted[q] = [ofs |-> before[ReadPart + q].ofs,
                          time |-> text[before[ReadPart + q].ofs].date]
    BY OrderedProperties
  <2> QED
    BY <2>1, <1>1, <1>2
<1>4. ReadPart \in 0 .. Len(before) /\ Len(before) \in Nat
  BY OrderedProperties
<1>5. ReadPart + p \in 1 .. Len(before) /\ ReadPart + q \in 1 .. Len(before)
  BY <1>4
<1>6. ReadPart + p = ReadPart + q
  BY <1>3, <1>5 DEF NoDuplicates
<1>7. p = q
  BY <1>4, <1>6
<1> QED
  BY <1>1, <1>2, <1>7

-----------------------------------------------------------------------------
(* The operators of link. *)

NothingFound ==
  [k \in 1 .. Len(sqi) |-> [replies |-> << >>, replyto |-> 0, rewrite |-> FALSE]]

\* The turns of the inner loop, for entry k of the outer one.
IsTurn(turn, x, k, info) ==
  turn = [ii \in 0 .. Len(sqi) |->
            IF ii = 0 THEN info ELSE LinkPair(x, turn[ii - 1], k, ii)]

Turned(x, k, info) == (CHOOSE turn : IsTurn(turn, x, k, info))[Len(sqi)]

IsFound(found, x) ==
  found = [k \in 0 .. Len(sqi) |->
             IF k = 0 THEN NothingFound ELSE Turned(x, k, found[k - 1])]

\* turns[k][ii] is what link has found after turn ii of the inner loop for entry k.
IsRun(turns, x) ==
  /\ turns[0][Len(sqi)] = NothingFound
  /\ \A k \in 1 .. Len(sqi) :
       /\ turns[k][0] = turns[k - 1][Len(sqi)]
       /\ \A ii \in 1 .. Len(sqi) : turns[k][ii] = LinkPair(x, turns[k][ii - 1], k, ii)
  /\ LinkAll(x) = turns[Len(sqi)][Len(sqi)]

\* LinkAll takes its turns one after the other (linkarea.c:197-222).
LEMMA LinkAllRuns ==
  ASSUME NEW n \in Nat, n = Len(sqi), NEW x, NEW T, NothingFound \in T,
         \A info \in T : \A k, ii \in 1 .. n : LinkPair(x, info, k, ii) \in T
  PROVE  \E turns : IsRun(turns, x)
<1>1. ASSUME NEW k \in 1 .. n, NEW info \in T
      PROVE  /\ \E turn : IsTurn(turn, x, k, info)
             /\ Turned(x, k, info) \in T
  <2> DEFINE step == [ii \in 1 .. n |-> [inf \in T |-> LinkPair(x, inf, k, ii)]]
  <2>1. StepsIn(T, n, step)
    BY DEF StepsIn
  <2>2. PICK row : IsRow(row, T, n, info, step)
    <3> HIDE DEF step
    <3> QED
      BY <2>1, RowExists
  <2>3. \E turn : IsTurn(turn, x, k, info)
    <3>1. row \in [0 .. n -> T] /\ row[0] = info
      BY <2>2 DEF IsRow
    <3>2. ASSUME NEW ii \in 1 .. n PROVE row[ii] = LinkPair(x, row[ii - 1], k, ii)
      <4>1. row[ii] = step[ii][row[ii - 1]]
        BY <2>2 DEF IsRow
      <4>2. row[ii - 1] \in T
        BY <3>1
      <4> QED
        BY <4>1, <4>2
    <3>3. \A ii \in 0 .. n : row[ii] = IF ii = 0 THEN info
                                       ELSE LinkPair(x, row[ii - 1], k, ii)
      BY <3>1, <3>2
    <3>4. row = [ii \in 0 .. n |-> row[ii]]
      BY <3>1
    <3>5. IsTurn(row, x, k, info)
      BY <3>3, <3>4 DEF IsTurn
    <3> QED
      BY <3>5
  <2> DEFINE turn == CHOOSE turn : IsTurn(turn, x, k, info)
  <2>4. IsTurn(turn, x, k, info)
    BY <2>3
  <2>5. Turned(x, k, info) = turn[n]
    BY DEF Turned
  <2> HIDE DEF turn
  <2>6. turn[0] = info /\ \A ii \in 1 .. n : turn[ii] = LinkPair(x, turn[ii - 1], k, ii)
    BY <2>4 DEF IsTurn
  <2>7. \A ii \in 1 .. n : turn[ii - 1] \in T => turn[ii] \in T
    BY <2>6
  <2>8. turn[0] \in T
    BY <2>6
  <2>9. \A ii \in 0 .. n : turn[ii] \in T
    BY <2>7, <2>8, InductionOverRow
  <2> QED
    BY <2>3, <2>5, <2>9
<1>2. \E found : IsFound(found, x)
  <2> DEFINE step == [k \in 1 .. n |-> [info \in T |-> Turned(x, k, info)]]
  <2>1. StepsIn(T, n, step)
    BY <1>1 DEF StepsIn
  <2>2. PICK row : IsRow(row, T, n, NothingFound, step)
    <3> HIDE DEF step
    <3> QED
      BY <2>1, RowExists
  <2>3. row \in [0 .. n -> T] /\ row[0] = NothingFound
    BY <2>2 DEF IsRow
  <2>4. ASSUME NEW k \in 1 .. n PROVE row[k] = Turned(x, k, row[k - 1])
    <3>1. row[k] = step[k][row[k - 1]]
      BY <2>2 DEF IsRow
    <3>2. row[k - 1] \in T
      BY <2>3
    <3> QED
      BY <3>1, <3>2
  <2>5. \A k \in 0 .. n : row[k] = IF k = 0 THEN NothingFound
                                   ELSE Turned(x, k, row[k - 1])
    BY <2>3, <2>4
  <2>6. row = [k \in 0 .. n |-> row[k]]
    BY <2>3
  <2>7. IsFound(row, x)
    BY <2>5, <2>6 DEF IsFound
  <2> QED
    BY <2>7
<1> DEFINE found == CHOOSE found : IsFound(found, x)
<1>3. IsFound(found, x)
  BY <1>2
<1>4. LinkAll(x) = found[n]
  BY DEF LinkAll, IsFound, Turned, IsTurn, NothingFound
<1> HIDE DEF found
<1>5. found[0] = NothingFound /\ \A k \in 1 .. n : found[k] = Turned(x, k, found[k - 1])
  BY <1>3 DEF IsFound
<1>6. \A k \in 0 .. n : found[k] \in T
  <2>1. \A k \in 1 .. n : found[k - 1] \in T => found[k] \in T
    BY <1>1, <1>5
  <2>2. found[0] \in T
    BY <1>5
  <2> QED
    BY <2>1, <2>2, InductionOverRow
<1> DEFINE turn(k) == CHOOSE turn : IsTurn(turn, x, k, found[k - 1])
           turns == [k \in 0 .. n |-> IF k = 0 THEN [ii \in 0 .. n |-> NothingFound]
                                      ELSE turn(k)]
<1>7. ASSUME NEW k \in 1 .. n
      PROVE  /\ found[k] = turn(k)[n] /\ turn(k)[0] = found[k - 1]
             /\ \A ii \in 1 .. n : turn(k)[ii] = LinkPair(x, turn(k)[ii - 1], k, ii)
  <2>1. found[k - 1] \in T
    BY <1>6
  <2>2. \E t : IsTurn(t, x, k, found[k - 1])
    BY <2>1, <1>1
  <2>3. IsTurn(turn(k), x, k, found[k - 1])
    BY <2>2
  <2>4. found[k] = turn(k)[n]
    BY <1>5 DEF Turned
  <2> HIDE DEF turn
  <2>5. /\ turn(k)[0] = found[k - 1]
        /\ \A ii \in 1 .. n : turn(k)[ii] = LinkPair(x, turn(k)[ii - 1], k, ii)
    <3>1. turn(k)[0] = found[k - 1]
      <4>1. 0 \in 0 .. Len(sqi)
        OBVIOUS
      <4> QED
        BY <2>3, <4>1, Zenon DEF IsTurn
    <3>2. ASSUME NEW ii \in 1 .. n
          PROVE  turn(k)[ii] = LinkPair(x, turn(k)[ii - 1], k, ii)
      <4>1. ii \in 0 .. Len(sqi) /\ ii # 0
        OBVIOUS
      <4> QED
        BY <2>3, <4>1, Zenon DEF IsTurn
    <3> QED
      BY <3>1, <3>2
  <2> QED
    BY <2>4, <2>5
<1> HIDE DEF turn
<1>8. /\ turns[0][n] = NothingFound
      /\ \A k \in 1 .. n : turns[k] = turn(k)
      /\ \A k \in 0 .. n : turns[k][n] = found[k]
  <2>1. turns[0][n] = NothingFound /\ \A k \in 1 .. n : turns[k] = turn(k)
    <3>1. 0 \in 0 .. n /\ n \in 0 .. n /\ \A k \in 1 .. n : k \in 0 .. n /\ k # 0
      OBVIOUS
    <3> QED
      BY <3>1, Zenon
  <2> HIDE DEF turns
  <2>2. \A k \in 1 .. n : turns[k][n] = found[k]
    BY <2>1, <1>7
  <2> QED
    BY <2>1, <2>2, <1>5
<1> HIDE DEF turns
<1>9. ASSUME NEW k \in 1 .. n
      PROVE  /\ turns[k][0] = turns[k - 1][n]
             /\ \A ii \in 1 .. n : turns[k][ii] = LinkPair(x, turns[k][ii - 1], k, ii)
  <2>1. k - 1 \in 0 .. n
    OBVIOUS
  <2> QED
    BY <2>1, <1>7, <1>8
<1>10. LinkAll(x) = turns[n][n]
  BY <1>4, <1>8
<1>11. IsRun(turns, x)
  BY <1>8, <1>9, <1>10 DEF IsRun
<1> QED
  BY <1>11

\* What holds at the beginning, goes on from each row to the next one and from each
\* turn to the next one, holds at the end.
LEMMA LinkAllInduction ==
  ASSUME NEW n \in Nat, n = Len(sqi), NEW x, NEW turns, IsRun(turns, x),
         NEW T, NothingFound \in T[0][n],
         \A k \in 1 .. n : T[k - 1][n] \subseteq T[k][0],
         \A k, ii \in 1 .. n : \A info \in T[k][ii - 1] : LinkPair(x, info, k, ii) \in T[k][ii]
  PROVE  LinkAll(x) \in T[n][n]
<1>1. ASSUME NEW k \in 1 .. n, turns[k - 1][n] \in T[k - 1][n]
      PROVE  turns[k][n] \in T[k][n]
  <2> DEFINE Good == {ii \in 0 .. n : turns[k][ii] \in T[k][ii]}
             row == [ii \in 0 .. n |-> ii]
  <2>1. row[0] \in Good
    <3>1. turns[k][0] = turns[k - 1][n]
      BY DEF IsRun
    <3> QED
      BY <3>1, <1>1
  <2>2. ASSUME NEW ii \in 1 .. n, row[ii - 1] \in Good PROVE row[ii] \in Good
    <3>1. row[ii - 1] = ii - 1 /\ turns[k][ii - 1] \in T[k][ii - 1]
      BY <2>2
    <3>2. turns[k][ii] = LinkPair(x, turns[k][ii - 1], k, ii)
      BY DEF IsRun
    <3> QED
      BY <3>1, <3>2
  <2>3. \A ii \in 0 .. n : row[ii] \in Good
    <3> HIDE DEF Good, row
    <3> QED
      BY <2>1, <2>2, InductionOverRow
  <2>4. n \in Good
    BY <2>3
  <2> QED
    BY <2>4
<1> DEFINE Good == {k \in 0 .. n : turns[k][n] \in T[k][n]}
           row == [k \in 0 .. n |-> k]
<1>2. row[0] \in Good
  BY DEF IsRun
<1>3. ASSUME NEW k \in 1 .. n, row[k - 1] \in Good PROVE row[k] \in Good
  <2>1. row[k - 1] = k - 1 /\ turns[k - 1][n] \in T[k - 1][n]
    BY <1>3
  <2> QED
    BY <2>1, <1>1
<1>4. \A k \in 0 .. n : row[k] \in Good
  <2> HIDE DEF Good, row
  <2> QED
    BY <1>2, <1>3, InductionOverRow
<1>5. n \in Good
  BY <1>4
<1> QED
  BY <1>5 DEF IsRun

-----------------------------------------------------------------------------
(* The inductive invariant. *)

Tossed == {f \in Frames : frame[f] # "none"}

\* The area: uid has counted the messages, and users have read what was numbered.
Area ==
  /\ AreaType
  /\ uid <= 1 + Cardinality(Tossed)
  /\ \A k \in 1 .. Len(sqi) : sqi[k].umsgid \in 1 .. uid - 1
  /\ \A j, k \in 1 .. Len(sqi) : j < k => sqi[j].umsgid < sqi[k].umsgid
  /\ \A u \in Users : sql[u] \in 0 .. uid - 1

Info == [replies : Seq(1 .. Dword - 1), replyto : 0 .. Dword - 1, rewrite : BOOLEAN]

\* What a run has in memory is there only while it runs.
Memory ==
  /\ lastuid \in 0 .. uid - 1 /\ moved \in BOOLEAN
  /\ pc \notin {"sort", "sortmsg", "sortidx"} => lastuid = 0 /\ moved = FALSE
  /\ ~Sorting => sqsort = << >> /\ idxPos = 0 /\ first = 0 /\ before = << >>
  /\ pc \in {"sort", "sortmsg", "sortidx"} /\ ~moved => \A u \in Users : sql[u] <= lastuid
  /\ pc # "link" => msginfo = << >> /\ i = 0
  /\ pc = "link" => Len(msginfo) = Len(sqi) /\ i \in 1 .. Len(sqi) + 1
  /\ msginfo \in Seq(Info)
  /\ runs \in 0 .. MaxRuns /\ crashes \in 0 .. MaxCrashes
  /\ sorted \subseteq Frames

\* The umsgid that entry k of the index gets.
NewUmsgid(k) == before[ReadPart + 1].umsgid + k - ReadPart - 1

\* How far a sort has come: the first idxPos entries are written, the list holds
\* what is left of the new order, and the number that comes next is not above the
\* umsgid of the entry that it will overwrite.
Progress ==
  /\ before \in Seq(SQIDX) /\ Len(sqi) = Len(before)
  /\ idxPos \in ReadPart .. Len(before)
  /\ sqsort \in Seq(Msg) /\ Len(sqsort) = Len(before) - idxPos
  /\ \A k \in 1 .. Len(sqsort) : sqsort[k] = Ordered[idxPos - ReadPart + k]
  /\ first \in 0 .. uid
  /\ ReadPart < Len(before) => first = NewUmsgid(idxPos + 1)
  /\ idxPos < Len(before) =>
       /\ first <= before[idxPos + 1].umsgid
       /\ \A k \in 1 .. idxPos : sqi[k].umsgid < first
  /\ pc = "sortidx" => idxPos < Len(before)

\* What a sort has written to the index...
Written ==
  /\ \A k \in 1 .. Len(before) :
        IF ReadPart < k /\ k <= idxPos
        THEN sqi[k].ofs = Ordered[k - ReadPart].ofs /\ sqi[k].umsgid = NewUmsgid(k)
        ELSE sqi[k] = before[k]
  /\ \A j, k \in 1 .. Len(before) : j < k => before[j].umsgid < before[k].umsgid
  /\ \A k \in 1 .. Len(before) : before[k].umsgid >= 1

\* ...and to the messages.
Renumbered ==
  NoDuplicates(before) =>
    \A k \in ReadPart + 1 .. Len(before) :
      k <= idxPos \/ (k = idxPos + 1 /\ pc = "sortidx") =>
        xmsg[Ordered[k - ReadPart].ofs] = Unlinked(NewUmsgid(k))

IInv == Area /\ Memory /\ (Sorting => Progress /\ Written /\ Renumbered)

PCs == {"idle", "sort", "sortmsg", "sortidx", "link"}

XMSG == [umsgid : 0 .. Dword - 1, replyto : 0 .. Dword - 1,
         replies : [1 .. MAX_REPLY -> 0 .. Dword - 1]]

\* Dwords are numbers, and there are more of them than frames.
LEMMA DwordFacts ==
  /\ Dword \in Nat /\ Cardinality(Frames) \in Nat /\ Cardinality(Frames) + 1 < Dword
  /\ MAX_REPLY \in Nat \ {0}
  /\ 0 \in 0 .. Dword - 1
BY FramesAssumption, DwordAssumption, AreaAssumption, FS_CardinalityType

LEMMA UnlinkedType == \A id \in 0 .. Dword - 1 : Unlinked(id) \in XMSG
BY DwordFacts DEF Unlinked, NoReplies, XMSG

\* The parts of Area.
LEMMA AreaFacts ==
  ASSUME Area
  PROVE  /\ frame \in [Frames -> {"none", "normal", "free"}]
         /\ xmsg \in [Frames -> XMSG]
         /\ uid \in 1 .. Dword - 1
         /\ sqi \in Seq(SQIDX) /\ Len(sqi) \in Nat
         /\ \A k \in 1 .. Len(sqi) : /\ sqi[k] \in SQIDX /\ sqi[k].ofs \in Frames
                                     /\ sqi[k].umsgid \in 1 .. uid - 1
         /\ sql \in [Users -> 0 .. Dword - 1]
         /\ text \in Texts
         /\ pc \in PCs
<1>1. sqi \in Seq(SQIDX)
  BY DEF Area, AreaType
<1>2. Len(sqi) \in Nat /\ \A k \in 1 .. Len(sqi) : sqi[k] \in SQIDX
  BY <1>1, LenProperties, ElementOfSeq
<1>3. \A k \in 1 .. Len(sqi) : sqi[k].ofs \in Frames
  BY <1>2 DEF SQIDX
<1>4. /\ frame \in [Frames -> {"none", "normal", "free"}]
      /\ uid \in 1 .. Dword - 1
      /\ sql \in [Users -> 0 .. Dword - 1]
      /\ text \in Texts
      /\ pc \in PCs
  BY DEF Area, AreaType, PCs
<1>5. xmsg \in [Frames -> XMSG]
  BY DEF Area, AreaType, XMSG
<1> QED
  BY <1>1, <1>2, <1>3, <1>4, <1>5 DEF Area

\* A step that writes at most XMSG of a message keeps it.
LEMMA AreaKeptByXmsg ==
  ASSUME Area, xmsg' \in [Frames -> XMSG], UNCHANGED << frame, uid, sqi, sql, text >>,
         pc' \in PCs
  PROVE  Area'
<1>1. AreaType'
  BY DEF Area, AreaType, XMSG, PCs
<1>2. Tossed' = Tossed
  BY DEF Tossed
<1> QED
  BY <1>1, <1>2 DEF Area

LEMMA AreaKeptByNoWrite ==
  ASSUME Area, UNCHANGED files, pc' \in PCs
  PROVE  Area'
BY AreaKeptByXmsg, AreaFacts DEF files

\* The tosser appends a message with the next umsgid.
LEMMA AreaKeptByToss ==
  ASSUME Area, NEW f \in Frames, Toss(f), pc' = pc
  PROVE  Area'
<1> DEFINE new == [ofs |-> f, umsgid |-> uid]
<1>1. /\ frame' = [frame EXCEPT ![f] = "normal"] /\ frame[f] = "none"
      /\ xmsg' = [xmsg EXCEPT ![f] = Unlinked(uid)]
      /\ sqi' = Append(sqi, new)
      /\ uid' = uid + 1
      /\ sql' = sql /\ text' = text
  BY DEF Toss
<1>2. uid \in Nat /\ uid \in 0 .. Dword - 1 /\ new \in SQIDX
  BY AreaFacts, DwordFacts DEF SQIDX
<1>3. /\ sqi' \in Seq(SQIDX) /\ Len(sqi') = Len(sqi) + 1
      /\ \A k \in 1 .. Len(sqi) : sqi'[k] = sqi[k]
      /\ sqi'[Len(sqi) + 1] = new
  <2> HIDE DEF new
  <2> QED
    BY <1>1, <1>2, AreaFacts, AppendProperties
<1>4. Tossed' = Tossed \cup {f} /\ f \notin Tossed
  BY <1>1, AreaFacts DEF Tossed
<1>5. /\ IsFiniteSet(Tossed) /\ Cardinality(Tossed) \in Nat
      /\ Cardinality(Tossed') = Cardinality(Tossed) + 1
      /\ Cardinality(Tossed') <= Cardinality(Frames)
  <2>1. IsFiniteSet(Tossed) /\ Cardinality(Tossed) \in Nat
    BY FramesAssumption, FS_Subset, FS_CardinalityType DEF Tossed
  <2>2. Cardinality(Tossed \cup {f}) = Cardinality(Tossed) + 1
    BY <2>1, <1>4, FS_AddElement
  <2>3. Tossed \cup {f} \in SUBSET Frames
    BY DEF Tossed
  <2>4. Cardinality(Tossed \cup {f}) <= Cardinality(Frames)
    BY <2>3, FramesAssumption, FS_Subset
  <2> QED
    BY <2>1, <2>2, <2>4, <1>4
<1>6. uid' <= 1 + Cardinality(Tossed') /\ uid' \in 1 .. Dword - 1
  <2>1. uid <= 1 + Cardinality(Tossed)
    BY DEF Area
  <2> QED
    BY <2>1, <1>1, <1>2, <1>5, DwordFacts
<1>7. xmsg' \in [Frames -> XMSG] /\ frame' \in [Frames -> {"none", "normal", "free"}]
  <2>1. Unlinked(uid) \in XMSG
    BY <1>2, UnlinkedType
  <2> QED
    BY <1>1, <2>1, AreaFacts
<1>8. AreaType'
  <2>1. /\ sql \in [Users -> 0 .. Dword - 1] /\ text \in Texts /\ pc \in PCs
    BY AreaFacts
  <2>2. uid' \in 1 .. Dword - 1 /\ sqi' \in Seq(SQIDX)
    BY <1>3, <1>6
  <2>3. sql' = sql /\ text' = text /\ pc' = pc
    BY <1>1
  <2>4. sql' \in [Users -> 0 .. Dword - 1] /\ text' \in Texts /\ pc' \in PCs
    BY <2>1, <2>3
  <2> HIDE DEF new
  <2> QED
    BY <1>7, <2>2, <2>4 DEF AreaType, XMSG, PCs
<1>9. \A k \in 1 .. Len(sqi') : k \in 1 .. Len(sqi) \/ k = Len(sqi) + 1
  BY <1>3, AreaFacts
<1>10. \A k \in 1 .. Len(sqi') : sqi'[k].umsgid \in 1 .. uid' - 1
  <2>1. \A k \in 1 .. Len(sqi) : sqi'[k].umsgid \in 1 .. uid
    BY <1>3, <1>2, AreaFacts
  <2>2. sqi'[Len(sqi) + 1].umsgid = uid /\ uid' - 1 = uid /\ uid \in 1 .. uid
    <3>1. uid \in Int /\ uid >= 1 /\ new.umsgid = uid
      BY AreaFacts, DwordFacts
    <3>2. sqi'[Len(sqi) + 1].umsgid = uid
      BY <3>1, <1>3
    <3> QED
      BY <3>1, <3>2, <1>1
  <2> QED
    BY <2>1, <2>2, <1>9
<1>11. \A j, k \in 1 .. Len(sqi') : j < k => sqi'[j].umsgid < sqi'[k].umsgid
  <2> TAKE j, k \in 1 .. Len(sqi')
  <2> HAVE j < k
  <2>1. j \in 1 .. Len(sqi) /\ sqi'[j].umsgid = sqi[j].umsgid
    BY <1>3, AreaFacts
  <2>2. CASE k \in 1 .. Len(sqi)
    BY <2>1, <2>2, <1>3 DEF Area
  <2>3. CASE k = Len(sqi) + 1
    <3>1. sqi'[k].umsgid = uid
      BY <2>3, <1>3
    <3>2. sqi[j].umsgid \in 1 .. uid - 1
      BY <2>1, AreaFacts
    <3> QED
      BY <2>1, <3>1, <3>2, <1>2
  <2> QED
    BY <2>2, <2>3, <1>9
<1>12. \A u \in Users : sql'[u] \in 0 .. uid' - 1
  <2>1. \A u \in Users : sql[u] \in 0 .. uid - 1
    BY DEF Area
  <2> QED
    BY <2>1, <1>1, <1>2
<1> QED
  BY <1>6, <1>8, <1>10, <1>11, <1>12 DEF Area

\* Freeing a frame takes no frame away from those that were tossed.
LEMMA FreedIsTossed ==
  ASSUME Area, NEW f \in Frames, frame' = [frame EXCEPT ![f] = "free"]
  PROVE  /\ frame' \in [Frames -> {"none", "normal", "free"}]
         /\ \A n : n \in Int /\ n <= 1 + Cardinality(Tossed)
                   => n <= 1 + Cardinality(Tossed')
<1>1. frame' \in [Frames -> {"none", "normal", "free"}]
  BY AreaFacts
<1>2. Tossed \in SUBSET Tossed' /\ Tossed' \in SUBSET Frames
  BY <1>1, AreaFacts DEF Tossed
<1>3. /\ Cardinality(Tossed) <= Cardinality(Tossed')
      /\ Cardinality(Tossed) \in Nat /\ Cardinality(Tossed') \in Nat
  <2>1. IsFiniteSet(Tossed')
    BY <1>2, FramesAssumption, FS_Subset
  <2>2. IsFiniteSet(Tossed) /\ Cardinality(Tossed) <= Cardinality(Tossed')
    BY <1>2, <2>1, FS_Subset
  <2> QED
    BY <2>1, <2>2, FS_CardinalityType
<1> QED
  BY <1>1, <1>3

LEMMA AreaKeptByPurge ==
  ASSUME Area, NEW k \in 1 .. Len(sqi), Purge(k), pc' = pc
  PROVE  Area'
<1>1. /\ frame' = [frame EXCEPT ![sqi[k].ofs] = "free"]
      /\ sqi' = RemoveAt(sqi, k)
      /\ xmsg' = xmsg /\ uid' = uid /\ sql' = sql /\ text' = text
  BY DEF Purge
<1>2. /\ frame' \in [Frames -> {"none", "normal", "free"}]
      /\ uid <= 1 + Cardinality(Tossed')
  <2>1. sqi[k].ofs \in Frames /\ uid \in Int
    BY AreaFacts
  <2>2. uid <= 1 + Cardinality(Tossed)
    BY DEF Area
  <2> QED
    BY <2>1, <2>2, <1>1, FreedIsTossed
<1>3. /\ sqi' \in Seq(SQIDX) /\ Len(sqi') = Len(sqi) - 1
      /\ \A j \in 1 .. Len(sqi) - 1 : sqi'[j] = IF j < k THEN sqi[j] ELSE sqi[j + 1]
  BY <1>1, AreaFacts, RemoveAtProperties
\* Each entry was in the index, in the same order.
<1> DEFINE from(j) == IF j < k THEN j ELSE j + 1
<1>4. \A j \in 1 .. Len(sqi') : from(j) \in 1 .. Len(sqi) /\ sqi'[j] = sqi[from(j)]
  BY <1>3, AreaFacts
<1>5. \A j, m \in 1 .. Len(sqi') : j < m => from(j) < from(m)
  BY <1>3, AreaFacts
<1> HIDE DEF from
<1>6. \A j \in 1 .. Len(sqi') : sqi'[j].umsgid \in 1 .. uid - 1
  BY <1>4, AreaFacts
<1>7. \A j, m \in 1 .. Len(sqi') : j < m => sqi'[j].umsgid < sqi'[m].umsgid
  BY <1>4, <1>5 DEF Area
<1>8. AreaType'
  BY <1>1, <1>2, <1>3, AreaFacts DEF AreaType, XMSG, PCs
<1> QED
  BY <1>1, <1>2, <1>6, <1>7, <1>8 DEF Area

LEMMA AreaKeptByPurgeDies ==
  ASSUME Area, NEW k \in 1 .. Len(sqi), PurgeDies(k), pc' = pc
  PROVE  Area'
<1>1. /\ frame' = [frame EXCEPT ![sqi[k].ofs] = "free"]
      /\ xmsg' = xmsg /\ uid' = uid /\ sqi' = sqi /\ sql' = sql /\ text' = text
  BY DEF PurgeDies
<1>2. /\ frame' \in [Frames -> {"none", "normal", "free"}]
      /\ uid <= 1 + Cardinality(Tossed')
  <2>1. sqi[k].ofs \in Frames /\ uid \in Int
    BY AreaFacts
  <2>2. uid <= 1 + Cardinality(Tossed)
    BY DEF Area
  <2> QED
    BY <2>1, <2>2, <1>1, FreedIsTossed
<1>3. AreaType'
  BY <1>1, <1>2, AreaFacts DEF AreaType, XMSG, PCs
<1> QED
  BY <1>1, <1>2, <1>3 DEF Area

LEMMA AreaKeptByReadOn ==
  ASSUME Area, NEW u \in Users, NEW k \in 1 .. Len(sqi), ReadOn(u, k), pc' = pc
  PROVE  Area'
<1>1. /\ sql' = [sql EXCEPT ![u] = sqi[k].umsgid]
      /\ frame' = frame /\ xmsg' = xmsg /\ uid' = uid /\ sqi' = sqi /\ text' = text
  BY DEF ReadOn
<1>2. sqi[k].umsgid \in 0 .. uid - 1 /\ sqi[k].umsgid \in 0 .. Dword - 1
  BY AreaFacts, DwordFacts
<1>3. sql' \in [Users -> 0 .. Dword - 1]
  BY <1>1, <1>2, AreaFacts
<1>4. \A v \in Users : sql'[v] \in 0 .. uid - 1
  <2>1. \A v \in Users : sql[v] \in 0 .. uid - 1
    BY DEF Area
  <2> QED
    BY <2>1, <1>1, <1>2, AreaFacts
<1>5. Tossed' = Tossed
  BY <1>1 DEF Tossed
<1>6. AreaType'
  BY <1>1, <1>3, AreaFacts DEF AreaType, XMSG, PCs
<1> QED
  BY <1>1, <1>4, <1>5, <1>6 DEF Area

\* The highest umsgid that a user has read last.
LEMMA MaxOfReads ==
  ASSUME Area
  PROVE  LET M == Max({sql[u] : u \in Users} \cup {0})
         IN  M \in 0 .. uid - 1 /\ \A u \in Users : sql[u] <= M
<1> DEFINE S == {sql[u] : u \in Users} \cup {0}
           Rest == {uid - s : s \in S}
<1>1. uid \in Nat \ {0} /\ \A s \in S : s \in 0 .. uid - 1 /\ s \in Int
  <2>1. uid \in Nat \ {0}
    BY AreaFacts
  <2>2. \A u \in Users : sql[u] \in 0 .. uid - 1
    BY DEF Area
  <2> QED
    BY <2>1, <2>2
<1>2. 0 \in S /\ \A u \in Users : sql[u] \in S
  OBVIOUS
<1> HIDE DEF S
<1>3. Rest \subseteq Nat /\ Rest # {}
  BY <1>1, <1>2
<1>4. PICK r \in Rest : \A q \in Rest : r <= q
  <2> HIDE DEF Rest
  <2> QED
    BY <1>3, LeastOfSet
<1>5. PICK m \in S : r = uid - m
  BY <1>4
<1>6. \A s \in S : m >= s
  <2> TAKE s \in S
  <2>1. uid - m <= uid - s
    BY <1>4, <1>5
  <2> QED
    BY <2>1, <1>1, <1>5
<1>7. Max(S) \in S /\ \A s \in S : Max(S) >= s
  BY <1>5, <1>6 DEF Max
<1>8. Max(S) \in 0 .. uid - 1 /\ \A u \in Users : sql[u] <= Max(S)
  BY <1>1, <1>2, <1>7
<1> QED
  BY <1>8 DEF S


-----------------------------------------------------------------------------
(* A sort under way. *)

LEMMA ProgressFacts ==
  ASSUME IInv, Sorting
  PROVE  /\ text \in Texts /\ before \in Seq(SQIDX)
         /\ Len(before) \in Nat /\ ReadPart \in 0 .. Len(before)
         /\ \A k \in 1 .. Len(before) : before[k] \in SQIDX
                                        /\ before[k].umsgid \in Nat
         /\ idxPos \in ReadPart .. Len(before) /\ idxPos \in Nat
         /\ Len(sqi) = Len(before)
         /\ Len(sqsort) = Len(before) - idxPos /\ sqsort \in Seq(Msg)
         /\ sqsort # << >> <=> idxPos < Len(before)
         /\ first \in 0 .. uid
<1>1. Area /\ Progress
  BY DEF IInv
<1>2. text \in Texts
  BY <1>1, AreaFacts
<1>3. before \in Seq(SQIDX)
  BY <1>1 DEF Progress
<1>4. Len(before) \in Nat /\ ReadPart \in 0 .. Len(before)
  BY <1>2, <1>3, OrderedProperties
<1>5. \A k \in 1 .. Len(before) : before[k] \in SQIDX /\ before[k].umsgid \in Nat
  <2>1. \A k \in 1 .. Len(before) : before[k] \in SQIDX
    BY <1>3, ElementOfSeq
  <2> QED
    BY <2>1 DEF SQIDX
<1>6. /\ idxPos \in ReadPart .. Len(before)
      /\ Len(sqi) = Len(before)
      /\ Len(sqsort) = Len(before) - idxPos /\ sqsort \in Seq(Msg)
      /\ first \in 0 .. uid
  BY <1>1 DEF Progress
<1>7. idxPos \in Nat
  BY <1>4, <1>6
<1>8. sqsort # << >> <=> Len(sqsort) # 0
  BY <1>6, EmptySeq
<1>9. sqsort # << >> <=> idxPos < Len(before)
  BY <1>4, <1>6, <1>7, <1>8
<1> QED
  BY <1>2, <1>3, <1>4, <1>5, <1>6, <1>7, <1>9

\* While there is something left to write: what is written next, and where.
LEMMA NextToWrite ==
  ASSUME IInv, Sorting, idxPos < Len(before)
  PROVE  /\ idxPos + 1 \in 1 .. Len(before)
         /\ idxPos + 1 - ReadPart \in 1 .. Len(before) - ReadPart
         /\ sqsort[1] = Ordered[idxPos + 1 - ReadPart] /\ sqsort[1].ofs \in Frames
         /\ sqi[idxPos + 1] = before[idxPos + 1]
         /\ first = NewUmsgid(idxPos + 1)
         /\ first \in 1 .. uid - 1 /\ first <= sqi[idxPos + 1].umsgid
         /\ \A k \in 1 .. idxPos : sqi[k].umsgid < first
<1>0. Area /\ Progress /\ Written
  BY DEF IInv
<1>1. /\ idxPos + 1 \in 1 .. Len(before) /\ ReadPart < Len(before)
      /\ idxPos + 1 - ReadPart \in 1 .. Len(before) - ReadPart
      /\ idxPos - ReadPart + 1 = idxPos + 1 - ReadPart
      /\ 1 \in 1 .. Len(sqsort)
  BY ProgressFacts
<1>2. sqsort[1] = Ordered[idxPos - ReadPart + 1]
  BY <1>0, <1>1 DEF Progress
<1>3. Ordered[idxPos + 1 - ReadPart].ofs \in Frames
  BY <1>1, ProgressFacts, OrderedFromUnsorted
<1>4. ~(idxPos + 1 <= idxPos)
  BY ProgressFacts
<1>5. sqi[idxPos + 1] = before[idxPos + 1]
  BY <1>0, <1>1, <1>4 DEF Written
<1>6. /\ first = NewUmsgid(idxPos + 1) /\ first <= before[idxPos + 1].umsgid
      /\ \A k \in 1 .. idxPos : sqi[k].umsgid < first
  BY <1>0, <1>1 DEF Progress
<1>7. first >= 1
  <2>1. before[ReadPart + 1].umsgid \in Nat /\ before[ReadPart + 1].umsgid >= 1
    <3>1. ReadPart + 1 \in 1 .. Len(before)
      BY <1>1, ProgressFacts
    <3> QED
      BY <3>1, <1>0, ProgressFacts DEF Written
  <2>2. first = before[ReadPart + 1].umsgid + (idxPos + 1) - ReadPart - 1
    BY <1>6 DEF NewUmsgid
  <2>3. ReadPart \in Nat /\ idxPos \in Nat /\ idxPos >= ReadPart
    BY <1>1, ProgressFacts
  <2> HIDE DEF ReadPart
  <2> QED
    BY <2>1, <2>2, <2>3
<1>8. first < uid
  <2>1. sqi[idxPos + 1].umsgid \in 1 .. uid - 1
    BY <1>0, <1>1, AreaFacts, ProgressFacts
  <2>2. uid \in Int /\ first \in Int
    BY <1>0, AreaFacts, ProgressFacts
  <2> QED
    BY <2>1, <2>2, <1>5, <1>6
<1>9. first \in 1 .. uid - 1
  <2>1. uid \in Int /\ first \in Int
    BY <1>0, AreaFacts, ProgressFacts
  <2> QED
    BY <2>1, <1>7, <1>8
<1> QED
  BY <1>1, <1>2, <1>3, <1>5, <1>6, <1>9

\* A message is written to the index.
LEMMA WriteSqidxFacts ==
  ASSUME IInv, WriteSqidx
  PROVE  /\ Sorting /\ idxPos < Len(before)
         /\ sqi' \in Seq(SQIDX) /\ Len(sqi') = Len(sqi)
         /\ sqi'[idxPos + 1].ofs = sqsort[1].ofs /\ sqi'[idxPos + 1].umsgid = first
         /\ \A k \in 1 .. Len(sqi) : k # idxPos + 1 => sqi'[k] = sqi[k]
         /\ idxPos' = idxPos + 1 /\ first' = first + 1 /\ sqsort' = Tail(sqsort)
         /\ pc' = "sortmsg"
         /\ UNCHANGED << frame, xmsg, uid, sql, text, lastuid, before, moved >>
<1>1. /\ pc = "sortidx"
      /\ sqi' = [sqi EXCEPT ![idxPos + 1] = [ofs |-> sqsort[1].ofs, umsgid |-> first]]
      /\ idxPos' = idxPos + 1 /\ first' = first + 1 /\ sqsort' = Tail(sqsort)
      /\ pc' = "sortmsg"
      /\ UNCHANGED << frame, xmsg, uid, sql, text, lastuid, before, moved >>
  BY DEF WriteSqidx, CountOn, sortHistory
<1>2. Sorting /\ idxPos < Len(before) /\ Area
  BY <1>1 DEF IInv, Sorting, Progress
<1>3. [ofs |-> sqsort[1].ofs, umsgid |-> first] \in SQIDX
  BY <1>2, NextToWrite, ProgressFacts, AreaFacts DEF SQIDX
<1>4. idxPos + 1 \in 1 .. Len(sqi) /\ sqi \in Seq(SQIDX)
  BY <1>2, NextToWrite, ProgressFacts, AreaFacts
<1> DEFINE new == [ofs |-> sqsort[1].ofs, umsgid |-> first]
<1>5. new \in SQIDX /\ new.ofs = sqsort[1].ofs /\ new.umsgid = first
  BY <1>3
<1>6. sqi' = [sqi EXCEPT ![idxPos + 1] = new]
  BY <1>1
<1> HIDE DEF new
<1>7. sqi' \in Seq(SQIDX) /\ Len(sqi') = Len(sqi)
  BY <1>4, <1>5, <1>6, ExceptSeq
<1>8. sqi'[idxPos + 1] = new /\ \A k \in 1 .. Len(sqi) : k # idxPos + 1 => sqi'[k] = sqi[k]
  BY <1>4, <1>6, ExceptSeq
<1> QED
  BY <1>1, <1>2, <1>5, <1>7, <1>8

LEMMA AreaKeptByWriteSqidx ==
  ASSUME IInv, WriteSqidx
  PROVE  Area'
<1>1. Area
  BY DEF IInv
<1>2. Tossed' = Tossed
  BY WriteSqidxFacts DEF Tossed
<1>3. first \in 1 .. uid - 1 /\ first \in Int /\ idxPos \in Int
  BY WriteSqidxFacts, NextToWrite, ProgressFacts
<1>4. \A k \in 1 .. Len(sqi') : sqi'[k].umsgid \in 1 .. uid' - 1
  <2>1. \A k \in 1 .. Len(sqi) : sqi[k].umsgid \in 1 .. uid - 1
    BY <1>1, AreaFacts
  <2> QED
    BY <2>1, <1>3, WriteSqidxFacts
<1>5. \A j, k \in 1 .. Len(sqi') : j < k => sqi'[j].umsgid < sqi'[k].umsgid
  <2> TAKE j, k \in 1 .. Len(sqi')
  <2> HAVE j < k
  <2>0. j \in 1 .. Len(sqi) /\ k \in 1 .. Len(sqi) /\ j \in Int /\ k \in Int
    BY <1>1, WriteSqidxFacts, AreaFacts
  <2>1. sqi[j].umsgid < sqi[k].umsgid /\ sqi[j].umsgid \in Int /\ sqi[k].umsgid \in Int
    BY <2>0, <1>1, AreaFacts DEF Area
  <2>2. CASE j # idxPos + 1 /\ k # idxPos + 1
    BY <2>0, <2>1, <2>2, WriteSqidxFacts
  <2>3. CASE k = idxPos + 1
    <3>1. j \in 1 .. idxPos /\ j # idxPos + 1
      BY <2>0, <2>3, <1>3
    <3>2. sqi[j].umsgid < first
      BY <3>1, WriteSqidxFacts, NextToWrite
    <3> QED
      BY <2>0, <2>3, <3>1, <3>2, WriteSqidxFacts
  <2>4. CASE j = idxPos + 1
    <3>1. k # idxPos + 1
      BY <2>0, <2>4, <1>3
    <3>2. first <= sqi[j].umsgid
      BY <2>4, WriteSqidxFacts, NextToWrite
    <3>3. sqi'[j].umsgid = first /\ sqi'[k] = sqi[k]
      BY <2>0, <2>4, <3>1, WriteSqidxFacts
    <3> QED
      BY <2>1, <3>2, <3>3, <1>3
  <2> QED
    BY <2>2, <2>3, <2>4
<1>6. AreaType'
  BY <1>1, WriteSqidxFacts, AreaFacts DEF AreaType, XMSG, PCs
<1>7. uid' = uid /\ sql' = sql
  BY WriteSqidxFacts
<1> QED
  BY <1>1, <1>2, <1>4, <1>5, <1>6, <1>7 DEF Area

\* A message that is numbered anew has no links.
LEMMA CutAndNumbered ==
  ASSUME NEW x \in XMSG, NEW id
  PROVE  [LinksCut(x) EXCEPT !.umsgid = id] = Unlinked(id)
<1>1. /\ LinksCut(x) \in [umsgid : 0 .. Dword - 1, replyto : {0}, replies : {NoReplies}]
      /\ LinksCut(x).umsgid = x.umsgid
  BY DEF XMSG, LinksCut
<1> HIDE DEF LinksCut
<1>2. LinksCut(x) = [umsgid |-> x.umsgid, replyto |-> 0, replies |-> NoReplies]
  BY <1>1
<1> QED
  BY <1>2 DEF Unlinked

LEMMA WriteXmsgFacts ==
  ASSUME IInv, WriteXmsg
  PROVE  /\ Sorting /\ pc = "sortmsg" /\ idxPos < Len(before)
         /\ xmsg' = [xmsg EXCEPT ![sqsort[1].ofs] = Unlinked(first)]
         /\ xmsg' \in [Frames -> XMSG]
         /\ pc' = "sortidx"
         /\ UNCHANGED << frame, uid, sqi, sql, text, sortMemory, sortHistory >>
<1>1. /\ pc = "sortmsg" /\ sqsort # << >>
      /\ xmsg' = [xmsg EXCEPT ![sqsort[1].ofs] = [LinksCut(@) EXCEPT !.umsgid = first]]
      /\ pc' = "sortidx"
      /\ UNCHANGED << frame, uid, sqi, sql, text, sortMemory, sortHistory >>
  BY DEF WriteXmsg
<1>2. Sorting /\ idxPos < Len(before) /\ Area
  BY <1>1, ProgressFacts DEF IInv, Sorting
<1>3. sqsort[1].ofs \in Frames /\ xmsg \in [Frames -> XMSG]
  BY <1>2, NextToWrite, AreaFacts
<1>4. xmsg' = [xmsg EXCEPT ![sqsort[1].ofs] = Unlinked(first)]
  <2>1. [LinksCut(xmsg[sqsort[1].ofs]) EXCEPT !.umsgid = first] = Unlinked(first)
    BY <1>3, CutAndNumbered
  <2> QED
    BY <2>1, <1>1
<1>5. first \in 0 .. Dword - 1
  BY <1>2, ProgressFacts, AreaFacts, DwordFacts
<1>6. xmsg' \in [Frames -> XMSG]
  <2>1. Unlinked(first) \in XMSG
    BY <1>5, UnlinkedType
  <2> QED
    BY <2>1, <1>3, <1>4
<1> QED
  BY <1>1, <1>2, <1>4, <1>6

LEMMA RewrittenType ==
  ASSUME NEW x \in XMSG, NEW info \in Info
  PROVE  Rewritten(x, info) \in XMSG
<1> DEFINE replies == [k \in 1 .. MAX_REPLY |->
                         IF k <= Len(info.replies) THEN info.replies[k] ELSE 0]
<1>1. /\ info.replies \in Seq(1 .. Dword - 1) /\ info.replyto \in 0 .. Dword - 1
      /\ Len(info.replies) \in Nat
  BY LenProperties DEF Info
<1>2. \A k \in 1 .. Len(info.replies) : info.replies[k] \in 1 .. Dword - 1
  BY <1>1, ElementOfSeq
<1>3. \A k \in 1 .. MAX_REPLY : k <= Len(info.replies) => info.replies[k] \in 0 .. Dword - 1
  <2>1. \A k \in 1 .. MAX_REPLY : k <= Len(info.replies) => k \in 1 .. Len(info.replies)
    BY <1>1, DwordFacts
  <2> QED
    BY <2>1, <1>2, DwordFacts
<1>4. replies \in [1 .. MAX_REPLY -> 0 .. Dword - 1]
  BY <1>3, DwordFacts
<1>5. Rewritten(x, info) = [x EXCEPT !.replyto = info.replyto, !.replies = replies]
  BY DEF Rewritten
<1> HIDE DEF replies
<1> QED
  BY <1>1, <1>4, <1>5 DEF XMSG

LEMMA WriteLinksFacts ==
  ASSUME IInv, WriteLinks
  PROVE  /\ pc = "link" /\ i \in 1 .. Len(sqi) /\ i' = i + 1
         /\ xmsg' \in [Frames -> XMSG]
         /\ UNCHANGED << frame, uid, sqi, sql, text, pc, msginfo >>
<1>1. /\ pc = "link" /\ i <= Len(sqi) /\ i' = i + 1
      /\ xmsg' = IF msginfo[i].rewrite
                 THEN [xmsg EXCEPT ![sqi[i].ofs] = Rewritten(@, msginfo[i])]
                 ELSE xmsg
      /\ UNCHANGED << frame, uid, sqi, sql, text, pc, msginfo >>
  BY DEF WriteLinks
<1>2. /\ i \in 1 .. Len(sqi) + 1 /\ Len(msginfo) = Len(sqi)
      /\ msginfo \in Seq(Info) /\ Area
  BY <1>1 DEF IInv, Memory
<1>3. i \in 1 .. Len(sqi)
  BY <1>1, <1>2, AreaFacts
<1>4. msginfo[i] \in Info /\ sqi[i].ofs \in Frames /\ xmsg \in [Frames -> XMSG]
  BY <1>2, <1>3, ElementOfSeq, AreaFacts
<1>5. Rewritten(xmsg[sqi[i].ofs], msginfo[i]) \in XMSG
  BY <1>4, RewrittenType
<1>6. xmsg' \in [Frames -> XMSG]
  BY <1>1, <1>4, <1>5
<1> QED
  BY <1>1, <1>3, <1>6

\* The steps of Next.
LEMMA StepCases ==
  ASSUME Next
  PROVE  \/ Sort /\ ReadSql
         \/ Sort /\ LockToSort
         \/ Sort /\ SortLocked
         \/ Sort /\ WriteXmsg
         \/ Sort /\ WriteSqidx
         \/ Sort /\ CloseSorted
         \/ Link /\ ReadMsgs
         \/ Link /\ WriteLinks
         \/ Link /\ Unlock
         \/ \E f \in Frames : Other /\ Toss(f) /\ UNCHANGED << sorted, moved >>
         \/ \E k \in 1 .. Len(sqi) :
              Other /\ (Purge(k) \/ PurgeDies(k)) /\ sorted' = {} /\ UNCHANGED moved
         \/ \E u \in Users, k \in 1 .. Len(sqi) :
              /\ Other /\ ReadOn(u, k)
              /\ moved' = (Sorting \/ pc = "sort") /\ UNCHANGED sorted
         \/ Crash
BY Zenon DEF Next, Sort, SortStep, Link, LinkStep, Other

LEMMA AreaInvariance ==
  ASSUME IInv, [Next]_vars
  PROVE  Area'
<1>0. Area
  BY DEF IInv
<1>1. CASE Sort /\ ReadSql
  BY <1>0, <1>1, AreaKeptByNoWrite DEF ReadSql, PCs
<1>2. CASE Sort /\ LockToSort
  BY <1>0, <1>2, AreaKeptByNoWrite DEF LockToSort, PCs
<1>3. CASE Sort /\ SortLocked
  BY <1>0, <1>3, AreaKeptByNoWrite DEF SortLocked, EndSort, PCs
<1>4. CASE Sort /\ WriteXmsg
  BY <1>0, <1>4, WriteXmsgFacts, AreaKeptByXmsg DEF PCs
<1>5. CASE Sort /\ WriteSqidx
  BY <1>5, AreaKeptByWriteSqidx
<1>6. CASE Sort /\ CloseSorted
  BY <1>0, <1>6, AreaKeptByNoWrite DEF CloseSorted, EndSort, PCs
<1>7. CASE Link /\ ReadMsgs
  BY <1>0, <1>7, AreaKeptByNoWrite DEF ReadMsgs, PCs
<1>8. CASE Link /\ WriteLinks
  BY <1>0, <1>8, WriteLinksFacts, AreaKeptByXmsg, AreaFacts
<1>9. CASE Link /\ Unlock
  BY <1>0, <1>9, AreaKeptByNoWrite DEF Unlock, EndLink, PCs
<1>10. ASSUME NEW f \in Frames, Other, Toss(f) PROVE Area'
  BY <1>0, <1>10, AreaKeptByToss DEF Other
<1>11. ASSUME NEW k \in 1 .. Len(sqi), Other, Purge(k) \/ PurgeDies(k) PROVE Area'
  BY <1>0, <1>11, AreaKeptByPurge, AreaKeptByPurgeDies DEF Other
<1>12. ASSUME NEW u \in Users, NEW k \in 1 .. Len(sqi), Other, ReadOn(u, k) PROVE Area'
  BY <1>0, <1>12, AreaKeptByReadOn DEF Other
<1>13. CASE Crash
  BY <1>0, <1>13, AreaKeptByNoWrite DEF Crash, EndSort, PCs
<1>14. CASE UNCHANGED vars
  BY <1>0, <1>14, AreaKeptByNoWrite, AreaFacts DEF vars
<1> QED
  BY <1>1, <1>2, <1>3, <1>4, <1>5, <1>6, <1>7, <1>8, <1>9, <1>10, <1>11, <1>12,
     <1>13, <1>14, StepCases

-----------------------------------------------------------------------------
(* What link finds. *)

LEMMA LinkPairType ==
  ASSUME Area, NEW n \in Nat, n = Len(sqi), NEW x,
         NEW info \in [1 .. n -> Info], NEW k \in 1 .. n, NEW ii \in 1 .. n
  PROVE  LinkPair(x, info, k, ii) \in [1 .. n -> Info]
<1>1. /\ info[k] \in Info /\ info[ii] \in Info
      /\ sqi[k].umsgid \in 1 .. Dword - 1 /\ sqi[ii].umsgid \in 1 .. Dword - 1
      /\ sqi[k].umsgid \in 0 .. Dword - 1
  <2>1. \A e \in 1 .. n : sqi[e].umsgid \in 1 .. uid - 1
    BY AreaFacts
  <2>2. uid \in 1 .. Dword - 1 /\ Dword \in Nat
    BY AreaFacts, DwordFacts
  <2>3. \A e \in 1 .. n : sqi[e].umsgid \in 1 .. Dword - 1 /\ sqi[e].umsgid \in 0 .. Dword - 1
    BY <2>1, <2>2
  <2> QED
    BY <2>3
<1>2. info[k].replies \in Seq(1 .. Dword - 1)
  BY <1>1 DEF Info
<1> DEFINE full == Len(info[k].replies)
           replies2 == IF Room(full) THEN Append(info[k].replies, sqi[ii].umsgid)
                       ELSE info[k].replies
<1>3. replies2 \in Seq(1 .. Dword - 1)
  BY <1>1, <1>2, AppendProperties
<1> DEFINE b1 == Room(full) /\ sqi[ii].umsgid # x[sqi[k].ofs].replies[full + 1]
           b2 == sqi[k].umsgid # x[sqi[ii].ofs].replyto
           linked == [info EXCEPT ![k].replies = replies2,
                                  ![k].rewrite = @ \/ b1,
                                  ![ii].replyto = sqi[k].umsgid,
                                  ![ii].rewrite = @ \/ b2]
<1>4. LinkPair(x, info, k, ii) = IF ~IsReply(ii, k) THEN info ELSE linked
  BY DEF LinkPair
<1>5. linked \in [1 .. n -> Info]
  <2> HIDE DEF replies2, b1, b2
  <2> QED
    BY <1>1, <1>3 DEF Info
<1> QED
  BY <1>4, <1>5

\* The place of a reply among the replies R.
Rank(R, r) == Cardinality({q \in R : q <= r})

\* The replies of a message are counted in the order of the index.
LEMMA RankProperties ==
  ASSUME NEW n \in Nat, NEW R \in SUBSET (1 .. n)
  PROVE  /\ IsFiniteSet(R) /\ Cardinality(R) \in Nat
         /\ \A r \in R : Rank(R, r) \in 1 .. Cardinality(R)
<1>1. IsFiniteSet(R) /\ Cardinality(R) \in Nat
  <2>1. IsFiniteSet(1 .. n)
    BY FS_Interval
  <2> QED
    BY <2>1, FS_Subset, FS_CardinalityType
<1>2. ASSUME NEW r \in R PROVE Rank(R, r) \in 1 .. Cardinality(R)
  <2> DEFINE S == {q \in R : q <= r}
  <2>1. S \in SUBSET R /\ r \in S
    OBVIOUS
  <2> HIDE DEF S
  <2>2. IsFiniteSet(S) /\ Cardinality(S) <= Cardinality(R)
    BY <1>1, <2>1, FS_Subset
  <2>3. Cardinality(S) \in Nat /\ Cardinality(S) # 0
    BY <2>1, <2>2, FS_CardinalityType, FS_EmptySet
  <2>4. Rank(R, r) = Cardinality(S)
    BY DEF Rank, S
  <2> QED
    BY <1>1, <2>2, <2>3, <2>4
<1> QED
  BY <1>1, <1>2

LEMMA RankOfLast ==
  ASSUME NEW n \in Nat, NEW R \in SUBSET (1 .. n), NEW new \in 1 .. n,
         \A q \in R : q < new
  PROVE  /\ Cardinality(R \cup {new}) = Cardinality(R) + 1
         /\ Rank(R \cup {new}, new) = Cardinality(R) + 1
         /\ \A r \in R : Rank(R \cup {new}, r) = Rank(R, r)
<1>1. IsFiniteSet(R) /\ Cardinality(R) \in Nat /\ new \notin R
  <2>1. new \notin R
    OBVIOUS
  <2> QED
    BY <2>1, RankProperties
<1>2. Cardinality(R \cup {new}) = Cardinality(R) + 1
  BY <1>1, FS_AddElement
<1>0. new \in Int /\ \A q \in R : q \in Int
  OBVIOUS
<1>3. {q \in R \cup {new} : q <= new} = R \cup {new}
  <2>1. new <= new /\ \A q \in R : q <= new
    BY <1>0
  <2> QED
    BY <2>1
<1>4. ASSUME NEW r \in R PROVE {q \in R \cup {new} : q <= r} = {q \in R : q <= r}
  <2>1. r < new /\ r \in Int
    BY <1>0
  <2>2. ~(new <= r)
    BY <2>1, <1>0
  <2> QED
    BY <2>2
<1> QED
  BY <1>2, <1>3, <1>4 DEF Rank

\* What link has found for a message, when it has met the replies R and the parents P
\* of it; index is the index, and old its XMSG as it was read.
EntryFound(index, e, old, R, P) ==
  /\ e \in Info
  /\ Len(e.replies) < MAX_REPLY /\ Len(e.replies) <= Cardinality(R)
  /\ Room(Len(e.replies)) => Len(e.replies) = Cardinality(R)
  /\ \A r \in R : Rank(R, r) < MAX_REPLY =>
       Rank(R, r) <= Len(e.replies) /\ e.replies[Rank(R, r)] = index[r].umsgid
  /\ \A m \in 1 .. Len(e.replies) : \E r \in R : Rank(R, r) = m
  /\ \/ P = {} /\ e.replyto = 0
     \/ \E p \in P : (\A q \in P : q <= p) /\ e.replyto = index[p].umsgid
  /\ e.rewrite <=> \/ \E m \in 1 .. Len(e.replies) : e.replies[m] # old.replies[m]
                   \/ \E p \in P : index[p].umsgid # old.replyto

LEMMA EntryFacts ==
  ASSUME Area, NEW k \in 1 .. Len(sqi)
  PROVE  /\ sqi[k].umsgid \in 1 .. Dword - 1 /\ sqi[k].umsgid \in 0 .. Dword - 1
         /\ sqi[k].umsgid # 0 /\ sqi[k].ofs \in Frames
<1>1. sqi[k].umsgid \in 1 .. uid - 1 /\ sqi[k].ofs \in Frames
  BY AreaFacts
<1>2. uid \in 1 .. Dword - 1 /\ Dword \in Nat
  BY AreaFacts, DwordFacts
<1> QED
  BY <1>1, <1>2

LEMMA InfoFacts ==
  ASSUME NEW e \in Info
  PROVE  /\ e.replies \in Seq(1 .. Dword - 1) /\ Len(e.replies) \in Nat
         /\ e.replyto \in 0 .. Dword - 1 /\ e.rewrite \in BOOLEAN
         /\ \A m \in 1 .. Len(e.replies) : e.replies[m] \in 1 .. Dword - 1
<1>1. e.replies \in Seq(1 .. Dword - 1) /\ e.replyto \in 0 .. Dword - 1 /\ e.rewrite \in BOOLEAN
  BY DEF Info
<1>2. Len(e.replies) \in Nat /\ \A m \in 1 .. Len(e.replies) : e.replies[m] \in 1 .. Dword - 1
  BY <1>1, LenProperties, ElementOfSeq
<1> QED
  BY <1>1, <1>2

\* A reply behind those that were met is added if there is room.
LEMMA ReplyAdded ==
  ASSUME Area, NEW R \in SUBSET (1 .. Len(sqi)), NEW P, NEW old, NEW e,
         EntryFound(sqi, e, old, R, P),
         NEW new \in 1 .. Len(sqi), \A q \in R : q < new,
         NEW e2 \in Info, e2.replyto = e.replyto,
         e2.replies = IF Room(Len(e.replies)) THEN Append(e.replies, sqi[new].umsgid)
                      ELSE e.replies,
         e2.rewrite <=> \/ e.rewrite
                        \/ /\ Room(Len(e.replies))
                           /\ sqi[new].umsgid # old.replies[Len(e.replies) + 1]
  PROVE  EntryFound(sqi, e2, old, R \cup {new}, P)
<1> DEFINE n == Len(e.replies)
           id == sqi[new].umsgid
           R2 == R \cup {new}
<1>0. /\ e \in Info /\ n \in Nat /\ MAX_REPLY \in Nat \ {0} /\ Cardinality(R) \in Nat
      /\ id \in 1 .. Dword - 1 /\ e.replies \in Seq(1 .. Dword - 1)
      /\ Len(sqi) \in Nat
  <2>1. Len(sqi) \in Nat
    BY AreaFacts
  <2>2. e \in Info
    BY DEF EntryFound
  <2> QED
    BY <2>1, <2>2, InfoFacts, EntryFacts, RankProperties, DwordFacts
<1>1. /\ Cardinality(R2) = Cardinality(R) + 1 /\ Rank(R2, new) = Cardinality(R) + 1
      /\ \A r \in R : Rank(R2, r) = Rank(R, r)
  BY <1>0, RankOfLast
<1>2. \A r \in R : Rank(R, r) \in Nat /\ Rank(R, r) >= 1
  <2>1. \A r \in R : Rank(R, r) \in 1 .. Cardinality(R)
    BY <1>0, RankProperties
  <2> QED
    BY <2>1, <1>0
<1>3. /\ n < MAX_REPLY /\ n <= Cardinality(R) /\ (Room(n) => n = Cardinality(R))
      /\ \A m \in 1 .. n : \E r \in R : Rank(R, r) = m
  BY DEF EntryFound
<1>4. \A r \in R : Rank(R, r) < MAX_REPLY => Rank(R, r) <= n
                                             /\ e.replies[Rank(R, r)] = sqi[r].umsgid
  BY DEF EntryFound
<1>5. \/ P = {} /\ e2.replyto = 0
      \/ \E p \in P : (\A q \in P : q <= p) /\ e2.replyto = sqi[p].umsgid
  BY DEF EntryFound
<1>6. e.rewrite <=> \/ \E m \in 1 .. n : e.replies[m] # old.replies[m]
                    \/ \E p \in P : sqi[p].umsgid # old.replyto
  BY DEF EntryFound
<1>7. CASE Room(n)
  <2>1. e2.replies = Append(e.replies, id)
    BY <1>7
  <2>2. /\ Len(e2.replies) = n + 1 /\ e2.replies[n + 1] = id
        /\ \A m \in 1 .. n : e2.replies[m] = e.replies[m]
    <3> DEFINE D == 1 .. Dword - 1
               list == e.replies
    <3>1. list \in Seq(D) /\ id \in D /\ n = Len(list) /\ n \in Nat
      BY <1>0
    <3> HIDE DEF id, D, list, n
    <3>2. /\ Len(Append(list, id)) = n + 1 /\ Append(list, id)[n + 1] = id
          /\ \A m \in 1 .. n : Append(list, id)[m] = list[m]
      BY <3>1, AppendProperties
    <3> QED
      BY <2>1, <3>2 DEF list
  <2>3. n + 1 < MAX_REPLY /\ n = Cardinality(R)
    BY <1>0, <1>3, <1>7 DEF Room
  <2>4. \A m \in 1 .. n + 1 : m \in 1 .. n \/ m = n + 1
    BY <1>0
  <2> HIDE DEF n, id, R2
  <2>5. \A m \in 1 .. n + 1 : \E r \in R2 : Rank(R2, r) = m
    <3>1. new \in R2 /\ Rank(R2, new) = n + 1
      BY <1>1, <2>3 DEF R2
    <3>2. \A m \in 1 .. n : \E r \in R2 : Rank(R2, r) = m
      BY <1>1, <1>3 DEF R2
    <3> QED
      BY <3>1, <3>2, <2>4
  <2>6. ASSUME NEW r \in R2, Rank(R2, r) < MAX_REPLY
        PROVE  Rank(R2, r) <= n + 1 /\ e2.replies[Rank(R2, r)] = sqi[r].umsgid
    <3>1. CASE r = new
      <4>1. Rank(R2, r) = n + 1 /\ n + 1 <= n + 1
        BY <3>1, <1>0, <1>1, <2>3
      <4> QED
        BY <4>1, <3>1, <2>2 DEF id
    <3>2. CASE r \in R
      <4>1. Rank(R2, r) = Rank(R, r) /\ Rank(R, r) <= n /\ Rank(R, r) \in 1 .. n
        <5>1. Rank(R2, r) = Rank(R, r) /\ Rank(R, r) < MAX_REPLY
          BY <3>2, <1>1, <2>6
        <5>2. Rank(R, r) <= n /\ Rank(R, r) \in Nat /\ Rank(R, r) >= 1
          BY <5>1, <3>2, <1>2, <1>4
        <5> QED
          BY <5>1, <5>2, <1>0
      <4>2. e.replies[Rank(R, r)] = sqi[r].umsgid
        BY <4>1, <3>2, <1>4, <2>6
      <4>3. Rank(R, r) <= n + 1
        BY <4>1, <1>0
      <4> QED
        BY <4>1, <4>2, <4>3, <2>2
    <3> QED
      BY <3>1, <3>2 DEF R2
  <2>7. e2.rewrite <=> e.rewrite \/ id # old.replies[n + 1]
    BY <1>7 DEF n, id
  <2>8. (\E m \in 1 .. n + 1 : e2.replies[m] # old.replies[m])
          <=> (\E m \in 1 .. n : e.replies[m] # old.replies[m]) \/ id # old.replies[n + 1]
    <3>1. n + 1 \in 1 .. n + 1 /\ \A m \in 1 .. n : m \in 1 .. n + 1
      BY <1>0
    <3> QED
      BY <3>1, <2>2, <2>4
  <2>9. e2.rewrite <=> \/ \E m \in 1 .. n + 1 : e2.replies[m] # old.replies[m]
                       \/ \E p \in P : sqi[p].umsgid # old.replyto
    BY <2>7, <2>8, <1>6
  <2>10. n + 1 <= Cardinality(R2) /\ (Room(n + 1) => n + 1 = Cardinality(R2))
    BY <2>3, <1>0, <1>1
  <2> QED
    BY <2>2, <2>3, <2>5, <2>6, <2>9, <2>10, <1>5 DEF EntryFound, R2
<1>8. CASE ~Room(n)
  <2>1. e2.replies = e.replies /\ (e2.rewrite <=> e.rewrite)
    BY <1>8
  <2>2. n >= MAX_REPLY - 1
    BY <1>0, <1>8 DEF Room
  <2> HIDE DEF n, id, R2
  <2>3. ~(Rank(R2, new) < MAX_REPLY)
    BY <2>2, <1>0, <1>1, <1>3
  <2>4. \A m \in 1 .. n : \E r \in R2 : Rank(R2, r) = m
    BY <1>1, <1>3 DEF R2
  <2>5. \A r \in R2 : Rank(R2, r) < MAX_REPLY =>
          Rank(R2, r) <= n /\ e.replies[Rank(R2, r)] = sqi[r].umsgid
    BY <1>1, <1>4, <2>3 DEF R2
  <2>6. n <= Cardinality(R2)
    BY <1>0, <1>1, <1>3
  <2> QED
    BY <2>1, <2>4, <2>5, <2>6, <1>3, <1>5, <1>6, <1>8 DEF EntryFound, R2, n
<1> QED
  BY <1>7, <1>8

\* A parent behind those that were met takes their place.
LEMMA ParentAdded ==
  ASSUME Area, NEW R, NEW P \in SUBSET (1 .. Len(sqi)), NEW old, NEW e,
         EntryFound(sqi, e, old, R, P),
         NEW new \in 1 .. Len(sqi), \A q \in P : q < new,
         NEW e2 \in Info, e2.replies = e.replies, e2.replyto = sqi[new].umsgid,
         e2.rewrite <=> e.rewrite \/ sqi[new].umsgid # old.replyto
  PROVE  EntryFound(sqi, e2, old, R, P \cup {new})
<1>1. \A q \in P \cup {new} : q <= new
  <2>1. new \in Int /\ \A q \in P : q \in Int
    BY AreaFacts
  <2> QED
    BY <2>1
<1>2. e.rewrite <=> \/ \E m \in 1 .. Len(e.replies) : e.replies[m] # old.replies[m]
                    \/ \E p \in P : sqi[p].umsgid # old.replyto
  BY DEF EntryFound
<1>3. e2.rewrite <=> \/ \E m \in 1 .. Len(e2.replies) : e2.replies[m] # old.replies[m]
                     \/ \E p \in P \cup {new} : sqi[p].umsgid # old.replyto
  BY <1>2
<1>4. \E p \in P \cup {new} : (\A q \in P \cup {new} : q <= p) /\ e2.replyto = sqi[p].umsgid
  BY <1>1
<1> QED
  BY <1>3, <1>4 DEF EntryFound

\* What is found does not depend on XMSG, and whether a message is written only on
\* its own XMSG.
LEMMA FoundOnce ==
  ASSUME NEW R, NEW P \in SUBSET Int, NEW old1, NEW old2, NEW e1, NEW e2,
         EntryFound(sqi, e1, old1, R, P), EntryFound(sqi, e2, old2, R, P)
  PROVE  /\ e1.replies = e2.replies /\ e1.replyto = e2.replyto
         /\ old1 = old2 => (e1.rewrite <=> e2.rewrite)
<1>0. /\ e1.replies \in Seq(1 .. Dword - 1) /\ Len(e1.replies) \in Nat
      /\ e2.replies \in Seq(1 .. Dword - 1) /\ Len(e2.replies) \in Nat
      /\ MAX_REPLY \in Nat
  <2>1. e1 \in Info /\ e2 \in Info
    BY DEF EntryFound
  <2> QED
    BY <2>1, InfoFacts, DwordFacts
<1>1. /\ \A m \in 1 .. Len(e1.replies) : \E r \in R : Rank(R, r) = m
      /\ \A m \in 1 .. Len(e2.replies) : \E r \in R : Rank(R, r) = m
      /\ Len(e1.replies) < MAX_REPLY /\ Len(e2.replies) < MAX_REPLY
  BY DEF EntryFound
<1>2. \A r \in R : Rank(R, r) < MAX_REPLY =>
        /\ Rank(R, r) <= Len(e1.replies) /\ e1.replies[Rank(R, r)] = sqi[r].umsgid
        /\ Rank(R, r) <= Len(e2.replies) /\ e2.replies[Rank(R, r)] = sqi[r].umsgid
  BY DEF EntryFound
<1>3. \A m \in 1 .. Len(e1.replies) : m <= Len(e2.replies) /\ e1.replies[m] = e2.replies[m]
  <2> TAKE m \in 1 .. Len(e1.replies)
  <2>1. PICK r \in R : Rank(R, r) = m
    BY <1>1
  <2>2. m < MAX_REPLY
    BY <1>0, <1>1
  <2> QED
    BY <2>1, <2>2, <1>2
<1>4. \A m \in 1 .. Len(e2.replies) : m <= Len(e1.replies)
  <2> TAKE m \in 1 .. Len(e2.replies)
  <2>1. PICK r \in R : Rank(R, r) = m
    BY <1>1
  <2>2. m < MAX_REPLY
    BY <1>0, <1>1
  <2> QED
    BY <2>1, <2>2, <1>2
<1>5. Len(e1.replies) = Len(e2.replies)
  <2>1. Len(e1.replies) # 0 => Len(e1.replies) <= Len(e2.replies)
    BY <1>0, <1>3
  <2>2. Len(e2.replies) # 0 => Len(e2.replies) <= Len(e1.replies)
    BY <1>0, <1>4
  <2> QED
    BY <2>1, <2>2, <1>0
<1>6. e1.replies = e2.replies
  BY <1>0, <1>3, <1>5, SeqEqual
<1>7. e1.replyto = e2.replyto
  <2>1. \/ P = {} /\ e1.replyto = 0
        \/ \E p \in P : (\A q \in P : q <= p) /\ e1.replyto = sqi[p].umsgid
    BY DEF EntryFound
  <2>2. \/ P = {} /\ e2.replyto = 0
        \/ \E p \in P : (\A q \in P : q <= p) /\ e2.replyto = sqi[p].umsgid
    BY DEF EntryFound
  <2>3. \A p, q \in P : p <= q /\ q <= p => p = q
    OBVIOUS
  <2> QED
    BY <2>1, <2>2, <2>3
<1>8. /\ e1.rewrite <=> \/ \E m \in 1 .. Len(e1.replies) : e1.replies[m] # old1.replies[m]
                        \/ \E p \in P : sqi[p].umsgid # old1.replyto
      /\ e2.rewrite <=> \/ \E m \in 1 .. Len(e2.replies) : e2.replies[m] # old2.replies[m]
                        \/ \E p \in P : sqi[p].umsgid # old2.replyto
  BY DEF EntryFound
<1> QED
  BY <1>6, <1>7, <1>8

\* Was entry r compared as a reply to entry p, when turn ii for entry k is done?
Compared(k, ii, p, r) == p < k \/ (p = k /\ r <= ii)

RepliesMet(k, ii, e) == {r \in 1 .. Len(sqi) : IsReply(r, e) /\ Compared(k, ii, e, r)}
ParentsMet(k, ii, e) == {p \in 1 .. Len(sqi) : IsReply(e, p) /\ Compared(k, ii, p, e)}

RepliesOf(e) == {r \in 1 .. Len(sqi) : IsReply(r, e)}
ParentsOf(e) == {p \in 1 .. Len(sqi) : IsReply(e, p)}

\* What link has found, and whether it is what it should be after each turn.
FoundAfter(x, k, ii) ==
  {info \in [1 .. Len(sqi) -> Info] :
     \A e \in 1 .. Len(sqi) :
       EntryFound(sqi, info[e], x[sqi[e].ofs], RepliesMet(k, ii, e), ParentsMet(k, ii, e))}

\* A turn that meets a reply changes what was found for it and for its parent.
PairLinked(x, info, info2, k, ii) ==
  /\ info2[k].replyto = info[k].replyto
  /\ info2[k].replies = IF Room(Len(info[k].replies))
                        THEN Append(info[k].replies, sqi[ii].umsgid)
                        ELSE info[k].replies
  /\ info2[k].rewrite <=>
       \/ info[k].rewrite
       \/ /\ Room(Len(info[k].replies))
          /\ sqi[ii].umsgid # x[sqi[k].ofs].replies[Len(info[k].replies) + 1]
  /\ info2[ii].replies = info[ii].replies
  /\ info2[ii].replyto = sqi[k].umsgid
  /\ info2[ii].rewrite <=> info[ii].rewrite \/ sqi[k].umsgid # x[sqi[ii].ofs].replyto
  /\ \A e \in 1 .. Len(sqi) : e # k /\ e # ii => info2[e] = info[e]

LEMMA LinkPairEntries ==
  ASSUME Area, NEW x, NEW k \in 1 .. Len(sqi), NEW ii \in 1 .. Len(sqi),
         NEW info \in [1 .. Len(sqi) -> Info], IsReply(ii, k)
  PROVE  PairLinked(x, info, LinkPair(x, info, k, ii), k, ii)
<1> DEFINE info2 == LinkPair(x, info, k, ii)
<1> DEFINE full == Len(info[k].replies)
           replies2 == IF Room(full) THEN Append(info[k].replies, sqi[ii].umsgid)
                       ELSE info[k].replies
           b1 == Room(full) /\ sqi[ii].umsgid # x[sqi[k].ofs].replies[full + 1]
           b2 == sqi[k].umsgid # x[sqi[ii].ofs].replyto
           id == sqi[k].umsgid
<1>1. info2 = [info EXCEPT ![k].replies = replies2, ![k].rewrite = @ \/ b1,
                           ![ii].replyto = id, ![ii].rewrite = @ \/ b2]
  BY DEF LinkPair
<1>2. k # ii
  BY DEF IsReply
<1>3. info[k] \in Info /\ info[ii] \in Info
  OBVIOUS
<1> HIDE DEF info2, full, replies2, b1, b2, id
<1>4. /\ info2[k] = [info[k] EXCEPT !.replies = replies2, !.rewrite = @ \/ b1]
      /\ info2[ii] = [info[ii] EXCEPT !.replyto = id, !.rewrite = @ \/ b2]
      /\ \A e \in 1 .. Len(sqi) : e # k /\ e # ii => info2[e] = info[e]
  BY <1>1, <1>2
<1>5. /\ info2[k].replyto = info[k].replyto /\ info2[k].replies = replies2
      /\ info2[k].rewrite = (info[k].rewrite \/ b1)
      /\ info2[ii].replies = info[ii].replies /\ info2[ii].replyto = id
      /\ info2[ii].rewrite = (info[ii].rewrite \/ b2)
  BY <1>3, <1>4 DEF Info
<1> QED
  BY <1>4, <1>5 DEF PairLinked, info2, full, replies2, b1, b2, id

\* In every row the turns meet the replies to one entry in their order, and each reply
\* its parents from row to row.
LEMMA MetStep ==
  ASSUME Len(sqi) \in Nat,
         NEW k \in 1 .. Len(sqi), NEW ii \in 1 .. Len(sqi), NEW e \in 1 .. Len(sqi)
  PROVE  /\ RepliesMet(k, ii, e) =
              IF e = k /\ IsReply(ii, k) THEN RepliesMet(k, ii - 1, e) \cup {ii}
              ELSE RepliesMet(k, ii - 1, e)
         /\ ParentsMet(k, ii, e) =
              IF e = ii /\ IsReply(ii, k) THEN ParentsMet(k, ii - 1, e) \cup {k}
              ELSE ParentsMet(k, ii - 1, e)
         /\ e = k => \A q \in RepliesMet(k, ii - 1, e) : q < ii
         /\ e = ii => \A q \in ParentsMet(k, ii - 1, e) : q < k
<1>1. \A r \in 1 .. Len(sqi) :
         Compared(k, ii, e, r) <=> Compared(k, ii - 1, e, r) \/ (e = k /\ r = ii)
  BY DEF Compared
<1>2. \A p \in 1 .. Len(sqi) :
         Compared(k, ii, p, e) <=> Compared(k, ii - 1, p, e) \/ (e = ii /\ p = k)
  BY DEF Compared
<1>3. RepliesMet(k, ii, e) = IF e = k /\ IsReply(ii, k)
                             THEN RepliesMet(k, ii - 1, e) \cup {ii}
                             ELSE RepliesMet(k, ii - 1, e)
  BY <1>1 DEF RepliesMet
<1>4. ParentsMet(k, ii, e) = IF e = ii /\ IsReply(ii, k)
                             THEN ParentsMet(k, ii - 1, e) \cup {k}
                             ELSE ParentsMet(k, ii - 1, e)
  BY <1>2 DEF ParentsMet
<1>5. \A q \in 1 .. Len(sqi) : Compared(k, ii - 1, k, q) => q < ii
  BY DEF Compared
<1>6. \A q \in 1 .. Len(sqi) : Compared(k, ii - 1, q, ii) => q < k
  BY DEF Compared
<1> QED
  BY <1>3, <1>4, <1>5, <1>6 DEF RepliesMet, ParentsMet

LEMMA LinkPairFinds ==
  ASSUME Area, NEW x, NEW k \in 1 .. Len(sqi), NEW ii \in 1 .. Len(sqi),
         NEW info \in FoundAfter(x, k, ii - 1)
  PROVE  LinkPair(x, info, k, ii) \in FoundAfter(x, k, ii)
<1> DEFINE n == Len(sqi)
           info2 == LinkPair(x, info, k, ii)
<1>0. /\ n \in Nat /\ info \in [1 .. n -> Info]
      /\ \A e \in 1 .. n : EntryFound(sqi, info[e], x[sqi[e].ofs], RepliesMet(k, ii - 1, e),
                                      ParentsMet(k, ii - 1, e))
  BY AreaFacts DEF FoundAfter
<1>1. info2 \in [1 .. n -> Info]
  BY <1>0, LinkPairType
<1>2. CASE ~IsReply(ii, k)
  <2>1. info2 = info
    BY <1>2 DEF LinkPair
  <2>2. \A e \in 1 .. n : /\ RepliesMet(k, ii, e) = RepliesMet(k, ii - 1, e)
                          /\ ParentsMet(k, ii, e) = ParentsMet(k, ii - 1, e)
    BY <1>0, <1>2, MetStep
  <2> QED
    BY <1>0, <1>1, <2>1, <2>2 DEF FoundAfter
<1>3. CASE IsReply(ii, k)
  <2>0. info2 = LinkPair(x, info, k, ii) /\ info \in [1 .. Len(sqi) -> Info]
    BY <1>0
  <2> HIDE DEF info2
  <2>1. k # ii
    BY <1>3 DEF IsReply
  <2>2. PairLinked(x, info, info2, k, ii)
    BY <1>3, <2>0, LinkPairEntries
  <2>3. ASSUME NEW e \in 1 .. n
        PROVE  EntryFound(sqi, info2[e], x[sqi[e].ofs], RepliesMet(k, ii, e),
                          ParentsMet(k, ii, e))
    <3> DEFINE R == RepliesMet(k, ii - 1, e)
               P == ParentsMet(k, ii - 1, e)
    <3>0. /\ EntryFound(sqi, info[e], x[sqi[e].ofs], R, P) /\ info2[e] \in Info
          /\ R \in SUBSET (1 .. n) /\ P \in SUBSET (1 .. n)
      BY <1>0, <1>1 DEF RepliesMet, ParentsMet
    <3>1. CASE e = k
      <4>1. RepliesMet(k, ii, e) = R \cup {ii} /\ ParentsMet(k, ii, e) = P
            /\ \A q \in R : q < ii
        BY <3>1, <2>1, <1>0, <1>3, MetStep
      <4> HIDE DEF R, P
      <4>2. EntryFound(sqi, info2[e], x[sqi[e].ofs], R \cup {ii}, P)
        BY <3>0, <3>1, <4>1, <2>2, ReplyAdded DEF PairLinked
      <4> QED
        BY <4>1, <4>2
    <3>2. CASE e = ii
      <4>1. RepliesMet(k, ii, e) = R /\ ParentsMet(k, ii, e) = P \cup {k}
            /\ \A q \in P : q < k
        BY <3>2, <2>1, <1>0, <1>3, MetStep
      <4> HIDE DEF R, P
      <4>2. EntryFound(sqi, info2[e], x[sqi[e].ofs], R, P \cup {k})
        BY <3>0, <3>2, <4>1, <2>2, ParentAdded DEF PairLinked
      <4> QED
        BY <4>1, <4>2
    <3>3. CASE e # k /\ e # ii
      <4>1. RepliesMet(k, ii, e) = R /\ ParentsMet(k, ii, e) = P
        BY <3>3, <1>0, MetStep
      <4> QED
        BY <3>0, <3>3, <4>1, <2>2 DEF PairLinked
    <3> QED
      BY <3>1, <3>2, <3>3
  <2> QED
    BY <1>1, <2>3 DEF FoundAfter, info2
<1> QED
  BY <1>2, <1>3

\* What link finds for each entry: all its replies, as far as there is room for them,
\* and the last of its parents (linkarea.c:197-222).
LEMMA LinkAllFinds ==
  ASSUME Area, NEW x
  PROVE  /\ LinkAll(x) \in [1 .. Len(sqi) -> Info]
         /\ \A e \in 1 .. Len(sqi) :
              EntryFound(sqi, LinkAll(x)[e], x[sqi[e].ofs], RepliesOf(e), ParentsOf(e))
<1> DEFINE n == Len(sqi)
           T == [k \in 0 .. n |-> [ii \in 0 .. n |-> FoundAfter(x, k, ii)]]
<1>0. n \in Nat
  BY AreaFacts
<1>1. PICK turns : IsRun(turns, x)
  <2> DEFINE U == [1 .. n -> Info]
  <2>1. NothingFound \in U
    <3>1. [replies |-> << >>, replyto |-> 0, rewrite |-> FALSE] \in Info
      BY DwordFacts DEF Info
    <3> QED
      BY <3>1 DEF NothingFound
  <2>2. \A info \in U : \A k, ii \in 1 .. n : LinkPair(x, info, k, ii) \in U
    BY <1>0, LinkPairType
  <2> HIDE DEF U
  <2> QED
    BY <1>0, <2>1, <2>2, LinkAllRuns
<1>2. NothingFound \in FoundAfter(x, 0, n)
  <2>1. ASSUME NEW e \in 1 .. n
        PROVE  EntryFound(sqi, NothingFound[e], x[sqi[e].ofs], {}, {})
    <3> DEFINE none == [replies |-> << >>, replyto |-> 0, rewrite |-> FALSE]
    <3>1. none \in Info /\ Len(none.replies) = 0 /\ MAX_REPLY \in Nat \ {0}
      BY DwordFacts DEF Info
    <3>2. none.replyto = 0 /\ none.rewrite = FALSE
      OBVIOUS
    <3>3. Cardinality({}) = 0
      BY FS_EmptySet
    <3>4. NothingFound[e] = none
      BY DEF NothingFound
    <3> HIDE DEF none
    <3> QED
      BY <3>1, <3>2, <3>3, <3>4 DEF EntryFound
  <2>2. \A e \in 1 .. n : RepliesMet(0, n, e) = {} /\ ParentsMet(0, n, e) = {}
    BY <1>0 DEF RepliesMet, ParentsMet, Compared
  <2>3. NothingFound \in [1 .. n -> Info]
    <3>1. [replies |-> << >>, replyto |-> 0, rewrite |-> FALSE] \in Info
      BY DwordFacts DEF Info
    <3> QED
      BY <3>1 DEF NothingFound
  <2> QED
    BY <2>1, <2>2, <2>3 DEF FoundAfter
<1>3. \A k \in 1 .. n : FoundAfter(x, k - 1, n) \subseteq FoundAfter(x, k, 0)
  <2> TAKE k \in 1 .. n
  <2>1. \A e, f \in 1 .. n : Compared(k - 1, n, e, f) <=> Compared(k, 0, e, f)
    BY <1>0 DEF Compared
  <2>2. \A e \in 1 .. n : /\ RepliesMet(k - 1, n, e) = RepliesMet(k, 0, e)
                          /\ ParentsMet(k - 1, n, e) = ParentsMet(k, 0, e)
    BY <2>1 DEF RepliesMet, ParentsMet
  <2> QED
    BY <2>2 DEF FoundAfter
<1>4. \A k, ii \in 1 .. n : \A info \in FoundAfter(x, k, ii - 1) :
         LinkPair(x, info, k, ii) \in FoundAfter(x, k, ii)
  BY LinkPairFinds
<1>5. \A k, ii \in 0 .. n : T[k][ii] = FoundAfter(x, k, ii)
  OBVIOUS
<1>6. LinkAll(x) \in T[n][n]
  <2> HIDE DEF T
  <2>1. NothingFound \in T[0][n]
    BY <1>0, <1>2, <1>5
  <2>2. \A k \in 1 .. n : T[k - 1][n] \subseteq T[k][0]
    BY <1>0, <1>3, <1>5
  <2>3. \A k, ii \in 1 .. n : \A info \in T[k][ii - 1] :
          LinkPair(x, info, k, ii) \in T[k][ii]
    BY <1>0, <1>4, <1>5
  <2> QED
    BY <1>0, <1>1, <2>1, <2>2, <2>3, LinkAllInduction
<1>7. LinkAll(x) \in FoundAfter(x, n, n)
  BY <1>0, <1>5, <1>6
<1>8. \A e \in 1 .. n : RepliesMet(n, n, e) = RepliesOf(e) /\ ParentsMet(n, n, e) = ParentsOf(e)
  <2>1. \A e, f \in 1 .. n : Compared(n, n, e, f)
    BY <1>0 DEF Compared
  <2> QED
    BY <2>1 DEF RepliesMet, ParentsMet, RepliesOf, ParentsOf
<1> QED
  BY <1>7, <1>8 DEF FoundAfter

LEMMA LinkAllType ==
  ASSUME Area, NEW x
  PROVE  LinkAll(x) \in Seq(Info) /\ Len(LinkAll(x)) = Len(sqi)
<1>1. Len(sqi) \in Nat /\ LinkAll(x) \in [1 .. Len(sqi) -> Info]
  BY AreaFacts, LinkAllFinds
<1> QED
  BY <1>1

-----------------------------------------------------------------------------
(* What is in memory. *)

\* Memory, as far as it does not depend on the files but for uid.
LEMMA MemoryFacts ==
  ASSUME IInv
  PROVE  /\ lastuid \in 0 .. uid - 1 /\ uid \in Nat \ {0} /\ moved \in BOOLEAN
         /\ msginfo \in Seq(Info)
         /\ runs \in 0 .. MaxRuns /\ crashes \in 0 .. MaxCrashes
         /\ sorted \subseteq Frames /\ pc \in PCs
BY AreaFacts DEF IInv, Memory

LEMMA CalledType ==
  ASSUME runs \in 0 .. MaxRuns, Called
  PROVE  runs' \in 0 .. MaxRuns
BY BoundsAssumption DEF Called

LEMMA MemoryKeptBySort ==
  ASSUME IInv, Sort
  PROVE  Memory'
<1>0. Memory /\ Area
  BY DEF IInv
<1>1. /\ runs' \in 0 .. MaxRuns /\ crashes' \in 0 .. MaxCrashes
      /\ msginfo' = msginfo /\ msginfo' \in Seq(Info) /\ i' = i
  BY MemoryFacts, CalledType DEF Sort, linkMemory
<1>2. sorted' \subseteq Frames
  <2>1. CASE Sorted
    <3>1. sorted' = {sqi[k].ofs : k \in Lastread(before) + 1 .. Len(sqi)}
      BY <2>1 DEF Sort
    <3>2. ReadPart \in Nat /\ \A k \in 1 .. Len(sqi) : sqi[k].ofs \in Frames
      BY <2>1, <1>0, ProgressFacts, AreaFacts DEF Sorted, Sorting
    <3>3. \A k \in ReadPart + 1 .. Len(sqi) : k \in 1 .. Len(sqi)
      BY <3>2
    <3> QED
      BY <3>1, <3>2, <3>3 DEF ReadPart
  <2>2. CASE ~Sorted
    BY <2>2, MemoryFacts DEF Sort
  <2> QED
    BY <2>1, <2>2
<1>3. CASE ReadSql
  <2>1. /\ pc = "idle" /\ pc' = "sort"
        /\ lastuid' = Max({sql[u] : u \in Users} \cup {0})
        /\ UNCHANGED << sql, uid, sqsort, idxPos, first, before, moved >>
    BY <1>3 DEF ReadSql, files, sortHistory
  <2>2. lastuid' \in 0 .. uid' - 1 /\ \A u \in Users : sql'[u] <= lastuid'
    BY <2>1, <1>0, MaxOfReads
  <2>3. moved = FALSE /\ sqsort = << >> /\ idxPos = 0 /\ first = 0 /\ before = << >>
        /\ msginfo = << >> /\ i = 0
    BY <2>1, <1>0 DEF Memory, Sorting
  <2> QED
    BY <1>1, <1>2, <2>1, <2>2, <2>3 DEF Memory, Sorting
<1>4. CASE LockToSort \/ WriteXmsg \/ WriteSqidx
  <2>1. /\ pc \in {"sort", "sortmsg", "sortidx"} /\ pc' \in {"sortmsg", "sortidx"}
        /\ UNCHANGED << sql, uid, lastuid, moved >>
    BY <1>4 DEF LockToSort, WriteXmsg, WriteSqidx, files, sortMemory, sortHistory
  <2>2. msginfo = << >> /\ i = 0
    BY <2>1, <1>0 DEF Memory
  <2>3. ~moved => \A u \in Users : sql[u] <= lastuid
    BY <2>1, <1>0 DEF Memory
  <2>4. Sorting'
    BY <2>1 DEF Sorting
  <2> QED
    BY <1>1, <1>2, <2>1, <2>2, <2>3, <2>4, MemoryFacts DEF Memory
<1>5. CASE SortLocked \/ CloseSorted
  <2>1. /\ pc \in {"sort", "sortmsg"} /\ pc' = "idle" /\ uid' = uid
        /\ lastuid' = 0 /\ sqsort' = << >> /\ idxPos' = 0 /\ first' = 0
        /\ before' = << >> /\ moved' = FALSE
    BY <1>5 DEF SortLocked, CloseSorted, Sorted, EndSort, files
  <2>2. msginfo = << >> /\ i = 0
    BY <2>1, <1>0 DEF Memory
  <2>3. 0 \in 0 .. uid' - 1
    BY <2>1, MemoryFacts
  <2> QED
    BY <1>1, <1>2, <2>1, <2>2, <2>3 DEF Memory, Sorting
<1> QED
  BY <1>3, <1>4, <1>5 DEF Sort, SortStep

LEMMA MemoryKeptByLink ==
  ASSUME IInv, Link
  PROVE  Memory'
<1>0. Memory /\ Area
  BY DEF IInv
<1>1. /\ runs' \in 0 .. MaxRuns /\ crashes' \in 0 .. MaxCrashes /\ sorted' \subseteq Frames
      /\ UNCHANGED << lastuid, sqsort, idxPos, first, before, moved >>
  BY MemoryFacts, CalledType DEF Link, sortMemory, sortHistory
<1>2. pc \in {"idle", "link"} /\ pc' \in {"idle", "link"}
  BY DEF Link, LinkStep, ReadMsgs, WriteLinks, Unlock, LinkDone, EndLink
<1>3. uid' = uid /\ sqi' = sqi
  BY DEF Link, LinkStep, ReadMsgs, WriteLinks, Unlock, files
<1>4. /\ lastuid = 0 /\ moved = FALSE /\ sqsort = << >> /\ idxPos = 0 /\ first = 0
      /\ before = << >>
  BY <1>0, <1>2 DEF Memory, Sorting
<1>5. 0 \in 0 .. uid' - 1
  BY <1>3, MemoryFacts
<1>6. CASE ReadMsgs
  <2>1. msginfo' = LinkAll(xmsg) /\ i' = 1 /\ pc' = "link"
    BY <1>6 DEF ReadMsgs
  <2>2. msginfo' \in Seq(Info) /\ Len(msginfo') = Len(sqi') /\ i' \in 1 .. Len(sqi') + 1
    BY <2>1, <1>0, <1>3, LinkAllType, AreaFacts
  <2> QED
    BY <1>1, <1>4, <1>5, <2>1, <2>2 DEF Memory, Sorting
<1>7. CASE WriteLinks
  <2>1. pc = "link" /\ pc' = "link" /\ i \in 1 .. Len(sqi) /\ i' = i + 1 /\ msginfo' = msginfo
    BY <1>7, WriteLinksFacts
  <2>2. Len(msginfo') = Len(sqi') /\ i' \in 1 .. Len(sqi') + 1
    BY <2>1, <1>0, <1>3, AreaFacts DEF Memory
  <2> QED
    BY <1>1, <1>4, <1>5, <2>1, <2>2, MemoryFacts DEF Memory, Sorting
<1>8. CASE Unlock
  <2>1. msginfo' = << >> /\ i' = 0 /\ pc' = "idle"
    BY <1>8 DEF Unlock, EndLink
  <2>2. << >> \in Seq(Info)
    OBVIOUS
  <2> QED
    BY <1>1, <1>4, <1>5, <2>1, <2>2 DEF Memory, Sorting
<1> QED
  BY <1>6, <1>7, <1>8 DEF Link, LinkStep

LEMMA MemoryKeptByOther ==
  ASSUME IInv, Other
  PROVE  Memory'
<1>0. Memory /\ Area
  BY DEF IInv
<1>1. /\ UNCHANGED << pc, lastuid, sqsort, idxPos, first, before, msginfo, i, runs, crashes >>
  BY DEF Other, sortMemory, linkMemory
<1>2. CASE \E f \in Frames : Toss(f) /\ UNCHANGED << sorted, moved >>
  <2>1. PICK f \in Frames : Toss(f) /\ UNCHANGED << sorted, moved >>
    BY <1>2
  <2>2. pc \in {"idle", "sort"} /\ sql' = sql /\ uid' = uid + 1
    BY <2>1 DEF Toss, Unlocked
  <2>3. lastuid \in 0 .. uid' - 1
    BY <2>2, MemoryFacts
  <2> QED
    BY <1>0, <1>1, <2>1, <2>2, <2>3 DEF Memory, Sorting
<1>3. CASE \E k \in 1 .. Len(sqi) : (Purge(k) \/ PurgeDies(k)) /\ sorted' = {}
                                    /\ UNCHANGED moved
  <2>1. pc \in {"idle", "sort"} /\ sql' = sql /\ uid' = uid /\ sorted' = {} /\ moved' = moved
    BY <1>3 DEF Purge, PurgeDies, Unlocked
  <2> QED
    BY <1>0, <1>1, <2>1 DEF Memory, Sorting
<1>4. CASE \E u \in Users, k \in 1 .. Len(sqi) :
             ReadOn(u, k) /\ moved' = (Sorting \/ pc = "sort") /\ UNCHANGED sorted
  <2>1. /\ moved' = (Sorting \/ pc = "sort") /\ sorted' = sorted
        /\ uid' = uid /\ sqi' = sqi
    BY <1>4 DEF ReadOn
  <2>2. pc \notin {"sort", "sortmsg", "sortidx"} => moved' = FALSE
    BY <2>1 DEF Sorting
  <2>3. pc \in {"sort", "sortmsg", "sortidx"} => moved'
    BY <2>1 DEF Sorting
  <2>4. moved' \in BOOLEAN
    BY <2>1
  <2> QED
    BY <1>0, <1>1, <2>1, <2>2, <2>3, <2>4 DEF Memory, Sorting
<1> QED
  BY <1>2, <1>3, <1>4, Zenon DEF Other

LEMMA MemoryInvariance ==
  ASSUME IInv, [Next]_vars
  PROVE  Memory'
<1>1. CASE Crash
  <2>1. /\ pc' = "idle" /\ uid' = uid
        /\ lastuid' = 0 /\ sqsort' = << >> /\ idxPos' = 0 /\ first' = 0
        /\ before' = << >> /\ moved' = FALSE
        /\ msginfo' = << >> /\ i' = 0 /\ runs' = runs
        /\ crashes < MaxCrashes /\ crashes' = crashes + 1
    BY <1>1 DEF Crash, EndSort, EndLink, files
  <2>2. crashes' \in 0 .. MaxCrashes
    BY <2>1, MemoryFacts, BoundsAssumption
  <2>3. sorted' \subseteq Frames
    BY <1>1, MemoryFacts DEF Crash
  <2>4. 0 \in 0 .. uid' - 1 /\ << >> \in Seq(Info)
    BY <2>1, MemoryFacts
  <2> QED
    BY <2>1, <2>2, <2>3, <2>4, MemoryFacts DEF Memory, Sorting
<1>2. CASE UNCHANGED vars
  BY <1>2 DEF IInv, Memory, Sorting, vars, files, sortMemory, sortHistory, linkMemory
<1> QED
  BY <1>1, <1>2, MemoryKeptBySort, MemoryKeptByLink, MemoryKeptByOther DEF Next

-----------------------------------------------------------------------------
(* How a sort goes on. *)

SortState == << frame, xmsg, uid, sqi, text, pc, sortMemory, before >>

\* A sort begins when the lock is taken; until it ends or dies, only its own writes
\* touch what it works on.
LEMMA SortingStep ==
  ASSUME IInv, [Next]_vars, Sorting'
  PROVE  \/ LockToSort
         \/ WriteXmsg
         \/ WriteSqidx
         \/ Sorting /\ UNCHANGED SortState
<1>1. CASE Sort
  <2>1. ReadSql \/ SortLocked \/ CloseSorted => ~Sorting'
    BY DEF ReadSql, SortLocked, CloseSorted, EndSort, Sorting
  <2> QED
    BY <1>1, <2>1 DEF Sort, SortStep
<1>2. CASE Link
  BY <1>2 DEF Link, LinkStep, ReadMsgs, WriteLinks, Unlock, EndLink, Sorting
<1>3. CASE Other
  <2>1. pc' = pc /\ sortMemory' = sortMemory /\ before' = before /\ Sorting
    BY <1>3 DEF Other, Sorting
  <2>2. ~Unlocked
    BY <2>1 DEF Unlocked, Sorting
  <2>3. \E u \in Users, k \in 1 .. Len(sqi) : ReadOn(u, k)
    BY <1>3, <2>2, Zenon DEF Other, Toss, Purge, PurgeDies
  <2> QED
    BY <2>1, <2>3 DEF ReadOn, SortState
<1>4. CASE Crash
  BY <1>4 DEF Crash, EndSort, Sorting
<1>5. CASE UNCHANGED vars
  BY <1>5 DEF vars, files, sortHistory, SortState, Sorting, sortMemory
<1> QED
  BY <1>1, <1>2, <1>3, <1>4, <1>5 DEF Next

\* The new order does not change on the way.
LEMMA OrderKept ==
  ASSUME UNCHANGED << lastuid, before, text >>
  PROVE  /\ ReadPart' = ReadPart /\ Ordered' = Ordered /\ Unsorted' = Unsorted
         /\ \A k : NewUmsgid(k)' = NewUmsgid(k)
<1>1. ReadPart' = ReadPart
  BY DEF ReadPart, Lastread, SelectInSeq
<1>2. Unsorted' = Unsorted
  BY <1>1 DEF Unsorted, Behind
<1> QED
  BY <1>1, <1>2 DEF Ordered, NewUmsgid

LEMMA ProgressAtLock ==
  ASSUME IInv, LockToSort
  PROVE  Progress' /\ Written' /\ Renumbered'
<1> DEFINE n == Lastread(sqi)
           msgs == Behind(sqi, n)
<1>0. Area
  BY DEF IInv
<1>1. /\ idxPos' = n /\ sqsort' = SortByDate(msgs)
      /\ first' = IF n < Len(sqi) THEN sqi[n + 1].umsgid ELSE 0
      /\ before' = sqi /\ pc' = "sortmsg"
      /\ UNCHANGED << frame, xmsg, uid, sqi, sql, text, lastuid, moved >>
  BY DEF LockToSort, files
<1>2. /\ sqi \in Seq(SQIDX) /\ Len(sqi) \in Nat /\ text \in Texts /\ n \in 0 .. Len(sqi)
      /\ \A k \in 1 .. Len(sqi) : sqi[k].umsgid \in 1 .. uid - 1
      /\ uid \in Nat
  BY <1>0, AreaFacts, LastreadProperties
<1>3. msgs \in Seq(Msg) /\ Len(msgs) = Len(sqi) - n
  BY <1>2, BehindProperties
<1>4. SortByDate(msgs) \in Seq(Msg) /\ Len(SortByDate(msgs)) = Len(sqi) - n
  <2> HIDE DEF msgs
  <2> QED
    BY <1>3, TimesAreNumbers, SortByDateSorts DEF IsSortOf
<1>5. ReadPart' = n /\ Ordered' = SortByDate(msgs)
  <2>1. ReadPart' = n
    BY <1>1 DEF ReadPart, Lastread, SelectInSeq
  <2>2. Unsorted' = msgs
    BY <1>1, <2>1 DEF Unsorted, Behind
  <2> QED
    BY <2>1, <2>2 DEF Ordered
<1> HIDE DEF n, msgs
<1>6. first' \in 0 .. uid'
  <2>1. CASE n < Len(sqi)
    <3>1. n + 1 \in 1 .. Len(sqi)
      BY <2>1, <1>2
    <3> QED
      BY <2>1, <3>1, <1>1, <1>2
  <2>2. CASE ~(n < Len(sqi))
    BY <2>2, <1>1, <1>2
  <2> QED
    BY <2>1, <2>2
<1>7. n < Len(sqi) => first' = (NewUmsgid(idxPos + 1))' /\ first' <= before'[idxPos' + 1].umsgid
  <2> SUFFICES ASSUME n < Len(sqi)
               PROVE  first' = (NewUmsgid(idxPos + 1))' /\ first' <= before'[idxPos' + 1].umsgid
    OBVIOUS
  <2>1. n + 1 \in 1 .. Len(sqi) /\ sqi[n + 1].umsgid \in Int /\ n \in Int
    BY <1>2
  <2>2. first' = sqi[n + 1].umsgid
    BY <1>1
  <2>3. (NewUmsgid(idxPos + 1))' = sqi[n + 1].umsgid + (n + 1) - n - 1
    BY <1>1, <1>5 DEF NewUmsgid
  <2> QED
    BY <2>1, <2>2, <2>3, <1>1
<1>8. n < Len(sqi) => \A k \in 1 .. n : sqi[k].umsgid < first'
  <2> SUFFICES ASSUME n < Len(sqi), NEW k \in 1 .. n PROVE sqi[k].umsgid < first'
    OBVIOUS
  <2>1. k \in 1 .. Len(sqi) /\ n + 1 \in 1 .. Len(sqi) /\ k < n + 1
    BY <1>2
  <2> QED
    BY <2>1, <1>0, <1>1 DEF Area
<1>9. Progress'
  <2>1. \A k \in 1 .. Len(sqsort') : sqsort'[k] = Ordered'[idxPos' - ReadPart' + k]
    <3>1. \A k \in 1 .. Len(sqsort') : idxPos' - ReadPart' + k = k
      BY <1>1, <1>2, <1>4, <1>5
    <3> QED
      BY <3>1, <1>1, <1>5
  <2> QED
    BY <2>1, <1>1, <1>2, <1>4, <1>5, <1>6, <1>7, <1>8 DEF Progress
<1>10. Written'
  <2>1. \A k \in 1 .. Len(before') : ~(ReadPart' < k /\ k <= idxPos')
    BY <1>1, <1>2, <1>5
  <2>2. \A k \in 1 .. Len(before') : sqi'[k] = before'[k]
    BY <1>1
  <2>3. \A k \in 1 .. Len(before') : before'[k].umsgid >= 1
    BY <1>1, <1>2
  <2>4. \A j, k \in 1 .. Len(before') : j < k => before'[j].umsgid < before'[k].umsgid
    BY <1>0, <1>1 DEF Area
  <2> QED
    BY <2>1, <2>2, <2>3, <2>4 DEF Written
<1>11. Renumbered'
  <2>1. \A k \in ReadPart' + 1 .. Len(before') :
           ~(k <= idxPos' \/ (k = idxPos' + 1 /\ pc' = "sortidx"))
    BY <1>1, <1>2, <1>5
  <2> QED
    BY <2>1 DEF Renumbered
<1> QED
  BY <1>9, <1>10, <1>11

LEMMA ProgressAtWriteXmsg ==
  ASSUME IInv, WriteXmsg
  PROVE  Progress' /\ Written' /\ Renumbered'
<1>0. Progress /\ Written /\ Renumbered
  BY WriteXmsgFacts DEF IInv
<1>1. /\ Sorting /\ pc = "sortmsg" /\ pc' = "sortidx" /\ idxPos < Len(before)
      /\ xmsg' = [xmsg EXCEPT ![sqsort[1].ofs] = Unlinked(first)]
      /\ UNCHANGED << frame, uid, sqi, sql, text, lastuid, sqsort, idxPos, first, before >>
  BY WriteXmsgFacts DEF sortMemory, sortHistory
<1>2. /\ ReadPart' = ReadPart /\ Ordered' = Ordered
      /\ \A k : NewUmsgid(k)' = NewUmsgid(k)
  BY <1>1, OrderKept
<1>3. Progress'
  BY <1>0, <1>1, <1>2 DEF Progress
<1>4. Written'
  BY <1>0, <1>1, <1>2 DEF Written
<1>5. ASSUME NoDuplicates(before), NEW k \in ReadPart + 1 .. Len(before), k <= idxPos + 1
      PROVE  xmsg'[Ordered[k - ReadPart].ofs] = Unlinked(NewUmsgid(k))
  <2>1. xmsg \in [Frames -> XMSG]
    BY AreaFacts DEF IInv
  <2>2. /\ sqsort[1] = Ordered[idxPos + 1 - ReadPart] /\ first = NewUmsgid(idxPos + 1)
        /\ sqsort[1].ofs \in Frames
    BY <1>1, NextToWrite
  <2>3. /\ k - ReadPart \in 1 .. Len(before) - ReadPart
        /\ idxPos + 1 - ReadPart \in 1 .. Len(before) - ReadPart
        /\ k \in Int /\ idxPos \in Int /\ ReadPart \in Int
    BY <1>1, NextToWrite, ProgressFacts
  <2>4. CASE k = idxPos + 1
    <3>1. Ordered[k - ReadPart] = sqsort[1] /\ NewUmsgid(k) = first
      <4>1. k - ReadPart = idxPos + 1 - ReadPart
        BY <2>3, <2>4
      <4>2. NewUmsgid(k) = NewUmsgid(idxPos + 1)
        BY <2>4 DEF NewUmsgid
      <4> QED
        BY <2>2, <4>1, <4>2
    <3>2. xmsg'[sqsort[1].ofs] = Unlinked(first)
      BY <2>1, <2>2, <1>1
    <3> QED
      BY <3>1, <3>2
  <2>5. CASE k # idxPos + 1
    <3>1. xmsg[Ordered[k - ReadPart].ofs] = Unlinked(NewUmsgid(k))
      BY <2>3, <2>5, <1>0, <1>5 DEF Renumbered
    <3>2. Ordered[k - ReadPart].ofs # Ordered[idxPos + 1 - ReadPart].ofs
      <4>1. Ordered[k - ReadPart].ofs = Ordered[idxPos + 1 - ReadPart].ofs
              => k - ReadPart = idxPos + 1 - ReadPart
        BY <2>3, <1>1, <1>5, ProgressFacts, OrderedDistinct
      <4> QED
        BY <4>1, <2>3, <2>5
    <3>3. Ordered[k - ReadPart].ofs \in Frames
      BY <2>3, <1>1, ProgressFacts, OrderedFromUnsorted
    <3> QED
      BY <3>1, <3>2, <3>3, <2>1, <2>2, <1>1
  <2> QED
    BY <2>4, <2>5
<1>6. Renumbered'
  <2> SUFFICES ASSUME NoDuplicates(before'), NEW k \in ReadPart' + 1 .. Len(before'),
                      k <= idxPos' \/ (k = idxPos' + 1 /\ pc' = "sortidx")
               PROVE  xmsg'[Ordered'[k - ReadPart'].ofs] = Unlinked(NewUmsgid(k))'
    BY DEF Renumbered
  <2>1. NoDuplicates(before) /\ k \in ReadPart + 1 .. Len(before)
    BY <1>1, <1>2
  <2>2. k \in Int /\ idxPos \in Int
    BY <2>1, <1>1, ProgressFacts
  <2>3. k <= idxPos + 1
    BY <2>2, <1>1
  <2>4. xmsg'[Ordered[k - ReadPart].ofs] = Unlinked(NewUmsgid(k))
    BY <2>1, <2>3, <1>5
  <2>5. Unlinked(NewUmsgid(k))' = Unlinked(NewUmsgid(k))
    BY <1>2 DEF Unlinked, NoReplies
  <2> QED
    BY <2>4, <2>5, <1>2
<1> QED
  BY <1>3, <1>4, <1>6

LEMMA ProgressAtWriteSqidx ==
  ASSUME IInv, WriteSqidx
  PROVE  Progress' /\ Written' /\ Renumbered'
<1>0. Progress /\ Written /\ Renumbered /\ Area
  BY WriteSqidxFacts DEF IInv
<1>1. ReadPart' = ReadPart /\ Ordered' = Ordered /\ \A k : NewUmsgid(k)' = NewUmsgid(k)
  BY WriteSqidxFacts, OrderKept
<1>2. /\ ReadPart \in Int /\ idxPos \in Int /\ Len(before) \in Nat /\ first \in Int
      /\ idxPos < Len(before) /\ ReadPart <= idxPos /\ ReadPart >= 0 /\ uid \in Int
  BY <1>0, WriteSqidxFacts, ProgressFacts, AreaFacts
<1>3. /\ sqsort' \in Seq(Msg) /\ Len(sqsort') = Len(before') - idxPos'
      /\ \A k \in 1 .. Len(sqsort') : sqsort'[k] = sqsort[k + 1]
  <2>1. sqsort \in Seq(Msg) /\ sqsort # << >> /\ Len(sqsort) = Len(before) - idxPos
    BY <1>2, WriteSqidxFacts, ProgressFacts
  <2>2. /\ Tail(sqsort) \in Seq(Msg) /\ Len(Tail(sqsort)) = Len(sqsort) - 1
        /\ \A k \in 1 .. Len(sqsort) - 1 : Tail(sqsort)[k] = sqsort[k + 1]
    BY <2>1, HeadTailProperties
  <2>3. sqsort' = Tail(sqsort) /\ before' = before /\ idxPos' = idxPos + 1
    BY WriteSqidxFacts
  <2>4. Len(sqsort) - 1 = Len(before') - idxPos'
    BY <2>1, <2>3, <1>2
  <2> QED
    BY <2>2, <2>3, <2>4
<1>4. \A k \in 1 .. Len(sqsort') : sqsort'[k] = Ordered'[idxPos' - ReadPart' + k]
  <2> SUFFICES ASSUME NEW k \in 1 .. Len(sqsort')
               PROVE  sqsort'[k] = Ordered'[idxPos' - ReadPart' + k]
    OBVIOUS
  <2>1. k + 1 \in 1 .. Len(sqsort)
    BY <1>2, <1>3, WriteSqidxFacts, ProgressFacts
  <2>2. sqsort[k + 1] = Ordered[idxPos - ReadPart + (k + 1)]
    BY <2>1, <1>0 DEF Progress
  <2>3. idxPos' - ReadPart' + k = idxPos - ReadPart + (k + 1)
    BY <1>1, <1>2, WriteSqidxFacts
  <2> QED
    BY <2>2, <2>3, <1>1, <1>3
<1>5. first' \in 0 .. uid'
  BY <1>2, WriteSqidxFacts, NextToWrite
<1>6. first' = NewUmsgid(idxPos' + 1)
  <2>1. first = NewUmsgid(idxPos + 1)
    BY WriteSqidxFacts, NextToWrite
  <2>2. before[ReadPart + 1].umsgid \in Int
    <3>1. ReadPart + 1 \in 1 .. Len(before)
      BY <1>2
    <3> QED
      BY <3>1, WriteSqidxFacts, ProgressFacts
  <2>3. first' = first + 1 /\ idxPos' = idxPos + 1
    BY WriteSqidxFacts
  <2>4. /\ NewUmsgid(idxPos + 1) = before[ReadPart + 1].umsgid + (idxPos + 1) - ReadPart - 1
        /\ NewUmsgid(idxPos' + 1)
             = before[ReadPart + 1].umsgid + ((idxPos + 1) + 1) - ReadPart - 1
    BY <2>3 DEF NewUmsgid
  <2> QED
    BY <2>1, <2>2, <2>3, <2>4, <1>2
<1>7. ASSUME idxPos' < Len(before')
      PROVE  /\ first' <= before'[idxPos' + 1].umsgid
             /\ \A k \in 1 .. idxPos' : sqi'[k].umsgid < first'
  <2>1. /\ idxPos + 1 \in 1 .. Len(before) /\ idxPos + 2 \in 1 .. Len(before)
        /\ idxPos + 1 < idxPos + 2
    BY <1>2, <1>7, WriteSqidxFacts
  <2>2. /\ before[idxPos + 1].umsgid < before[idxPos + 2].umsgid
        /\ before[idxPos + 1].umsgid \in Int /\ before[idxPos + 2].umsgid \in Int
    BY <2>1, <1>0, WriteSqidxFacts, ProgressFacts DEF Written
  <2>3. first <= before[idxPos + 1].umsgid
    BY WriteSqidxFacts, NextToWrite
  <2>4. idxPos' + 1 = idxPos + 2 /\ before' = before /\ first' = first + 1
    BY <1>2, WriteSqidxFacts
  <2>5. first' <= before'[idxPos' + 1].umsgid
    BY <2>2, <2>3, <2>4, <1>2
  <2>6. ASSUME NEW k \in 1 .. idxPos' PROVE sqi'[k].umsgid < first'
    <3>1. k \in 1 .. idxPos + 1 /\ k \in 1 .. Len(sqi)
      BY <1>2, WriteSqidxFacts, ProgressFacts
    <3>2. CASE k = idxPos + 1
      BY <3>2, <1>2, WriteSqidxFacts
    <3>3. CASE k # idxPos + 1
      <4>1. k \in 1 .. idxPos /\ sqi'[k] = sqi[k]
        BY <3>1, <3>3, <1>2, WriteSqidxFacts
      <4>2. sqi[k].umsgid < first /\ sqi[k].umsgid \in Int
        BY <4>1, <3>1, <1>0, WriteSqidxFacts, NextToWrite, AreaFacts
      <4> QED
        BY <4>1, <4>2, <2>4, <1>2
    <3> QED
      BY <3>2, <3>3
  <2> QED
    BY <2>5, <2>6
<1>8. Progress'
  <2>1. /\ before' \in Seq(SQIDX) /\ Len(sqi') = Len(before')
        /\ idxPos' \in ReadPart' .. Len(before') /\ pc' # "sortidx"
    BY <1>1, <1>2, WriteSqidxFacts, ProgressFacts
  <2>2. first' = (NewUmsgid(idxPos + 1))'
    BY <1>1, <1>6, WriteSqidxFacts DEF NewUmsgid
  <2> QED
    BY <2>1, <2>2, <1>3, <1>4, <1>5, <1>7 DEF Progress
<1>9. Written'
  <2>1. ASSUME NEW k \in 1 .. Len(before)
        PROVE  IF ReadPart < k /\ k <= idxPos + 1
               THEN sqi'[k].ofs = Ordered[k - ReadPart].ofs
                    /\ sqi'[k].umsgid = NewUmsgid(k)
               ELSE sqi'[k] = before[k]
    <3>1. CASE k = idxPos + 1
      BY <3>1, <1>2, WriteSqidxFacts, NextToWrite
    <3>2. CASE k # idxPos + 1
      <4>1. sqi'[k] = sqi[k]
        BY <3>2, WriteSqidxFacts, ProgressFacts
      <4>2. k <= idxPos <=> k <= idxPos + 1
        BY <3>2, <1>2
      <4> QED
        BY <4>1, <4>2, <1>0 DEF Written
    <3> QED
      BY <3>1, <3>2
  <2> QED
    BY <2>1, <1>0, <1>1, WriteSqidxFacts DEF Written
<1>10. Renumbered'
  <2> SUFFICES ASSUME NoDuplicates(before'), NEW k \in ReadPart' + 1 .. Len(before'),
                      k <= idxPos' \/ (k = idxPos' + 1 /\ pc' = "sortidx")
               PROVE  xmsg'[Ordered'[k - ReadPart'].ofs] = Unlinked(NewUmsgid(k))'
    BY DEF Renumbered
  <2>1. /\ NoDuplicates(before) /\ k \in ReadPart + 1 .. Len(before) /\ k \in Int
        /\ k <= idxPos + 1 /\ pc = "sortidx"
    BY <1>1, <1>2, WriteSqidxFacts DEF WriteSqidx
  <2>2. xmsg[Ordered[k - ReadPart].ofs] = Unlinked(NewUmsgid(k))
    <3>1. k <= idxPos \/ (k = idxPos + 1 /\ pc = "sortidx")
      BY <2>1, <1>2
    <3> QED
      BY <3>1, <2>1, <1>0 DEF Renumbered
  <2>3. Unlinked(NewUmsgid(k))' = Unlinked(NewUmsgid(k))
    BY <1>1 DEF Unlinked, NoReplies
  <2> QED
    BY <2>2, <2>3, <1>1, WriteSqidxFacts
<1> QED
  BY <1>8, <1>9, <1>10

LEMMA ProgressKept ==
  ASSUME IInv, Sorting, UNCHANGED SortState
  PROVE  Progress' /\ Written' /\ Renumbered'
<1>0. Progress /\ Written /\ Renumbered
  BY DEF IInv
<1>1. UNCHANGED << frame, xmsg, uid, sqi, text, pc, lastuid, sqsort, idxPos, first, before >>
  BY DEF SortState, sortMemory
<1>2. ReadPart' = ReadPart /\ Ordered' = Ordered /\ \A k : NewUmsgid(k)' = NewUmsgid(k)
  BY <1>1, OrderKept
<1>3. Progress'
  BY <1>0, <1>1, <1>2 DEF Progress
<1>4. Written'
  BY <1>0, <1>1, <1>2 DEF Written
<1>5. Renumbered'
  BY <1>0, <1>1, <1>2 DEF Renumbered, Unlinked, NoReplies
<1> QED
  BY <1>3, <1>4, <1>5

-----------------------------------------------------------------------------
(* The theorems about sort. *)

LEMMA InitInvariant == Init => IInv
<1> SUFFICES ASSUME Init PROVE IInv
  OBVIOUS
<1>1. PICK messages \in Texts : InitWith(messages)
  BY DEF Init
<1>2. /\ frame = [f \in Frames |-> "none"] /\ xmsg = [f \in Frames |-> Unlinked(0)]
      /\ uid = 1 /\ sqi = << >> /\ sql = [u \in Users |-> 0] /\ text = messages
      /\ pc = "idle"
      /\ lastuid = 0 /\ sqsort = << >> /\ idxPos = 0 /\ first = 0
      /\ before = << >> /\ moved = FALSE
      /\ msginfo = << >> /\ i = 0 /\ runs = 0 /\ crashes = 0 /\ sorted = {}
  BY <1>1 DEF InitWith, InitArea, NoSort, NoLink
<1>3. Len(sqi) = 0 /\ sqi \in Seq(SQIDX) /\ msginfo \in Seq(Info)
  BY <1>2
<1>4. xmsg \in [Frames -> XMSG]
  BY <1>2, UnlinkedType, DwordFacts
<1>5. uid \in 1 .. Dword - 1
  BY <1>2, DwordFacts
<1>6. AreaType
  BY <1>1, <1>2, <1>3, <1>4, <1>5, DwordFacts DEF AreaType, XMSG
<1>7. Cardinality(Tossed) \in Nat
  BY FramesAssumption, FS_Subset, FS_CardinalityType DEF Tossed
<1>8. Area
  BY <1>2, <1>3, <1>6, <1>7 DEF Area
<1>9. Memory
  <2>1. 0 \in 0 .. uid - 1 /\ 0 \in 0 .. MaxRuns /\ 0 \in 0 .. MaxCrashes
    BY <1>2, BoundsAssumption
  <2>2. /\ pc = "idle" /\ lastuid = 0 /\ sqsort = << >> /\ idxPos = 0 /\ first = 0
        /\ before = << >> /\ moved = FALSE /\ msginfo = << >> /\ i = 0
        /\ runs = 0 /\ crashes = 0 /\ sorted = {}
    BY <1>2
  <2> QED
    BY <2>1, <2>2, <1>3 DEF Memory
<1> QED
  BY <1>2, <1>8, <1>9 DEF IInv, Sorting

LEMMA NextInvariant == IInv /\ [Next]_vars => IInv'
<1> SUFFICES ASSUME IInv, [Next]_vars PROVE IInv'
  OBVIOUS
<1>1. Area' /\ Memory'
  BY AreaInvariance, MemoryInvariance
<1>2. Sorting' => Progress' /\ Written' /\ Renumbered'
  BY SortingStep, ProgressAtLock, ProgressAtWriteXmsg, ProgressAtWriteSqidx, ProgressKept
<1> QED
  BY <1>1, <1>2 DEF IInv

\* Sort and link keep the inductive invariant, whoever else works on the area, and
\* wherever they die.
THEOREM Invariance == Spec => []IInv
<1>1. Init => IInv
  BY InitInvariant
<1>2. IInv /\ [Next]_vars => IInv'
  BY NextInvariant
<1> QED
  BY <1>1, <1>2, PTL DEF Spec

\* At every moment all state is of its type: umsgids do not overflow, and sort and link
\* stay inside the index and inside what they have in memory.
THEOREM Typed == Spec => []TypeOK
<1>1. IInv => TypeOK
  <2> SUFFICES ASSUME IInv PROVE TypeOK
    OBVIOUS
  <2>1. Area /\ Memory /\ AreaType
    BY DEF IInv, Area
  <2>2. /\ uid \in 1 .. Dword - 1 /\ Dword \in Nat /\ Len(sqi) \in Nat
    BY <2>1, AreaFacts, DwordFacts
  <2>3. lastuid \in 0 .. Dword - 1
    BY <2>1, <2>2 DEF Memory
  <2>4. /\ idxPos \in 0 .. Len(sqi) /\ first \in 0 .. Dword - 1
        /\ sqsort \in Seq(Msg) /\ before \in Seq(SQIDX)
    <3>1. CASE Sorting
      BY <3>1, <2>2, ProgressFacts
    <3>2. CASE ~Sorting
      BY <3>2, <2>1, <2>2 DEF Memory
    <3> QED
      BY <3>1, <3>2
  <2>5. i \in 0 .. Len(sqi) + 1
    BY <2>1, <2>2 DEF Memory
  <2> QED
    BY <2>1, <2>3, <2>4, <2>5 DEF TypeOK, Memory, Info, Msg
<1> QED
  BY <1>1, Invariance, PTL

\* Index entries are in the order of their umsgids at every moment, also in the
\* middle of a sort or after one that died, and uid is above all of them
\* (sortarea.c:257, 140-151): the number that sort writes next is never above the one
\* that it overwrites.
THEOREM AscendAlways == Spec => []UmsgidsAscend
<1>1. IInv => UmsgidsAscend
  <2> SUFFICES ASSUME IInv PROVE UmsgidsAscend
    OBVIOUS
  <2>1. Area
    BY DEF IInv
  <2>2. \A k \in 1 .. Len(sqi) : sqi[k].umsgid < uid
    BY <2>1, AreaFacts
  <2> QED
    BY <2>1, <2>2 DEF UmsgidsAscend, Area
<1> QED
  BY <1>1, Invariance, PTL

\* What a sort that dies costs: a message is missing from the index only if its new
\* place is further back than the old one (sortarea.c:140-151).
THEOREM MissingMoved == Spec => []MissingMovesBack
<1>1. IInv => MissingMovesBack
  <2> SUFFICES ASSUME IInv, Sorting, NoDuplicates(before),
                      NEW p \in 1 .. Len(Unsorted), NewPlace(Unsorted, p) <= p
               PROVE  Unsorted[p].ofs \in Offsets(sqi)
    BY DEF MissingMovesBack, Unsorted, ReadPart
  <2> DEFINE q == NewPlace(Unsorted, p)
  <2>0. Written /\ text \in Texts /\ before \in Seq(SQIDX)
    BY ProgressFacts DEF IInv
  <2>1. /\ Len(Unsorted) = Len(before) - ReadPart
        /\ q \in 1 .. Len(before) - ReadPart /\ Ordered[q] = Unsorted[p]
        /\ Unsorted[p] = [ofs |-> before[ReadPart + p].ofs,
                          time |-> text[before[ReadPart + p].ofs].date]
    BY <2>0, OrderedProperties
  <2>2. /\ ReadPart \in Nat /\ idxPos \in Nat /\ Len(before) \in Nat
        /\ Len(sqi) = Len(before)
    BY ProgressFacts
  <2> HIDE DEF q
  <2>3. CASE ReadPart + q <= idxPos
    <3>1. /\ ReadPart + q \in 1 .. Len(before) /\ ReadPart < ReadPart + q
          /\ (ReadPart + q) - ReadPart = q
      BY <2>1, <2>2
    <3>2. sqi[ReadPart + q].ofs = Ordered[(ReadPart + q) - ReadPart].ofs
      BY <2>0, <2>3, <3>1 DEF Written
    <3>3. sqi[ReadPart + q].ofs = Unsorted[p].ofs
      BY <2>1, <3>1, <3>2
    <3> QED
      BY <2>2, <3>1, <3>3 DEF Offsets
  <2>4. CASE ~(ReadPart + q <= idxPos)
    <3>1. ReadPart + p \in 1 .. Len(before) /\ ~(ReadPart + p <= idxPos)
      BY <2>1, <2>2, <2>4 DEF q
    <3>2. sqi[ReadPart + p] = before[ReadPart + p]
      BY <2>0, <3>1 DEF Written
    <3>3. sqi[ReadPart + p].ofs = Unsorted[p].ofs
      BY <2>1, <3>2
    <3> QED
      BY <2>2, <3>1, <3>3 DEF Offsets
  <2> QED
    BY <2>3, <2>4
<1> QED
  BY <1>1, Invariance, PTL

LEMMA SortedFacts ==
  ASSUME IInv, Sorted
  PROVE  /\ Sorting /\ idxPos = Len(before) /\ Written /\ Renumbered /\ Area
         /\ \A k \in 1 .. Len(before) : k <= ReadPart => sqi[k] = before[k]
         /\ \A k \in 1 .. Len(before) : ReadPart < k =>
              sqi[k].ofs = Ordered[k - ReadPart].ofs /\ sqi[k].umsgid = NewUmsgid(k)
<1>1. Sorting /\ sqsort = << >>
  BY DEF Sorted, Sorting
<1>2. Written /\ Renumbered /\ Area
  BY <1>1 DEF IInv
<1>3. idxPos = Len(before) /\ ReadPart \in Nat /\ Len(before) \in Nat
  BY <1>1, ProgressFacts
<1>4. \A k \in 1 .. Len(before) : k <= ReadPart => ~(ReadPart < k)
  BY <1>3
<1>5. \A k \in 1 .. Len(before) : k <= idxPos
  BY <1>3
<1> QED
  BY <1>1, <1>2, <1>3, <1>4, <1>5 DEF Written

LEMMA TailSortedAtEnd ==
  ASSUME IInv, Sorted
  PROVE  /\ SubSeq(sqi, 1, ReadPart) = SubSeq(before, 1, ReadPart)
         /\ IsSortOf(Behind(sqi, ReadPart), Unsorted)
         /\ NoDuplicates(before) =>
              \A k \in ReadPart + 1 .. Len(sqi) :
                /\ sqi[k].umsgid = before[ReadPart + 1].umsgid + k - ReadPart - 1
                /\ xmsg[sqi[k].ofs] = Unlinked(sqi[k].umsgid)
<1>0. /\ text \in Texts /\ before \in Seq(SQIDX) /\ sqi \in Seq(SQIDX)
      /\ ReadPart \in 0 .. Len(before) /\ ReadPart \in Int /\ Len(before) \in Nat
      /\ Len(sqi) = Len(before) /\ idxPos = Len(before)
  BY SortedFacts, ProgressFacts, AreaFacts
<1>1. SubSeq(sqi, 1, ReadPart) = SubSeq(before, 1, ReadPart)
  <2>1. \A j \in 1 .. ReadPart : /\ j \in 1 .. Len(before) /\ sqi[j] = before[j]
                                 /\ before[j] \in SQIDX
    BY <1>0, SortedFacts, ProgressFacts
  <2>2. /\ SubSeq(sqi, 1, ReadPart) \in Seq(SQIDX)
        /\ Len(SubSeq(sqi, 1, ReadPart)) = ReadPart
        /\ \A j \in 1 .. ReadPart : SubSeq(sqi, 1, ReadPart)[j] = sqi[j]
    BY <1>0, <2>1, SubSeqProperties
  <2>3. /\ SubSeq(before, 1, ReadPart) \in Seq(SQIDX)
        /\ Len(SubSeq(before, 1, ReadPart)) = ReadPart
        /\ \A j \in 1 .. ReadPart : SubSeq(before, 1, ReadPart)[j] = before[j]
    BY <1>0, <2>1, SubSeqProperties
  <2> QED
    BY <2>1, <2>2, <2>3, SeqEqual
<1>2. IsSortOf(Behind(sqi, ReadPart), Unsorted)
  <2>1. /\ Len(Behind(sqi, ReadPart)) = Len(before) - ReadPart
        /\ \A k \in 1 .. Len(before) - ReadPart :
              Behind(sqi, ReadPart)[k] = [ofs |-> sqi[ReadPart + k].ofs,
                                          time |-> text[sqi[ReadPart + k].ofs].date]
    BY <1>0, BehindProperties
  <2>2. ASSUME NEW k \in 1 .. Len(before) - ReadPart
        PROVE  Behind(sqi, ReadPart)[k] = Ordered[k]
    <3>1. /\ ReadPart + k \in 1 .. Len(before) /\ ReadPart < ReadPart + k
          /\ (ReadPart + k) - ReadPart = k
      BY <1>0
    <3>2. sqi[ReadPart + k].ofs = Ordered[k].ofs
      BY <3>1, SortedFacts
    <3>3. Ordered[k] = [ofs |-> Ordered[k].ofs, time |-> text[Ordered[k].ofs].date]
      BY <1>0, OrderedFromUnsorted
    <3> QED
      BY <2>1, <3>2, <3>3
  <2>3. /\ Len(Unsorted) = Len(before) - ReadPart
        /\ \A p \in 1 .. Len(before) - ReadPart :
              /\ NewPlace(Unsorted, p) \in 1 .. Len(before) - ReadPart
              /\ Ordered[NewPlace(Unsorted, p)] = Unsorted[p]
    BY <1>0, OrderedProperties
  <2> QED
    BY <2>1, <2>2, <2>3 DEF IsSortOf
<1>3. ASSUME NoDuplicates(before), NEW k \in ReadPart + 1 .. Len(sqi)
      PROVE  /\ sqi[k].umsgid = before[ReadPart + 1].umsgid + k - ReadPart - 1
             /\ xmsg[sqi[k].ofs] = Unlinked(sqi[k].umsgid)
  <2>1. /\ k \in ReadPart + 1 .. Len(before) /\ k \in 1 .. Len(before) /\ ReadPart < k
        /\ k <= idxPos
    BY <1>0
  <2>2. sqi[k].ofs = Ordered[k - ReadPart].ofs /\ sqi[k].umsgid = NewUmsgid(k)
    BY <2>1, SortedFacts
  <2>3. xmsg[Ordered[k - ReadPart].ofs] = Unlinked(NewUmsgid(k))
    BY <2>1, <1>3, SortedFacts DEF Renumbered
  <2>4. Unlinked(sqi[k].umsgid) = Unlinked(NewUmsgid(k))
    BY <2>2
  <2> QED
    BY <2>2, <2>3, <2>4 DEF NewUmsgid
<1> QED
  BY <1>1, <1>2, <1>3

\* A user who has not read on has read the same entries before and after the sort.
LEMMA ReadKeptAtEnd ==
  ASSUME IInv, Sorted, ~moved,
         lastuid \in {before[k].umsgid : k \in 1 .. Len(before)} \cup {0},
         NEW u \in Users
  PROVE  ReadBy(u, sqi) = ReadBy(u, before)
<1>0. /\ before \in Seq(SQIDX) /\ ReadPart \in 0 .. Len(before) /\ Len(before) \in Nat
      /\ Len(sqi) = Len(before) /\ ReadPart \in Int
      /\ \A k \in 1 .. Len(before) : before[k].umsgid \in Int /\ before[k].umsgid >= 1
      /\ \A k \in 1 .. Len(before) : sqi[k].umsgid \in Int /\ sqi[k].umsgid >= 1
  <2>1. \A k \in 1 .. Len(sqi) : sqi[k].umsgid \in 1 .. uid - 1
    BY SortedFacts, AreaFacts
  <2> QED
    BY <2>1, SortedFacts, ProgressFacts DEF Written
<1>1. /\ sql[u] <= lastuid /\ sql[u] \in Nat /\ lastuid \in Nat
  <2>1. Memory /\ Area /\ uid \in Nat /\ pc = "sortmsg"
    BY AreaFacts DEF IInv, Sorted
  <2> QED
    BY <2>1 DEF Memory, Area
<1>2. lastuid # 0 => ReadPart \in 1 .. Len(before) /\ before[ReadPart].umsgid = lastuid
  <2> SUFFICES ASSUME lastuid # 0
               PROVE  ReadPart \in 1 .. Len(before) /\ before[ReadPart].umsgid = lastuid
    OBVIOUS
  <2>1. PICK k \in 1 .. Len(before) : before[k].umsgid = lastuid
    OBVIOUS
  <2>2. ReadPart # 0
    BY <2>1, <1>0, LastreadProperties DEF ReadPart
  <2>3. before[ReadPart].umsgid = lastuid
    BY <2>2, <1>0, LastreadProperties DEF ReadPart
  <2> QED
    BY <2>2, <2>3, <1>0
\* Nobody has read what is behind the read part.
<1>3. ASSUME NEW k \in 1 .. Len(before), ReadPart < k
      PROVE  ~(before[k].umsgid <= sql[u]) /\ ~(sqi[k].umsgid <= sql[u])
  <2>1. CASE lastuid = 0
    <3>1. sql[u] = 0
      BY <2>1, <1>1
    <3> QED
      BY <3>1, <1>0
  <2>2. CASE lastuid # 0
    <3>1. ReadPart \in 1 .. Len(before) /\ before[ReadPart].umsgid = lastuid
      BY <2>2, <1>2
    <3>2. sqi[ReadPart] = before[ReadPart]
      BY <3>1, <1>0, SortedFacts
    <3>3. before[ReadPart].umsgid < before[k].umsgid
      BY <3>1, <1>3, SortedFacts DEF Written
    <3>4. sqi[ReadPart].umsgid < sqi[k].umsgid
      BY <3>1, <1>0, <1>3, SortedFacts DEF Area
    <3> QED
      BY <3>1, <3>2, <3>3, <3>4, <1>0, <1>1
  <2> QED
    BY <2>1, <2>2
<1>4. ASSUME NEW k \in 1 .. Len(before)
      PROVE  /\ sqi[k].umsgid <= sql[u] <=> before[k].umsgid <= sql[u]
             /\ sqi[k].umsgid <= sql[u] => sqi[k] = before[k]
  <2>1. CASE ReadPart < k
    BY <2>1, <1>3
  <2>2. CASE ~(ReadPart < k)
    <3>1. sqi[k] = before[k]
      BY <2>2, <1>0, SortedFacts
    <3> QED
      BY <3>1
  <2> QED
    BY <2>1, <2>2
<1>5. {j \in 1 .. Len(sqi) : sqi[j].umsgid <= sql[u]}
       = {j \in 1 .. Len(before) : before[j].umsgid <= sql[u]}
  BY <1>0, <1>4
<1> QED
  BY <1>0, <1>4, <1>5 DEF ReadBy

\* A sort that comes to its end has put the messages behind the last one read in the
\* order of their dates, numbered up and without links, and to every user the same
\* messages are read as before (sortarea.c:140-151, 201-265).
THEOREM SortDone == Spec => []SortResult
<1>1. IInv => TailSorted
  BY TailSortedAtEnd DEF TailSorted, ReadPart, Unsorted
<1>2. IInv => ReadKept
  BY ReadKeptAtEnd DEF ReadKept
<1> QED
  BY <1>1, <1>2, Invariance, PTL DEF SortResult

-----------------------------------------------------------------------------
(* A link under way. *)

\* Rewriting twice is rewriting once, and only what was found counts.
LEMMA RewrittenFacts ==
  ASSUME NEW x \in XMSG, NEW e \in Info
  PROVE  /\ Rewritten(x, e) \in XMSG
         /\ Rewritten(x, e).replyto = e.replyto
         /\ \A n \in 1 .. MAX_REPLY :
              Rewritten(x, e).replies[n] = IF n <= Len(e.replies) THEN e.replies[n] ELSE 0
         /\ Rewritten(Rewritten(x, e), e) = Rewritten(x, e)
<1> DEFINE replies == [k \in 1 .. MAX_REPLY |->
                         IF k <= Len(e.replies) THEN e.replies[k] ELSE 0]
<1>1. \A y : Rewritten(y, e) = [y EXCEPT !.replyto = e.replyto, !.replies = replies]
  BY DEF Rewritten
<1>2. \A n \in 1 .. MAX_REPLY : replies[n] = IF n <= Len(e.replies) THEN e.replies[n] ELSE 0
  OBVIOUS
<1> HIDE DEF replies
<1>3. ASSUME NEW y \in XMSG
      PROVE  Rewritten(y, e) = [umsgid |-> y.umsgid, replyto |-> e.replyto,
                                replies |-> replies]
  <2>1. Rewritten(y, e) \in [umsgid : {y.umsgid}, replyto : {e.replyto}, replies : {replies}]
    <3>1. y = [umsgid |-> y.umsgid, replyto |-> y.replyto, replies |-> y.replies]
      BY DEF XMSG
    <3>2. Rewritten(y, e) = [y EXCEPT !.replyto = e.replyto, !.replies = replies]
      BY <1>1
    <3> HIDE DEF replies
    <3>3. ASSUME NEW u, NEW a, NEW b, NEW c, NEW d
          PROVE  [[umsgid |-> u, replyto |-> a, replies |-> b]
                    EXCEPT !.replyto = c, !.replies = d]
                   = [umsgid |-> u, replyto |-> c, replies |-> d]
      <4>1. [[umsgid |-> u, replyto |-> a, replies |-> b] EXCEPT !.replyto = c]
              = [umsgid |-> u, replyto |-> c, replies |-> b]
        OBVIOUS
      <4>2. [[umsgid |-> u, replyto |-> c, replies |-> b] EXCEPT !.replies = d]
              = [umsgid |-> u, replyto |-> c, replies |-> d]
        OBVIOUS
      <4> QED
        BY <4>1, <4>2
    <3> QED
      BY <3>1, <3>2, <3>3
  <2> QED
    BY <2>1
<1>4. Rewritten(x, e) = [umsgid |-> x.umsgid, replyto |-> e.replyto, replies |-> replies]
  BY <1>3
<1>5. Rewritten(Rewritten(x, e), e) = Rewritten(x, e)
  <2>1. Rewritten(x, e) \in XMSG /\ Rewritten(x, e).umsgid = x.umsgid
    BY <1>4, RewrittenType
  <2> QED
    BY <2>1, <1>3, <1>4
<1>6. Rewritten(x, e).replyto = e.replyto /\ Rewritten(x, e).replies = replies
  BY <1>4
<1> QED
  BY <1>2, <1>5, <1>6, RewrittenType

\* What the end of link makes of the message of one entry, if no other names it, and of
\* a message that no entry names.
LEMMA ResultAt ==
  ASSUME Len(sqi) \in Nat, NEW x, NEW info
  PROVE  /\ NoDuplicates(sqi) =>
              \A e \in 1 .. Len(sqi) :
                sqi[e].ofs \in Frames =>
                  Result(x, info)[sqi[e].ofs] =
                    IF info[e].rewrite THEN Rewritten(x[sqi[e].ofs], info[e])
                    ELSE x[sqi[e].ofs]
         /\ \A f \in Frames : f \notin Offsets(sqi) => Result(x, info)[f] = x[f]
<1>1. ASSUME NoDuplicates(sqi), NEW e \in 1 .. Len(sqi), sqi[e].ofs \in Frames
      PROVE  Result(x, info)[sqi[e].ofs] =
               IF info[e].rewrite THEN Rewritten(x[sqi[e].ofs], info[e]) ELSE x[sqi[e].ofs]
  <2> DEFINE f == sqi[e].ofs
             I == {k \in 1 .. Len(sqi) : sqi[k].ofs = f}
  <2>1. I = {e}
    BY <1>1 DEF NoDuplicates
  <2>2. SelectInSeq(sqi, LAMBDA d : d.ofs = f) = IF I # {} THEN Min(I) ELSE 0
    BY DEF SelectInSeq
  <2>3. Min({e}) = e
    BY DEF Min
  <2>4. SelectInSeq(sqi, LAMBDA d : d.ofs = f) = e
    BY <2>1, <2>2, <2>3
  <2>5. (\E k \in 1 .. Len(sqi) : sqi[k].ofs = f /\ info[k].rewrite) <=> info[e].rewrite
    BY <1>1 DEF NoDuplicates
  <2> QED
    BY <1>1, <2>4, <2>5 DEF Result
<1>2. ASSUME NEW f \in Frames, f \notin Offsets(sqi)
      PROVE  Result(x, info)[f] = x[f]
  <2>1. ~\E k \in 1 .. Len(sqi) : sqi[k].ofs = f /\ info[k].rewrite
    BY <1>2 DEF Offsets
  <2> QED
    BY <2>1 DEF Result
<1> QED
  BY <1>1, <1>2

\* A link under way: start is XMSG of the messages as they were read.  What was found is
\* what is there to find, and the messages of the first entries have come to their end.
LinkTrack(start) ==
  /\ start \in [Frames -> XMSG]
  /\ \A e \in 1 .. Len(sqi) :
       EntryFound(sqi, msginfo[e], start[sqi[e].ofs], RepliesOf(e), ParentsOf(e))
  /\ goal = [f \in Frames |-> goal[f]]
  /\ NoDuplicates(sqi) =>
       /\ \A e \in 1 .. Len(sqi) :
            goal[sqi[e].ofs] = IF msginfo[e].rewrite
                               THEN Rewritten(start[sqi[e].ofs], msginfo[e])
                               ELSE start[sqi[e].ofs]
       /\ \A f \in Frames : f \notin Offsets(sqi) => goal[f] = start[f]
       /\ \A f \in Frames : xmsg[f] = IF \E e \in 1 .. Len(sqi) : e < i /\ sqi[e].ofs = f
                                      THEN goal[f] ELSE start[f]

Linking == pc = "link" => \E start : LinkTrack(start)

\* What is there to find depends on the index, the types of the frames and the ids.
LEMMA FoundKept ==
  ASSUME UNCHANGED << frame, sqi, text >>
  PROVE  /\ \A e : RepliesOf(e)' = RepliesOf(e) /\ ParentsOf(e)' = ParentsOf(e)
         /\ NoDuplicates(sqi)' <=> NoDuplicates(sqi)
         /\ \A r, p : Answers(r, p)' <=> Answers(r, p)
<1>2. \A r, p : IsReply(r, p)' <=> IsReply(r, p)
  BY DEF IsReply, IsLinked, Msgid, Reply, GetOnlyId
<1>3. \A e : RepliesOf(e)' = RepliesOf(e) /\ ParentsOf(e)' = ParentsOf(e)
  BY <1>2 DEF RepliesOf, ParentsOf
<1>5. \A r, p : Answers(r, p)' <=> Answers(r, p)
  BY DEF Answers
<1>6. NoDuplicates(sqi)' <=> NoDuplicates(sqi)
  BY DEF NoDuplicates
<1> QED
  BY <1>3, <1>5, <1>6

\* A link begins when the area is read; only its own writes touch what it works on.
LEMMA LinkingStep ==
  ASSUME IInv, [Next]_vars, pc' = "link"
  PROVE  \/ ReadMsgs
         \/ WriteLinks
         \/ pc = "link" /\ UNCHANGED << frame, xmsg, sqi, text, msginfo, i, goal >>
<1>1. CASE Sort
  BY <1>1 DEF Sort, SortStep, ReadSql, LockToSort, SortLocked, WriteXmsg, WriteSqidx,
              CloseSorted, EndSort
<1>2. CASE Link
  BY <1>2 DEF Link, LinkStep, Unlock, EndLink
<1>3. CASE Other
  <2>1. pc' = pc /\ UNCHANGED << msginfo, i, goal >>
    BY <1>3 DEF Other, linkMemory
  <2>2. ~Unlocked
    BY <2>1 DEF Unlocked
  <2>3. \E u \in Users, k \in 1 .. Len(sqi) : ReadOn(u, k)
    BY <1>3, <2>2, Zenon DEF Other, Toss, Purge, PurgeDies
  <2> QED
    BY <2>1, <2>3 DEF ReadOn
<1>4. CASE Crash
  BY <1>4 DEF Crash, EndSort
<1>5. CASE UNCHANGED vars
  BY <1>5 DEF vars, files, linkMemory
<1> QED
  BY <1>1, <1>2, <1>3, <1>4, <1>5 DEF Next

LEMMA LinkingAtRead ==
  ASSUME IInv, ReadMsgs
  PROVE  LinkTrack(xmsg)'
<1>1. /\ msginfo' = LinkAll(xmsg) /\ goal' = Result(xmsg, LinkAll(xmsg)) /\ i' = 1
      /\ UNCHANGED << frame, xmsg, sqi, text >>
  BY DEF ReadMsgs, files
<1>2. Area /\ xmsg \in [Frames -> XMSG] /\ Len(sqi) \in Nat
  BY AreaFacts DEF IInv
<1>3. \A e \in 1 .. Len(sqi) :
         EntryFound(sqi, LinkAll(xmsg)[e], xmsg[sqi[e].ofs], RepliesOf(e), ParentsOf(e))
  BY <1>2, LinkAllFinds
<1>4. \A e \in 1 .. Len(sqi') :
         EntryFound(sqi, msginfo[e], xmsg[sqi[e].ofs], RepliesOf(e), ParentsOf(e))'
  BY <1>1, <1>3, FoundKept
<1>5. xmsg' \in [Frames -> XMSG]
  BY <1>1, <1>2
<1>6. goal' = [f \in Frames |-> goal'[f]]
  <2> DEFINE info == LinkAll(xmsg)
  <2>1. goal' = Result(xmsg, info)
    BY <1>1
  <2> HIDE DEF info
  <2> QED
    BY <2>1 DEF Result
<1>7. \A e \in 1 .. Len(sqi) : ~(e < 1)
  BY <1>2
<1>8. ASSUME NoDuplicates(sqi)
      PROVE  /\ \A e \in 1 .. Len(sqi) :
                  goal'[sqi[e].ofs] = IF msginfo'[e].rewrite
                                      THEN Rewritten(xmsg[sqi[e].ofs], msginfo'[e])
                                      ELSE xmsg[sqi[e].ofs]
             /\ \A f \in Frames : f \notin Offsets(sqi) => goal'[f] = xmsg[f]
  <2>1. \A e \in 1 .. Len(sqi) : sqi[e].ofs \in Frames
    BY <1>2, EntryFacts
  <2> QED
    BY <2>1, <1>1, <1>2, <1>8, ResultAt
<1>9. NoDuplicates(sqi)' => NoDuplicates(sqi)
  BY <1>1, FoundKept
<1>10. Offsets(sqi)' = Offsets(sqi)
  BY <1>1
<1> QED
  BY <1>1, <1>4, <1>5, <1>6, <1>7, <1>8, <1>9, <1>10 DEF LinkTrack

\* The parts of LinkTrack for the message of one entry.
LEMMA TrackFacts ==
  ASSUME IInv, pc = "link", NEW start, LinkTrack(start)
  PROVE  /\ Len(sqi) \in Nat /\ i \in 1 .. Len(sqi) + 1 /\ xmsg \in [Frames -> XMSG]
         /\ \A e \in 1 .. Len(sqi) :
              /\ sqi[e].ofs \in Frames /\ msginfo[e] \in Info
              /\ start[sqi[e].ofs] \in XMSG
              /\ EntryFound(sqi, msginfo[e], start[sqi[e].ofs], RepliesOf(e), ParentsOf(e))
<1>1. Area /\ Memory
  BY DEF IInv
<1>2. Len(sqi) \in Nat /\ i \in 1 .. Len(sqi) + 1 /\ xmsg \in [Frames -> XMSG]
  BY <1>1, AreaFacts DEF Memory
<1>3. \A e \in 1 .. Len(sqi) : sqi[e].ofs \in Frames
  BY <1>1, EntryFacts
<1>4. \A e \in 1 .. Len(sqi) :
         EntryFound(sqi, msginfo[e], start[sqi[e].ofs], RepliesOf(e), ParentsOf(e))
  BY DEF LinkTrack
<1>5. \A e \in 1 .. Len(sqi) : msginfo[e] \in Info
  BY <1>4 DEF EntryFound
<1>6. start \in [Frames -> XMSG]
  BY DEF LinkTrack
<1> QED
  BY <1>2, <1>3, <1>4, <1>5, <1>6

LEMMA LinkingAtWrite ==
  ASSUME IInv, WriteLinks, NEW start, LinkTrack(start)
  PROVE  LinkTrack(start)'
<1>1. /\ pc = "link" /\ i \in 1 .. Len(sqi) /\ i' = i + 1
      /\ xmsg' = IF msginfo[i].rewrite
                 THEN [xmsg EXCEPT ![sqi[i].ofs] = Rewritten(xmsg[sqi[i].ofs], msginfo[i])]
                 ELSE xmsg
      /\ UNCHANGED << frame, sqi, text, msginfo, goal >>
  BY WriteLinksFacts DEF WriteLinks
<1>2. /\ Len(sqi) \in Nat /\ xmsg \in [Frames -> XMSG]
      /\ \A e \in 1 .. Len(sqi) : sqi[e].ofs \in Frames
  BY <1>1, TrackFacts
<1>3. \A e \in 1 .. Len(sqi') :
         EntryFound(sqi, msginfo[e], start[sqi[e].ofs], RepliesOf(e), ParentsOf(e))'
  BY <1>1, FoundKept DEF LinkTrack
<1>4. start \in [Frames -> XMSG] /\ goal' = [f \in Frames |-> goal'[f]]
  BY <1>1 DEF LinkTrack
<1>5. NoDuplicates(sqi)' <=> NoDuplicates(sqi)
  BY <1>1, FoundKept
<1>6. ASSUME NoDuplicates(sqi)
      PROVE  /\ \A e \in 1 .. Len(sqi) :
                  goal[sqi[e].ofs] = IF msginfo[e].rewrite
                                     THEN Rewritten(start[sqi[e].ofs], msginfo[e])
                                     ELSE start[sqi[e].ofs]
             /\ \A f \in Frames : f \notin Offsets(sqi) => goal[f] = start[f]
             /\ \A f \in Frames : xmsg[f] = IF \E e \in 1 .. Len(sqi) :
                                                 e < i /\ sqi[e].ofs = f
                                            THEN goal[f] ELSE start[f]
  BY <1>6 DEF LinkTrack
<1>7. ASSUME NoDuplicates(sqi), NEW f \in Frames
      PROVE  xmsg'[f] = IF \E e \in 1 .. Len(sqi) : e < i + 1 /\ sqi[e].ofs = f
                        THEN goal[f] ELSE start[f]
  <2>1. \A e \in 1 .. Len(sqi) : e < i + 1 <=> e < i \/ e = i
    BY <1>1
  <2>2. CASE f = sqi[i].ofs
    <3>1. ~\E e \in 1 .. Len(sqi) : e < i /\ sqi[e].ofs = f
      BY <1>1, <1>7, <2>2 DEF NoDuplicates
    <3>2. xmsg[f] = start[f]
      BY <3>1, <1>6, <1>7
    <3>3. xmsg'[f] = goal[f]
      BY <3>2, <2>2, <1>1, <1>2, <1>6, <1>7
    <3>4. i < i + 1
      BY <1>1
    <3> QED
      BY <3>3, <3>4, <2>2, <1>1
  <2>3. CASE f # sqi[i].ofs
    <3>1. xmsg'[f] = xmsg[f]
      BY <2>3, <1>1, <1>2
    <3>2. (\E e \in 1 .. Len(sqi) : e < i + 1 /\ sqi[e].ofs = f)
            <=> \E e \in 1 .. Len(sqi) : e < i /\ sqi[e].ofs = f
      BY <2>1, <2>3
    <3> QED
      BY <3>1, <3>2, <1>6, <1>7
  <2> QED
    BY <2>2, <2>3
<1>8. Offsets(sqi)' = Offsets(sqi)
  BY <1>1
<1> QED
  BY <1>1, <1>3, <1>4, <1>5, <1>6, <1>7, <1>8 DEF LinkTrack

LEMMA LinkingKept ==
  ASSUME UNCHANGED << frame, xmsg, sqi, text, msginfo, i, goal >>, NEW start,
         LinkTrack(start)
  PROVE  LinkTrack(start)'
<1>1. \A e \in 1 .. Len(sqi') :
         EntryFound(sqi, msginfo[e], start[sqi[e].ofs], RepliesOf(e), ParentsOf(e))'
  BY FoundKept DEF LinkTrack
<1>2. (NoDuplicates(sqi)' <=> NoDuplicates(sqi)) /\ Offsets(sqi)' = Offsets(sqi)
  BY FoundKept
<1> QED
  BY <1>1, <1>2 DEF LinkTrack

LEMMA LinkingInvariance ==
  ASSUME IInv, Linking, [Next]_vars
  PROVE  Linking'
<1> SUFFICES ASSUME pc' = "link" PROVE \E start : LinkTrack(start)'
  BY DEF Linking
<1>1. CASE ReadMsgs
  <2>1. PICK start : start = xmsg
    OBVIOUS
  <2>2. xmsg' = xmsg
    BY <1>1 DEF ReadMsgs, files
  <2>3. LinkTrack(xmsg)'
    BY <1>1, LinkingAtRead
  <2>4. LinkTrack(start)'
    BY <2>1, <2>2, <2>3
  <2> QED
    BY <2>4
<1>2. CASE WriteLinks
  <2>1. PICK start : LinkTrack(start)
    BY <1>2 DEF Linking, WriteLinks
  <2>2. LinkTrack(start)'
    BY <1>2, <2>1, LinkingAtWrite
  <2> QED
    BY <2>2
<1>3. CASE pc = "link" /\ UNCHANGED << frame, xmsg, sqi, text, msginfo, i, goal >>
  <2>1. PICK start : LinkTrack(start)
    BY <1>3 DEF Linking
  <2>2. LinkTrack(start)'
    BY <1>3, <2>1, LinkingKept
  <2> QED
    BY <2>2
<1> QED
  BY <1>1, <1>2, <1>3, LinkingStep

\* At each moment of a link, a new one would come to the same end.
LEMMA RepeatedAtAnyTime ==
  ASSUME IInv, pc = "link", NoDuplicates(sqi), NEW start, LinkTrack(start)
  PROVE  LinkResult = goal /\ (LinkDone => xmsg = goal)
<1> DEFINE info == LinkAll(xmsg)
<1>0. /\ Len(sqi) \in Nat /\ i \in 1 .. Len(sqi) + 1 /\ xmsg \in [Frames -> XMSG]
      /\ goal = [f \in Frames |-> goal[f]]
  BY TrackFacts DEF LinkTrack
<1>1. \A f \in Frames : xmsg[f] = IF \E e \in 1 .. Len(sqi) : e < i /\ sqi[e].ofs = f
                                  THEN goal[f] ELSE start[f]
  BY DEF LinkTrack
<1>2. \A f \in Frames : f \notin Offsets(sqi) => goal[f] = start[f] /\ xmsg[f] = goal[f]
  <2>1. \A f \in Frames : f \notin Offsets(sqi) => goal[f] = start[f]
    BY DEF LinkTrack
  <2> QED
    BY <2>1, <1>1
<1>3. ASSUME NEW e \in 1 .. Len(sqi)
      PROVE  Result(xmsg, info)[sqi[e].ofs] = goal[sqi[e].ofs]
  <2> DEFINE f == sqi[e].ofs
             mine == msginfo[e]
             new == info[e]
             R == RepliesOf(e)
             P == ParentsOf(e)
  <2>1. /\ f \in Frames /\ mine \in Info /\ start[f] \in XMSG
        /\ EntryFound(sqi, mine, start[f], R, P)
    BY TrackFacts
  <2>2. EntryFound(sqi, new, xmsg[f], R, P)
    BY LinkAllFinds DEF IInv
  <2>3. goal[f] = IF mine.rewrite THEN Rewritten(start[f], mine) ELSE start[f]
    BY DEF LinkTrack
  <2>4. Result(xmsg, info)[f] = IF new.rewrite THEN Rewritten(xmsg[f], new) ELSE xmsg[f]
    <3> HIDE DEF info
    <3> QED
      BY <1>0, <2>1, ResultAt
  <2>5. P \in SUBSET Int
    BY <1>0 DEF ParentsOf
  <2>6. xmsg[f] = goal[f] \/ xmsg[f] = start[f]
    BY <1>1, <2>1
  <2> SUFFICES Result(xmsg, info)[f] = goal[f]
    OBVIOUS
  <2> HIDE DEF f, mine, new, R, P, info
  <2>7. /\ mine.replies = new.replies /\ mine.replyto = new.replyto
        /\ start[f] = xmsg[f] => (mine.rewrite <=> new.rewrite)
    BY <2>1, <2>2, <2>5, FoundOnce
  <2>8. \A x : Rewritten(x, new) = Rewritten(x, mine)
    BY <2>7 DEF Rewritten
  <2>9. Rewritten(Rewritten(start[f], mine), mine) = Rewritten(start[f], mine)
    BY <2>1, RewrittenFacts
  <2>10. CASE xmsg[f] = start[f]
    BY <2>10, <2>3, <2>4, <2>7, <2>8
  <2>11. CASE xmsg[f] = goal[f] /\ xmsg[f] # start[f]
    <3>1. goal[f] = Rewritten(start[f], mine)
      BY <2>11, <2>3
    <3> QED
      BY <3>1, <2>4, <2>8, <2>9, <2>11
  <2> QED
    BY <2>6, <2>10, <2>11
<1>4. LinkResult = goal
  <2>1. \A f \in Frames : Result(xmsg, info)[f] = goal[f]
    <3> TAKE f \in Frames
    <3>1. CASE f \in Offsets(sqi)
      BY <3>1, <1>3 DEF Offsets
    <3>2. CASE f \notin Offsets(sqi)
      <4> HIDE DEF info
      <4> QED
        BY <3>2, <1>0, <1>2, ResultAt
    <3> QED
      BY <3>1, <3>2
  <2>2. LinkResult = Result(xmsg, info)
    BY DEF LinkResult
  <2>3. Result(xmsg, info) = [f \in Frames |-> Result(xmsg, info)[f]]
    <3> HIDE DEF info
    <3> QED
      BY DEF Result
  <2> HIDE DEF info
  <2> QED
    BY <2>1, <2>2, <2>3, <1>0
<1>5. LinkDone => xmsg = goal
  <2> SUFFICES ASSUME LinkDone PROVE xmsg = goal
    OBVIOUS
  <2>1. \A e \in 1 .. Len(sqi) : e < i
    BY <1>0 DEF LinkDone
  <2>2. \A f \in Frames : xmsg[f] = goal[f]
    BY <2>1, <1>1, <1>2 DEF Offsets
  <2> QED
    BY <2>2, <1>0
<1> QED
  BY <1>4, <1>5

\* What GetOnlyId compares is what the ids say: IsReply is Answers.
LEMMA IsReplyAnswers ==
  ASSUME Area, NEW r \in 1 .. Len(sqi), NEW p \in 1 .. Len(sqi)
  PROVE  IsReply(r, p) <=> Answers(r, p)
<1> DEFINE reply == text[sqi[r].ofs].reply
           msgid == text[sqi[p].ofs].msgid
<1>1. reply \in Id \cup {NoId} /\ msgid \in Id \cup {NoId}
  <2>1. sqi[r].ofs \in Frames /\ sqi[p].ofs \in Frames /\ text \in Texts
    BY AreaFacts
  <2> QED
    BY <2>1 DEF Texts
<1>2. \A id \in Id : id.serial # NoId /\ id # NoId
  BY AreaAssumption DEF Id
<1>3. Msgid(p) = GetOnlyId(msgid) /\ Reply(r) = GetOnlyId(reply)
  BY DEF Msgid, Reply
<1> HIDE DEF reply, msgid
<1>4. (GetOnlyId(msgid) # NoId /\ GetOnlyId(reply) = GetOnlyId(msgid))
        <=> NoId \notin {reply, msgid} /\ reply.serial = msgid.serial
  BY <1>1, <1>2 DEF GetOnlyId
<1> QED
  BY <1>3, <1>4 DEF IsReply, IsLinked, Answers, reply, msgid

LEMMA MetAnswers ==
  ASSUME Area, NEW k \in 1 .. Len(sqi)
  PROVE  /\ RepliesOf(k) = {r \in 1 .. Len(sqi) : Answers(r, k)}
         /\ ParentsOf(k) = {p \in 1 .. Len(sqi) : Answers(k, p)}
BY IsReplyAnswers DEF RepliesOf, ParentsOf

\* XMSG of a message when link is done with it.
Ended(x, old, e) == x = IF e.rewrite THEN Rewritten(old, e) ELSE old

\* XMSG of a message leads to the last of its parents P, and to its replies R.
Leading(index, x, R, P) ==
  /\ P # {} => \E p \in P : (\A q \in P : q <= p) /\ x.replyto = index[p].umsgid
  /\ \A r \in R : Rank(R, r) < MAX_REPLY => x.replies[Rank(R, r)] = index[r].umsgid

\* What a message holds when it was written, or when there is nothing to write.
LEMMA EntryWritten ==
  ASSUME Len(sqi) \in Nat, NEW R \in SUBSET (1 .. Len(sqi)), NEW P \in SUBSET (1 .. Len(sqi)),
         NEW old \in XMSG, NEW e, EntryFound(sqi, e, old, R, P),
         NEW x, Ended(x, old, e)
  PROVE  /\ Leading(sqi, x, R, P)
         /\ old.replies[MAX_REPLY] = 0 => x.replies[MAX_REPLY] = 0
<1>0. /\ e \in Info /\ Len(e.replies) \in Nat /\ MAX_REPLY \in Nat \ {0}
      /\ Len(e.replies) < MAX_REPLY
  <2>1. e \in Info /\ Len(e.replies) < MAX_REPLY
    BY DEF EntryFound
  <2> QED
    BY <2>1, InfoFacts, DwordFacts
<1>1. P # {} => \E p \in P : (\A q \in P : q <= p) /\ e.replyto = sqi[p].umsgid
  BY DEF EntryFound
<1>2. ASSUME NEW r \in R, Rank(R, r) < MAX_REPLY
      PROVE  /\ Rank(R, r) \in 1 .. Len(e.replies) /\ Rank(R, r) \in 1 .. MAX_REPLY
             /\ Rank(R, r) <= Len(e.replies)
             /\ e.replies[Rank(R, r)] = sqi[r].umsgid
  <2>1. Rank(R, r) <= Len(e.replies) /\ e.replies[Rank(R, r)] = sqi[r].umsgid
    BY <1>2 DEF EntryFound
  <2>2. Rank(R, r) \in 1 .. Cardinality(R) /\ Cardinality(R) \in Nat
    BY RankProperties
  <2> QED
    BY <2>1, <2>2, <1>0, <1>2
<1>3. CASE e.rewrite
  <2>1. x = Rewritten(old, e)
    BY <1>3 DEF Ended
  <2>2. /\ x.replyto = e.replyto
        /\ \A n \in 1 .. MAX_REPLY : x.replies[n] = IF n <= Len(e.replies) THEN e.replies[n]
                                                    ELSE 0
    BY <2>1, <1>0, RewrittenFacts
  <2>3. MAX_REPLY \in 1 .. MAX_REPLY /\ ~(MAX_REPLY <= Len(e.replies))
    BY <1>0
  <2>4. x.replies[MAX_REPLY] = 0
    BY <2>2, <2>3
  <2>5. \A r \in R : Rank(R, r) < MAX_REPLY => x.replies[Rank(R, r)] = sqi[r].umsgid
    BY <2>2, <1>2
  <2> QED
    BY <2>2, <2>4, <2>5, <1>1 DEF Leading
<1>4. CASE ~e.rewrite
  <2>1. x = old
    BY <1>4 DEF Ended
  <2>2. /\ \A m \in 1 .. Len(e.replies) : e.replies[m] = old.replies[m]
        /\ \A p \in P : sqi[p].umsgid = old.replyto
    BY <1>4 DEF EntryFound
  <2>3. P # {} => \E p \in P : (\A q \in P : q <= p) /\ x.replyto = sqi[p].umsgid
    BY <2>1, <2>2, <1>1
  <2>4. \A r \in R : Rank(R, r) < MAX_REPLY => x.replies[Rank(R, r)] = sqi[r].umsgid
    BY <2>1, <2>2, <1>2
  <2> QED
    BY <2>1, <2>3, <2>4 DEF Leading
<1> QED
  BY <1>3, <1>4

\* The last place for a reply is never used.
LastPlaceEmpty == \A f \in Frames : xmsg[f].replies[MAX_REPLY] = 0

LEMMA LastPlaceInvariance ==
  ASSUME IInv, Linking, LastPlaceEmpty, [Next]_vars
  PROVE  LastPlaceEmpty'
<1>0. /\ Area /\ xmsg \in [Frames -> XMSG] /\ MAX_REPLY \in 1 .. MAX_REPLY
  BY AreaFacts, DwordFacts DEF IInv
<1>1. \A id : Unlinked(id).replies[MAX_REPLY] = 0
  BY <1>0 DEF Unlinked, NoReplies
<1>2. ASSUME NEW f \in Frames, NEW x, xmsg' = [xmsg EXCEPT ![f] = x],
             x.replies[MAX_REPLY] = 0
      PROVE  LastPlaceEmpty'
  BY <1>0, <1>2 DEF LastPlaceEmpty
<1>3. CASE UNCHANGED xmsg
  BY <1>3 DEF LastPlaceEmpty
<1>4. CASE WriteXmsg
  <2>1. xmsg' = [xmsg EXCEPT ![sqsort[1].ofs] = Unlinked(first)] /\ sqsort[1].ofs \in Frames
    BY <1>4, WriteXmsgFacts, NextToWrite
  <2> QED
    BY <2>1, <1>1, <1>2
<1>5. CASE WriteLinks
  <2>1. /\ pc = "link" /\ i \in 1 .. Len(sqi)
        /\ xmsg' = IF msginfo[i].rewrite
                   THEN [xmsg EXCEPT ![sqi[i].ofs] = Rewritten(xmsg[sqi[i].ofs], msginfo[i])]
                   ELSE xmsg
    BY <1>5, WriteLinksFacts DEF WriteLinks
  <2>2. PICK start : LinkTrack(start)
    BY <2>1 DEF Linking
  <2>3. sqi[i].ofs \in Frames /\ msginfo[i] \in Info
    BY <2>1, <2>2, TrackFacts
  <2>4. Len(msginfo[i].replies) < MAX_REPLY /\ Len(msginfo[i].replies) \in Nat
    <3>1. EntryFound(sqi, msginfo[i], start[sqi[i].ofs], RepliesOf(i), ParentsOf(i))
      BY <2>1, <2>2 DEF LinkTrack
    <3> QED
      BY <3>1, <2>3, InfoFacts DEF EntryFound
  <2>5. Rewritten(xmsg[sqi[i].ofs], msginfo[i]).replies[MAX_REPLY] = 0
    <3>1. xmsg[sqi[i].ofs] \in XMSG
      BY <2>3, <1>0
    <3>2. ~(MAX_REPLY <= Len(msginfo[i].replies))
      BY <2>4, DwordFacts
    <3> QED
      BY <3>1, <3>2, <2>3, <1>0, RewrittenFacts
  <2>6. CASE msginfo[i].rewrite
    BY <2>1, <2>3, <2>5, <2>6, <1>2
  <2> QED
    BY <2>1, <2>6, <1>3
<1>6. CASE \E f \in Frames : Toss(f)
  <2>1. PICK f \in Frames : xmsg' = [xmsg EXCEPT ![f] = Unlinked(uid)]
    BY <1>6 DEF Toss
  <2> QED
    BY <2>1, <1>1, <1>2
<1>7. UNCHANGED xmsg \/ WriteXmsg \/ WriteLinks \/ \E f \in Frames : Toss(f)
  <2>1. CASE Sort
    BY <2>1 DEF Sort, SortStep, ReadSql, LockToSort, SortLocked, WriteSqidx, CloseSorted,
                files
  <2>2. CASE Link
    BY <2>2 DEF Link, LinkStep, ReadMsgs, Unlock, files
  <2>3. CASE Other
    <3>1. \/ \E f \in Frames : Toss(f)
          \/ \E k \in 1 .. Len(sqi) : Purge(k) \/ PurgeDies(k)
          \/ \E u \in Users, k \in 1 .. Len(sqi) : ReadOn(u, k)
      BY <2>3, Zenon DEF Other
    <3> QED
      BY <3>1 DEF Purge, PurgeDies, ReadOn
  <2>4. CASE Crash
    BY <2>4 DEF Crash, files
  <2>5. CASE UNCHANGED vars
    BY <2>5 DEF vars, files
  <2> QED
    BY <2>1, <2>2, <2>3, <2>4, <2>5 DEF Next
<1> QED
  BY <1>3, <1>4, <1>5, <1>6, <1>7

LEMMA RepliesFoundAtEnd ==
  ASSUME IInv, Linking, LastPlaceEmpty, LinkDone, NoDuplicates(sqi),
         NEW k \in 1 .. Len(sqi)
  PROVE  LET x == xmsg[sqi[k].ofs]
             parents == {p \in 1 .. Len(sqi) : Answers(k, p)}
             replies == {r \in 1 .. Len(sqi) : Answers(r, k)}
         IN  /\ parents # {} => x.replyto = sqi[Max(parents)].umsgid
             /\ \A r \in replies :
                  LET n == Cardinality({q \in replies : q <= r})
                  IN  n < MAX_REPLY => x.replies[n] = sqi[r].umsgid
             /\ x.replies[MAX_REPLY] = 0
<1> DEFINE f == sqi[k].ofs
           R == RepliesOf(k)
           P == ParentsOf(k)
<1>1. pc = "link"
  BY DEF LinkDone
<1>2. PICK start : LinkTrack(start)
  BY <1>1 DEF Linking
<1>3. /\ f \in Frames /\ start[f] \in XMSG /\ Len(sqi) \in Nat
      /\ EntryFound(sqi, msginfo[k], start[f], R, P)
  BY <1>1, <1>2, TrackFacts
<1>4. xmsg = goal
  BY <1>1, <1>2, RepeatedAtAnyTime
<1>5. xmsg[f] = IF msginfo[k].rewrite THEN Rewritten(start[f], msginfo[k]) ELSE start[f]
  BY <1>2, <1>4 DEF LinkTrack
<1>6. R \in SUBSET (1 .. Len(sqi)) /\ P \in SUBSET (1 .. Len(sqi))
  BY DEF RepliesOf, ParentsOf
<1>7. /\ R = {r \in 1 .. Len(sqi) : Answers(r, k)}
      /\ P = {p \in 1 .. Len(sqi) : Answers(k, p)}
  BY MetAnswers DEF IInv
<1>8. xmsg[f].replies[MAX_REPLY] = 0
  BY <1>3 DEF LastPlaceEmpty
<1> SUFFICES /\ P # {} => xmsg[f].replyto = sqi[Max(P)].umsgid
             /\ \A r \in R : Rank(R, r) < MAX_REPLY =>
                               xmsg[f].replies[Rank(R, r)] = sqi[r].umsgid
  BY <1>7, <1>8 DEF Rank
<1> HIDE DEF f, R, P
<1>11. Ended(xmsg[f], start[f], msginfo[k])
  BY <1>5 DEF Ended
<1>9. Leading(sqi, xmsg[f], R, P)
  BY <1>3, <1>6, <1>11, EntryWritten
<1>10. ASSUME NEW p \in P, \A q \in P : q <= p PROVE Max(P) = p
  <2>0. Len(sqi) \in Nat /\ \A q \in P : q \in Int
    BY <1>3, <1>6
  <2>1. \A q \in P : p >= q
    BY <2>0, <1>10
  <2>2. Max(P) \in P /\ Max(P) >= p
    BY <2>1 DEF Max
  <2>3. Max(P) <= p
    BY <2>2, <1>10
  <2>4. Max(P) \in Int /\ p \in Int
    BY <2>0, <2>2
  <2> QED
    BY <2>2, <2>3, <2>4
<1> QED
  BY <1>9, <1>10 DEF Leading

-----------------------------------------------------------------------------
(* Links between sorted messages. *)

\* The links of the message of entry k lead to its parents and its replies.
LinksLead(k) ==
  LET x == xmsg[sqi[k].ofs]
  IN  /\ x.replyto # 0 =>
           \E j \in 1 .. Len(sqi) : sqi[j].umsgid = x.replyto /\ Answers(k, j)
      /\ \A n \in 1 .. MAX_REPLY : x.replies[n] # 0 =>
           \E j \in 1 .. Len(sqi) : sqi[j].umsgid = x.replies[n] /\ Answers(j, k)

\* Outside of a sort, those of the messages that were sorted do at every moment.
SortedLead ==
  ~Sorting /\ NoDuplicates(sqi) =>
    \A k \in 1 .. Len(sqi) :
      sqi[k].ofs \in sorted /\ frame[sqi[k].ofs] = "normal" => LinksLead(k)

\* Only messages that were tossed are in the index or were sorted.
TossedOnly ==
  /\ \A k \in 1 .. Len(sqi) : frame[sqi[k].ofs] # "none"
  /\ \A f \in sorted : frame[f] # "none"
  /\ Sorting => \A k \in 1 .. Len(before) : frame[before[k].ofs] # "none"

\* The messages that are sorted are those of the old index.
LEMMA OrderedIsBefore ==
  ASSUME text \in Texts, before \in Seq(SQIDX), NEW k \in 1 .. Len(before) - ReadPart
  PROVE  \E j \in 1 .. Len(before) : Ordered[k].ofs = before[j].ofs
<1>1. PICK p \in 1 .. Len(before) - ReadPart : Ordered[k] = Unsorted[p]
  BY OrderedFromUnsorted
<1>2. /\ Unsorted[p] = [ofs |-> before[ReadPart + p].ofs,
                        time |-> text[before[ReadPart + p].ofs].date]
      /\ ReadPart \in 0 .. Len(before) /\ Len(before) \in Nat
  BY OrderedProperties
<1>3. Ordered[k].ofs = before[ReadPart + p].ofs
  BY <1>1, <1>2
<1>4. ReadPart + p \in 1 .. Len(before)
  BY <1>2
<1> QED
  BY <1>3, <1>4

LEMMA TossedOnlyInvariance ==
  ASSUME IInv, TossedOnly, [Next]_vars
  PROVE  TossedOnly'
<1>0. /\ Area /\ frame \in [Frames -> {"none", "normal", "free"}] /\ Len(sqi) \in Nat
      /\ \A k \in 1 .. Len(sqi) : sqi[k].ofs \in Frames
      /\ sorted \subseteq Frames
  BY AreaFacts, MemoryFacts DEF IInv
<1>1. CASE Sort
  <2>1. frame' = frame
    BY <1>1 DEF Sort, SortStep, ReadSql, LockToSort, SortLocked, WriteXmsg, WriteSqidx,
                CloseSorted, files
  <2>2. \A f \in sorted' : frame[f] # "none"
    <3>1. CASE Sorted
      <4>1. sorted' = {sqi[k].ofs : k \in Lastread(before) + 1 .. Len(sqi)}
        BY <1>1, <3>1 DEF Sort
      <4>2. ReadPart \in Nat
        BY <3>1, ProgressFacts DEF Sorted, Sorting
      <4>3. \A k \in ReadPart + 1 .. Len(sqi) : k \in 1 .. Len(sqi)
        BY <1>0, <4>2
      <4> QED
        BY <4>1, <4>3 DEF TossedOnly, ReadPart
    <3>2. CASE ~Sorted
      BY <1>1, <3>2 DEF Sort, TossedOnly
    <3> QED
      BY <3>1, <3>2
  <2>3. CASE WriteSqidx
    <3>1. /\ Sorting /\ idxPos < Len(before) /\ Len(sqi') = Len(sqi)
          /\ sqi'[idxPos + 1].ofs = sqsort[1].ofs
          /\ \A k \in 1 .. Len(sqi) : k # idxPos + 1 => sqi'[k] = sqi[k]
          /\ before' = before /\ text \in Texts /\ before \in Seq(SQIDX)
      BY <2>3, WriteSqidxFacts, ProgressFacts
    <3>2. PICK j \in 1 .. Len(before) : sqsort[1].ofs = before[j].ofs
      <4>1. /\ idxPos + 1 - ReadPart \in 1 .. Len(before) - ReadPart
            /\ sqsort[1] = Ordered[idxPos + 1 - ReadPart]
        BY <3>1, NextToWrite
      <4> QED
        BY <4>1, <3>1, OrderedIsBefore
    <3>3. frame[sqsort[1].ofs] # "none"
      BY <3>1, <3>2 DEF TossedOnly
    <3>4. \A k \in 1 .. Len(sqi') : frame[sqi'[k].ofs] # "none"
      BY <3>1, <3>3 DEF TossedOnly
    <3> QED
      BY <2>1, <2>2, <3>1, <3>4 DEF TossedOnly
  <2>4. CASE LockToSort
    <3>1. before' = sqi /\ sqi' = sqi
      BY <2>4 DEF LockToSort, files
    <3> QED
      BY <2>1, <2>2, <3>1 DEF TossedOnly
  <2>5. CASE WriteXmsg
    <3>1. sqi' = sqi /\ before' = before /\ Sorting
      BY <2>5, WriteXmsgFacts DEF sortHistory
    <3> QED
      BY <2>1, <2>2, <3>1 DEF TossedOnly
  <2>6. CASE ReadSql \/ SortLocked \/ CloseSorted
    <3>1. sqi' = sqi /\ ~Sorting'
      BY <2>6 DEF ReadSql, SortLocked, CloseSorted, EndSort, files, Sorting
    <3> QED
      BY <2>1, <2>2, <3>1 DEF TossedOnly
  <2> QED
    BY <1>1, <2>3, <2>4, <2>5, <2>6 DEF Sort, SortStep
<1>2. CASE Link
  <2>1. /\ UNCHANGED << frame, sqi, sorted, before >> /\ ~Sorting'
    BY <1>2 DEF Link, LinkStep, ReadMsgs, WriteLinks, Unlock, EndLink, files, Sorting,
                sortHistory
  <2> QED
    BY <2>1 DEF TossedOnly
<1>3. ASSUME NEW f \in Frames, Other, Toss(f), UNCHANGED sorted
      PROVE  TossedOnly'
  <2>1. /\ frame' = [frame EXCEPT ![f] = "normal"] /\ pc' = pc /\ pc \in {"idle", "sort"}
        /\ sqi' = Append(sqi, [ofs |-> f, umsgid |-> uid])
    BY <1>3 DEF Other, Toss, Unlocked
  <2>2. \A g \in Frames : frame[g] # "none" => frame'[g] # "none"
    BY <2>1, <1>0
  <2>3. \A k \in 1 .. Len(sqi') : /\ sqi'[k].ofs \in Frames
                                  /\ (frame[sqi'[k].ofs] # "none" \/ sqi'[k].ofs = f)
    <3> DEFINE new == [ofs |-> f, umsgid |-> uid]
    <3>1. new \in SQIDX /\ sqi \in Seq(SQIDX) /\ new.ofs = f
      BY <1>0, AreaFacts DEF SQIDX
    <3>2. sqi' = Append(sqi, new)
      BY <2>1
    <3> HIDE DEF new
    <3>3. /\ Len(sqi') = Len(sqi) + 1 /\ sqi'[Len(sqi) + 1] = new
          /\ \A k \in 1 .. Len(sqi) : sqi'[k] = sqi[k]
      BY <3>1, <3>2, AppendProperties
    <3>4. \A k \in 1 .. Len(sqi') : k \in 1 .. Len(sqi) \/ k = Len(sqi) + 1
      BY <3>3, <1>0
    <3> QED
      BY <3>1, <3>3, <3>4, <1>0 DEF TossedOnly
  <2>4. frame'[f] = "normal" /\ ~Sorting'
    BY <2>1, <1>0 DEF Sorting
  <2> QED
    BY <1>0, <1>3, <2>2, <2>3, <2>4 DEF TossedOnly
<1>4. ASSUME NEW k \in 1 .. Len(sqi), Other, Purge(k) \/ PurgeDies(k), sorted' = {}
      PROVE  TossedOnly'
  <2>1. /\ frame' = [frame EXCEPT ![sqi[k].ofs] = "free"] /\ pc' = pc
        /\ pc \in {"idle", "sort"}
        /\ sqi' = sqi \/ sqi' = RemoveAt(sqi, k)
    BY <1>4 DEF Other, Purge, PurgeDies, Unlocked
  <2>2. \A g \in Frames : frame[g] # "none" => frame'[g] # "none"
    BY <2>1, <1>0
  <2>3. \A j \in 1 .. Len(sqi') : \E m \in 1 .. Len(sqi) : sqi'[j] = sqi[m]
    <3>1. CASE sqi' = RemoveAt(sqi, k)
      <4>1. /\ Len(sqi') = Len(sqi) - 1
            /\ \A j \in 1 .. Len(sqi) - 1 : sqi'[j] = IF j < k THEN sqi[j] ELSE sqi[j + 1]
        BY <3>1, AreaFacts, RemoveAtProperties DEF IInv
      <4>2. \A j \in 1 .. Len(sqi) - 1 : j \in 1 .. Len(sqi) /\ j + 1 \in 1 .. Len(sqi)
        BY <1>0
      <4> QED
        BY <4>1, <4>2
    <3> QED
      BY <3>1, <2>1
  <2>4. ~Sorting'
    BY <2>1 DEF Sorting
  <2> QED
    BY <1>0, <1>4, <2>2, <2>3, <2>4 DEF TossedOnly
<1>5. ASSUME NEW u \in Users, NEW k \in 1 .. Len(sqi), Other, ReadOn(u, k), UNCHANGED sorted
      PROVE  TossedOnly'
  <2>1. UNCHANGED << frame, sqi, pc, before, sorted >>
    BY <1>5 DEF Other, ReadOn
  <2> QED
    BY <2>1 DEF TossedOnly, Sorting
<1>6. CASE Other
  <2>1. \/ \E f \in Frames : Toss(f) /\ UNCHANGED sorted
        \/ \E k \in 1 .. Len(sqi) : (Purge(k) \/ PurgeDies(k)) /\ sorted' = {}
        \/ \E u \in Users, k \in 1 .. Len(sqi) : ReadOn(u, k) /\ UNCHANGED sorted
    BY <1>6, Zenon DEF Other
  <2> QED
    BY <1>6, <2>1, <1>3, <1>4, <1>5
<1>7. CASE Crash
  <2>1. UNCHANGED << frame, sqi >> /\ ~Sorting' /\ (sorted' = {} \/ sorted' = sorted)
    BY <1>7 DEF Crash, EndSort, files, Sorting
  <2> QED
    BY <2>1 DEF TossedOnly
<1>8. CASE UNCHANGED vars
  BY <1>8 DEF vars, files, sortHistory, TossedOnly, Sorting
<1> QED
  BY <1>1, <1>2, <1>6, <1>7, <1>8 DEF Next

LEMMA LeadsKept ==
  ASSUME SortedLead, ~Sorting, UNCHANGED << frame, xmsg, sqi, text >>,
         sorted' = sorted \/ sorted' = {}
  PROVE  SortedLead'
<1>1. \A k \in 1 .. Len(sqi) : LinksLead(k) => LinksLead(k)'
  BY FoundKept DEF LinksLead
<1>2. NoDuplicates(sqi)' <=> NoDuplicates(sqi)
  BY FoundKept
<1> QED
  BY <1>1, <1>2 DEF SortedLead

\* An index that names each message once when it is sorted did so before.
LEMMA DuplicatesKept ==
  ASSUME IInv, Sorted, NoDuplicates(sqi)
  PROVE  NoDuplicates(before)
<1>0. /\ text \in Texts /\ before \in Seq(SQIDX)
      /\ ReadPart \in 0 .. Len(before) /\ ReadPart \in Int /\ Len(before) \in Nat
      /\ Len(sqi) = Len(before)
  BY SortedFacts, ProgressFacts
<1> DEFINE to(k) == IF k <= ReadPart THEN k ELSE ReadPart + NewPlace(Unsorted, k - ReadPart)
<1>1. \A p \in 1 .. Len(before) - ReadPart : NewPlace(Unsorted, p) \in 1 .. Len(before) - ReadPart
  BY <1>0, OrderedProperties
<1>2. \A p, q \in 1 .. Len(before) - ReadPart :
         NewPlace(Unsorted, p) = NewPlace(Unsorted, q) => p = q
  <2>1. /\ Unsorted \in Seq(Msg) /\ Len(Unsorted) = Len(before) - ReadPart
    BY <1>0, OrderedProperties
  <2> QED
    BY <2>1, TimesAreNumbers, NewPlaceBijection
<1>3. ASSUME NEW k \in 1 .. Len(before)
      PROVE  to(k) \in 1 .. Len(before) /\ sqi[to(k)].ofs = before[k].ofs
  <2>1. CASE k <= ReadPart
    BY <2>1, <1>0, SortedFacts
  <2>2. CASE ~(k <= ReadPart)
    <3> DEFINE p == k - ReadPart
               q == NewPlace(Unsorted, p)
    <3>1. p \in 1 .. Len(before) - ReadPart /\ ReadPart + p = k
      BY <2>2, <1>0
    <3>2. /\ q \in 1 .. Len(before) - ReadPart /\ Ordered[q] = Unsorted[p]
          /\ Unsorted[p] = [ofs |-> before[ReadPart + p].ofs,
                            time |-> text[before[ReadPart + p].ofs].date]
      BY <3>1, <1>0, OrderedProperties
    <3>3. to(k) = ReadPart + q
      BY <2>2
    <3> HIDE DEF p, q, to
    <3>4. ReadPart + q \in 1 .. Len(before) /\ ReadPart < ReadPart + q
          /\ (ReadPart + q) - ReadPart = q
      BY <3>2, <1>0
    <3>5. sqi[ReadPart + q].ofs = Ordered[(ReadPart + q) - ReadPart].ofs
      BY <3>4, SortedFacts
    <3>6. Ordered[q].ofs = before[k].ofs
      BY <3>1, <3>2
    <3> QED
      BY <3>3, <3>4, <3>5, <3>6
  <2> QED
    BY <2>1, <2>2
<1>4. ASSUME NEW j \in 1 .. Len(before), NEW k \in 1 .. Len(before), to(j) = to(k)
      PROVE  j = k
  <2>1. CASE j <= ReadPart /\ k <= ReadPart
    BY <2>1, <1>4
  <2>2. CASE ~(j <= ReadPart) /\ ~(k <= ReadPart)
    <3>1. /\ j - ReadPart \in 1 .. Len(before) - ReadPart
          /\ k - ReadPart \in 1 .. Len(before) - ReadPart
      BY <2>2, <1>0
    <3>2. NewPlace(Unsorted, j - ReadPart) = NewPlace(Unsorted, k - ReadPart)
      BY <2>2, <3>1, <1>0, <1>1, <1>4
    <3>3. j - ReadPart = k - ReadPart
      BY <3>1, <3>2, <1>2
    <3> QED
      BY <3>3, <1>0
  <2>3. ASSUME NEW a \in 1 .. Len(before), NEW b \in 1 .. Len(before),
               a <= ReadPart, ~(b <= ReadPart)
        PROVE  to(a) # to(b)
    <3>1. b - ReadPart \in 1 .. Len(before) - ReadPart
      BY <2>3, <1>0
    <3>2. NewPlace(Unsorted, b - ReadPart) \in 1 .. Len(before) - ReadPart
      BY <3>1, <1>1
    <3> QED
      BY <3>2, <2>3, <1>0
  <2> QED
    BY <2>1, <2>2, <2>3, <1>4
<1> HIDE DEF to
<1> QED
  BY <1>0, <1>3, <1>4 DEF NoDuplicates

LEMMA LeadsAtClose ==
  ASSUME IInv, Sorted, UNCHANGED << frame, xmsg, sqi, text >>,
         sorted' = {sqi[k].ofs : k \in Lastread(before) + 1 .. Len(sqi)}
  PROVE  SortedLead'
<1> SUFFICES ASSUME NoDuplicates(sqi), NEW k \in 1 .. Len(sqi), sqi[k].ofs \in sorted'
             PROVE  LinksLead(k)'
  BY FoundKept DEF SortedLead
<1>0. ReadPart \in Nat /\ Len(sqi) \in Nat /\ MAX_REPLY \in Nat
  BY SortedFacts, ProgressFacts, AreaFacts, DwordFacts
<1>1. k \in ReadPart + 1 .. Len(sqi)
  <2>1. PICK j \in ReadPart + 1 .. Len(sqi) : sqi[k].ofs = sqi[j].ofs
    BY DEF ReadPart
  <2>2. j \in 1 .. Len(sqi)
    BY <1>0
  <2> QED
    BY <2>1, <2>2 DEF NoDuplicates
<1>2. xmsg[sqi[k].ofs] = Unlinked(sqi[k].umsgid)
  BY <1>1, DuplicatesKept, TailSortedAtEnd
<1>3. /\ xmsg[sqi[k].ofs].replyto = 0
      /\ \A n \in 1 .. MAX_REPLY : xmsg[sqi[k].ofs].replies[n] = 0
  BY <1>2 DEF Unlinked, NoReplies
<1> QED
  BY <1>3 DEF LinksLead

LEMMA LeadsAtToss ==
  ASSUME IInv, TossedOnly, SortedLead, ~Sorting, NEW f \in Frames, Toss(f),
         UNCHANGED sorted
  PROVE  SortedLead'
<1> DEFINE new == [ofs |-> f, umsgid |-> uid]
           n == Len(sqi)
<1>0. /\ Area /\ n \in Nat /\ sqi \in Seq(SQIDX) /\ \A k \in 1 .. n : sqi[k].ofs \in Frames
      /\ frame \in [Frames -> {"none", "normal", "free"}] /\ xmsg \in [Frames -> XMSG]
      /\ uid \in Nat
  BY AreaFacts DEF IInv
<1>1. /\ frame[f] = "none" /\ frame' = [frame EXCEPT ![f] = "normal"]
      /\ xmsg' = [xmsg EXCEPT ![f] = Unlinked(uid)]
      /\ sqi' = Append(sqi, new) /\ text' = text
  BY DEF Toss
<1>2. /\ Len(sqi') = n + 1 /\ sqi'[n + 1].ofs = f
      /\ \A k \in 1 .. n : sqi'[k] = sqi[k] /\ k \in 1 .. Len(sqi')
      /\ \A k \in 1 .. Len(sqi') : k \in 1 .. n \/ k = n + 1
  <2>1. new \in SQIDX /\ new.ofs = f
    BY <1>0 DEF SQIDX
  <2> HIDE DEF new
  <2>2. /\ Len(sqi') = n + 1 /\ sqi'[n + 1] = new
        /\ \A k \in 1 .. n : sqi'[k] = sqi[k]
    BY <1>0, <1>1, <2>1, AppendProperties
  <2> QED
    BY <1>0, <2>1, <2>2
<1> HIDE DEF new, n
<1>3. \A k \in 1 .. n : sqi[k].ofs # f
  BY <1>1 DEF TossedOnly, n
<1>4. \A k \in 1 .. n : frame'[sqi[k].ofs] = frame[sqi[k].ofs]
                        /\ xmsg'[sqi[k].ofs] = xmsg[sqi[k].ofs]
  BY <1>0, <1>1, <1>3
<1>5. \A r, p \in 1 .. n : Answers(r, p)' <=> Answers(r, p)
  BY <1>1, <1>2, <1>4 DEF Answers
<1>6. ASSUME NEW k \in 1 .. n, LinksLead(k) PROVE LinksLead(k)'
  <2> DEFINE x == xmsg[sqi[k].ofs]
  <2>1. xmsg'[sqi'[k].ofs] = x
    BY <1>2, <1>4
  <2>2. x.replyto # 0 => \E j \in 1 .. n : sqi[j].umsgid = x.replyto /\ Answers(k, j)
    BY <1>6 DEF LinksLead, n
  <2>3. \A m \in 1 .. MAX_REPLY : x.replies[m] # 0 =>
          \E j \in 1 .. n : sqi[j].umsgid = x.replies[m] /\ Answers(j, k)
    BY <1>6 DEF LinksLead, n
  <2> HIDE DEF x
  <2>4. x.replyto # 0 =>
          \E j \in 1 .. Len(sqi') : sqi'[j].umsgid = x.replyto /\ Answers(k, j)'
    BY <2>2, <1>2, <1>5
  <2>5. \A m \in 1 .. MAX_REPLY : x.replies[m] # 0 =>
          \E j \in 1 .. Len(sqi') : sqi'[j].umsgid = x.replies[m] /\ Answers(j, k)'
    BY <2>3, <1>2, <1>5
  <2> QED
    BY <2>1, <2>4, <2>5 DEF LinksLead
<1>7. NoDuplicates(sqi') => NoDuplicates(sqi)
  BY <1>2 DEF NoDuplicates, n
<1>8. f \notin sorted
  BY <1>1 DEF TossedOnly
<1>9. ASSUME NoDuplicates(sqi'), NEW k \in 1 .. Len(sqi'), sqi'[k].ofs \in sorted,
             frame'[sqi'[k].ofs] = "normal"
      PROVE  LinksLead(k)'
  <2>1. k \in 1 .. n
    BY <1>2, <1>8, <1>9
  <2>2. LinksLead(k)
    BY <2>1, <1>2, <1>4, <1>7, <1>9 DEF SortedLead, n
  <2> QED
    BY <2>1, <2>2, <1>6
<1> QED
  BY <1>9 DEF SortedLead

\* What link has found leads to parents and replies.
LEMMA RewrittenLeads ==
  ASSUME IInv, pc = "link", NEW start, LinkTrack(start), NEW k \in 1 .. Len(sqi),
         NEW x, x = Rewritten(xmsg[sqi[k].ofs], msginfo[k])
  PROVE  /\ x.replyto # 0 =>
              \E j \in 1 .. Len(sqi) : sqi[j].umsgid = x.replyto /\ Answers(k, j)
         /\ \A n \in 1 .. MAX_REPLY : x.replies[n] # 0 =>
              \E j \in 1 .. Len(sqi) : sqi[j].umsgid = x.replies[n] /\ Answers(j, k)
<1> DEFINE e == msginfo[k]
           R == {r \in 1 .. Len(sqi) : Answers(r, k)}
           P == {p \in 1 .. Len(sqi) : Answers(k, p)}
<1>1. /\ e \in Info /\ xmsg[sqi[k].ofs] \in XMSG /\ MAX_REPLY \in Nat
      /\ Len(e.replies) \in Nat
      /\ EntryFound(sqi, e, start[sqi[k].ofs], RepliesOf(k), ParentsOf(k))
  <2>1. /\ e \in Info /\ xmsg[sqi[k].ofs] \in XMSG
        /\ EntryFound(sqi, e, start[sqi[k].ofs], RepliesOf(k), ParentsOf(k))
    BY TrackFacts
  <2> QED
    BY <2>1, InfoFacts, DwordFacts
<1>2. RepliesOf(k) = R /\ ParentsOf(k) = P
  BY MetAnswers DEF IInv
<1>3. /\ x.replyto = e.replyto
      /\ \A n \in 1 .. MAX_REPLY :
           x.replies[n] = IF n <= Len(e.replies) THEN e.replies[n] ELSE 0
  BY <1>1, RewrittenFacts
<1> HIDE DEF R, P, e
<1>4. EntryFound(sqi, e, start[sqi[k].ofs], R, P)
  BY <1>1, <1>2
<1>5. e.replyto # 0 => \E p \in P : e.replyto = sqi[p].umsgid
  BY <1>4 DEF EntryFound
<1>6. ASSUME NEW n \in 1 .. MAX_REPLY, x.replies[n] # 0
      PROVE  \E r \in R : x.replies[n] = sqi[r].umsgid
  <2>1. n \in 1 .. Len(e.replies) /\ x.replies[n] = e.replies[n] /\ n < MAX_REPLY
    <3>1. n <= Len(e.replies) /\ x.replies[n] = e.replies[n]
      BY <1>3, <1>6
    <3>2. Len(e.replies) < MAX_REPLY
      BY <1>4 DEF EntryFound
    <3> QED
      BY <3>1, <3>2, <1>1
  <2>2. PICK r \in R : Rank(R, r) = n
    BY <2>1, <1>4 DEF EntryFound
  <2>3. e.replies[Rank(R, r)] = sqi[r].umsgid
    BY <2>1, <2>2, <1>4 DEF EntryFound
  <2> QED
    BY <2>1, <2>2, <2>3
<1> QED
  BY <1>3, <1>5, <1>6 DEF R, P

LEMMA LeadsAtWriteLinks ==
  ASSUME IInv, Linking, SortedLead, WriteLinks, UNCHANGED sorted
  PROVE  SortedLead'
<1>1. /\ pc = "link" /\ i \in 1 .. Len(sqi)
      /\ xmsg' = IF msginfo[i].rewrite
                 THEN [xmsg EXCEPT ![sqi[i].ofs] = Rewritten(xmsg[sqi[i].ofs], msginfo[i])]
                 ELSE xmsg
      /\ UNCHANGED << frame, sqi, text >>
  BY WriteLinksFacts DEF WriteLinks
<1>2. PICK start : LinkTrack(start)
  BY <1>1 DEF Linking
<1>3. /\ xmsg \in [Frames -> XMSG] /\ \A e \in 1 .. Len(sqi) : sqi[e].ofs \in Frames
      /\ ~Sorting
  BY <1>1, <1>2, TrackFacts DEF Sorting
<1> SUFFICES ASSUME NoDuplicates(sqi), NEW k \in 1 .. Len(sqi), sqi[k].ofs \in sorted,
                    frame[sqi[k].ofs] = "normal"
             PROVE  LinksLead(k)'
  BY <1>1, FoundKept DEF SortedLead
<1>4. LinksLead(k)
  BY <1>3 DEF SortedLead
<1>5. \A r, p : Answers(r, p)' <=> Answers(r, p)
  BY <1>1, FoundKept
<1>6. CASE k = i /\ msginfo[i].rewrite
  <2> DEFINE x == Rewritten(xmsg[sqi[k].ofs], msginfo[k])
  <2>1. /\ x.replyto # 0 =>
             \E j \in 1 .. Len(sqi) : sqi[j].umsgid = x.replyto /\ Answers(k, j)
        /\ \A n \in 1 .. MAX_REPLY : x.replies[n] # 0 =>
             \E j \in 1 .. Len(sqi) : sqi[j].umsgid = x.replies[n] /\ Answers(j, k)
    BY <1>1, <1>2, RewrittenLeads
  <2>2. xmsg'[sqi'[k].ofs] = x
    BY <1>1, <1>3, <1>6
  <2> HIDE DEF x
  <2> QED
    BY <2>1, <2>2, <1>1, <1>5 DEF LinksLead
<1>7. CASE ~(k = i /\ msginfo[i].rewrite)
  <2>1. xmsg'[sqi'[k].ofs] = xmsg[sqi[k].ofs]
    <3>1. k # i => sqi[k].ofs # sqi[i].ofs
      BY <1>1 DEF NoDuplicates
    <3> QED
      BY <3>1, <1>1, <1>3, <1>7
  <2> QED
    BY <2>1, <1>1, <1>4, <1>5 DEF LinksLead
<1> QED
  BY <1>6, <1>7

LEMMA SortedLeadInvariance ==
  ASSUME IInv, Linking, TossedOnly, SortedLead, [Next]_vars
  PROVE  SortedLead'
<1>1. CASE Sort
  <2>1. CASE ReadSql \/ SortLocked
    <3>1. /\ UNCHANGED << frame, xmsg, sqi, text >> /\ ~Sorting /\ ~Sorted
      BY <2>1 DEF ReadSql, SortLocked, files, Sorting, Sorted
    <3>2. sorted' = sorted
      BY <1>1, <3>1 DEF Sort
    <3> QED
      BY <3>1, <3>2, LeadsKept
  <2>2. CASE LockToSort \/ WriteXmsg \/ WriteSqidx
    <3>1. Sorting'
      BY <2>2 DEF LockToSort, WriteXmsg, WriteSqidx, Sorting
    <3> QED
      BY <3>1 DEF SortedLead
  <2>3. CASE CloseSorted
    <3>1. UNCHANGED << frame, xmsg, sqi, text >> /\ Sorted
      BY <2>3 DEF CloseSorted, files
    <3>2. sorted' = {sqi[k].ofs : k \in Lastread(before) + 1 .. Len(sqi)}
      BY <1>1, <3>1 DEF Sort
    <3> QED
      BY <3>1, <3>2, LeadsAtClose
  <2> QED
    BY <1>1, <2>1, <2>2, <2>3 DEF Sort, SortStep
<1>2. CASE Link
  <2>1. sorted' = sorted
    BY <1>2 DEF Link
  <2>2. CASE ReadMsgs \/ Unlock
    <3>1. UNCHANGED << frame, xmsg, sqi, text >> /\ ~Sorting
      BY <2>2 DEF ReadMsgs, Unlock, LinkDone, files, Sorting
    <3> QED
      BY <2>1, <3>1, LeadsKept
  <2> QED
    BY <1>2, <2>1, <2>2, LeadsAtWriteLinks DEF Link, LinkStep
<1>3. CASE Other
  <2>1. CASE \E f \in Frames : Toss(f) /\ UNCHANGED sorted
    <3>1. ~Sorting
      BY <2>1 DEF Toss, Unlocked, Sorting
    <3> QED
      BY <2>1, <3>1, LeadsAtToss
  <2>2. CASE sorted' = {}
    BY <2>2 DEF SortedLead
  <2>3. CASE \E u \in Users, k \in 1 .. Len(sqi) : ReadOn(u, k) /\ UNCHANGED sorted
    <3>1. UNCHANGED << frame, xmsg, sqi, text, pc, sorted >>
      BY <1>3, <2>3 DEF Other, ReadOn
    <3>2. CASE Sorting
      BY <3>1, <3>2 DEF SortedLead, Sorting
    <3>3. CASE ~Sorting
      BY <3>1, <3>3, LeadsKept
    <3> QED
      BY <3>2, <3>3
  <2>4. \/ \E f \in Frames : Toss(f) /\ UNCHANGED sorted
        \/ sorted' = {}
        \/ \E u \in Users, k \in 1 .. Len(sqi) : ReadOn(u, k) /\ UNCHANGED sorted
    BY <1>3, Zenon DEF Other
  <2> QED
    BY <2>1, <2>2, <2>3, <2>4
<1>4. CASE Crash
  <2>1. UNCHANGED << frame, xmsg, sqi, text >> /\ sorted' = IF Sorting THEN {} ELSE sorted
    BY <1>4 DEF Crash, files
  <2>2. CASE Sorting
    BY <2>1, <2>2 DEF SortedLead
  <2>3. CASE ~Sorting
    BY <2>1, <2>3, LeadsKept
  <2> QED
    BY <2>2, <2>3
<1>5. CASE UNCHANGED vars
  <2>1. UNCHANGED << frame, xmsg, sqi, text, pc, sorted >>
    BY <1>5 DEF vars, files
  <2>2. CASE Sorting
    BY <2>1, <2>2 DEF SortedLead, Sorting
  <2>3. CASE ~Sorting
    BY <2>1, <2>3, LeadsKept
  <2> QED
    BY <2>2, <2>3
<1> QED
  BY <1>1, <1>2, <1>3, <1>4, <1>5 DEF Next

-----------------------------------------------------------------------------
(* The theorems about link. *)

\* The inductive invariant of link.
LinkInv == IInv /\ Linking /\ LastPlaceEmpty /\ TossedOnly /\ SortedLead

\* At every moment of a link, what it has found is what there is to find, the messages in
\* front of the next one to write are as they will be, and the links between sorted
\* messages lead where they should (linkarea.c:180-255).
THEOREM LinkInvariance == Spec => []LinkInv
<1>1. Init => Linking /\ LastPlaceEmpty /\ TossedOnly /\ SortedLead
  <2> SUFFICES ASSUME Init PROVE Linking /\ LastPlaceEmpty /\ TossedOnly /\ SortedLead
    OBVIOUS
  <2>1. /\ pc = "idle" /\ sqi = << >> /\ sorted = {}
        /\ xmsg = [f \in Frames |-> Unlinked(0)]
    BY DEF Init, InitWith, InitArea
  <2>2. Linking /\ TossedOnly /\ SortedLead
    BY <2>1 DEF Linking, TossedOnly, SortedLead, Sorting
  <2>3. LastPlaceEmpty
    <3>1. MAX_REPLY \in 1 .. MAX_REPLY
      BY DwordFacts
    <3> QED
      BY <2>1, <3>1 DEF LastPlaceEmpty, Unlinked, NoReplies
  <2> QED
    BY <2>2, <2>3
<1>2. LinkInv /\ [Next]_vars => LinkInv'
  BY NextInvariant, LinkingInvariance, LastPlaceInvariance, TossedOnlyInvariance,
     SortedLeadInvariance DEF LinkInv
<1>3. Init => LinkInv
  BY <1>1, InitInvariant DEF LinkInv
<1> QED
  BY <1>2, <1>3, PTL DEF Spec

\* A link that dies between two writes is completed by the next one, which would come to
\* the same end at each moment, and a second link changes nothing (linkarea.c:202, 213,
\* 225-255).
THEOREM LinkRepeated == Spec => []LinkRepeatable
<1>1. LinkInv => LinkRepeatable
  BY RepeatedAtAnyTime DEF LinkInv, Linking, LinkRepeatable
<1> QED
  BY <1>1, LinkInvariance, PTL

\* Link finds what there is to find: each reply comes to lead to the last message that
\* it answers, and each message to its replies in the order of the index, as many as
\* there is room for (linkarea.c:71-92, 180-222).
THEOREM LinkFinds == Spec => []RepliesFound
<1>1. LinkInv => RepliesFound
  BY RepliesFoundAtEnd DEF LinkInv, RepliesFound
<1> QED
  BY <1>1, LinkInvariance, PTL

\* Between messages that were sorted, and until the next purge, each link leads to a
\* message with the id that the REPLY names, or to a reply, wherever a link died and
\* whatever was tossed (sortarea.c:142-144, linkarea.c:225-250).
THEOREM SortedLinks == Spec => []SortedLinked
<1>1. LinkInv => SortedLinked
  <2> SUFFICES ASSUME LinkInv, LinkDone, NoDuplicates(sqi), NEW k \in 1 .. Len(sqi),
                      sqi[k].ofs \in sorted, frame[sqi[k].ofs] = "normal"
               PROVE  LinksLead(k)
    BY DEF SortedLinked, LinksLead
  <2>1. ~Sorting /\ SortedLead
    BY DEF LinkInv, LinkDone, Sorting
  <2> QED
    BY <2>1 DEF SortedLead
<1> QED
  BY <1>1, LinkInvariance, PTL
==============================================================================
