---------------------------- MODULE JamPack_proofs ----------------------------
(***************************************************************************)
(* Proofs about JamPack, for every set of messages, every BaseMsgNum and   *)
(* every number of users.                                                  *)
(***************************************************************************)
EXTENDS JamPack, DateSort_proofs

-----------------------------------------------------------------------------
(* The inductive invariant. *)

\* The index names each message once.
Once == \A j, k \in 1 .. oldmsgs : idx[j] # Cleared /\ idx[j] = idx[k] => j = k

\* The first entry that the loop has not passed.
Ahead == IF pc = "copy" THEN i ELSE oldmsgs + 1

\* What is in memory belongs to the messages that were copied.
Counted ==
  /\ HdrInfo.ActiveMsgs = Len(newidx)
  /\ Len(replyinfo) = Len(newidx)
  /\ Len(numinfo) = oldmsgs
  /\ msgnum = IF newidx = << >> THEN 0 ELSE Len(newidx) + 1
  /\ newidx # << >> => HdrInfo.BaseMsgNum = 1

\* The live messages that the loop has passed are copied, in their order, and
\* numbered.
Copied ==
  /\ \A k \in 1 .. Len(newidx) :
       /\ newidx[k] \in Live /\ EntryOf(newidx[k]) < Ahead
       /\ newhdr[newidx[k]].MsgNum = k
  /\ \A j, k \in 1 .. Len(newidx) :
       j < k => EntryOf(newidx[j]) < EntryOf(newidx[k])
  /\ \A e \in 1 .. Ahead - 1 :
       idx[e] \in Live => \E k \in 1 .. Len(newidx) : newidx[k] = idx[e]

\* delta and the messages copied so far make up the number of the entry that
\* was passed last, unless a header was rejected.
Delta ==
  /\ delta + Len(newidx) < Number(Ahead)
  /\ rejected \cap Entries = {} =>
       /\ delta + Len(newidx) = Number(Ahead) - 1
       /\ \A k \in 1 .. Len(newidx) : Number(EntryOf(newidx[k])) <= k + delta

\* delta counts what was left out so far, and there may be nothing.
LeavesOut ==
  delta > 0 <=> hdrinfo.BaseMsgNum > 1 \/ \E e \in 1 .. Ahead - 1 : idx[e] = Cleared

\* The entries with numbers up to mark whose new number, plus delta, is higher;
\* and the cleared entries with higher numbers.
MovedOver(mark) ==
  {k \in 1 .. Len(newidx) :
     Number(EntryOf(newidx[k])) <= mark /\ mark < k + delta}
ClearedBehind(mark) ==
  {e \in 1 .. Ahead - 1 : idx[e] = Cleared /\ Number(e) > mark}

FewMovedOver ==
  \A mark \in Nat : Cardinality(MovedOver(mark)) <= Cardinality(ClearedBehind(mark))

LastReadsMoved ==
  newlrd = IF delta > 0 THEN [u \in 1 .. Len(lrd) |-> Moved(lrd[u])] ELSE << >>

IInv ==
  /\ TypeOK /\ Once
  /\ pc # "idle" => Counted /\ Copied /\ Delta /\ LeavesOut /\ FewMovedOver
  /\ pc = "replace" => LastReadsMoved

-----------------------------------------------------------------------------
(* What the invariant says of the variables. *)

\* A dword from which another number is taken is a dword (packarea.c:479, 502).
LEMMA SubType == \A a, b \in Int : Sub(a, b) \in 0 .. Dword - 1
<1>1. Dword \in Nat \ {0}
  BY JamPackAssumption, FS_CardinalityType
<1>2. \A n \in Int : n % Dword \in 0 .. Dword - 1
  BY <1>1
<1> QED
  BY <1>2 DEF Sub

LEMMA AreaFacts ==
  ASSUME TypeOK
  PROVE  /\ oldmsgs \in Nat /\ DOMAIN idx = 1 .. oldmsgs
         /\ \A k \in 1 .. oldmsgs : idx[k] \in Msgs \cup {Cleared}
         /\ Entries \subseteq Msgs /\ Live \subseteq Msgs
         /\ \A k \in 1 .. oldmsgs : idx[k] \in Entries <=> idx[k] # Cleared
         /\ hdrinfo.BaseMsgNum \in Nat \ {0}
         /\ \A k \in Int : Number(k) \in Int /\ Number(k + 1) = Number(k) + 1
<1>1. idx \in Seq(Msgs \cup {Cleared})
  BY DEF TypeOK
<1>2. /\ oldmsgs \in Nat /\ DOMAIN idx = 1 .. oldmsgs
      /\ \A k \in 1 .. oldmsgs : idx[k] \in Msgs \cup {Cleared}
  BY <1>1, LenProperties, ElementOfSeq DEF oldmsgs
<1>3. Entries \subseteq Msgs /\ Live \subseteq Msgs
  BY <1>2 DEF Entries, Live, ToSet
<1>4. \A k \in 1 .. oldmsgs : idx[k] \in Entries <=> idx[k] # Cleared
  BY <1>2 DEF Entries, ToSet
<1>5. hdrinfo.BaseMsgNum \in Nat \ {0}
  BY DEF TypeOK
<1>6. \A k \in Int : Number(k) \in Int /\ Number(k + 1) = Number(k) + 1
  BY <1>5 DEF Number
<1> QED
  BY <1>2, <1>3, <1>4, <1>5, <1>6

LEMMA NewFacts ==
  ASSUME TypeOK
  PROVE  /\ Len(newidx) \in Nat /\ DOMAIN newidx = 1 .. Len(newidx)
         /\ \A k \in 1 .. Len(newidx) : newidx[k] \in Msgs
         /\ \A m \in Msgs : newhdr[m].MsgNum \in Nat
                            /\ newhdr[m].links \in [LinkFields -> Nat]
         /\ i \in Nat \ {0} /\ delta \in Nat /\ msgnum \in Nat
         /\ HdrInfo.BaseMsgNum \in Nat \ {0} /\ HdrInfo.ActiveMsgs \in Nat
<1>1. newidx \in Seq(Msgs)
  BY DEF TypeOK
<1>2. /\ Len(newidx) \in Nat /\ DOMAIN newidx = 1 .. Len(newidx)
      /\ \A k \in 1 .. Len(newidx) : newidx[k] \in Msgs
  BY <1>1, LenProperties, ElementOfSeq
<1>3. /\ \A m \in Msgs : newhdr[m] \in [MsgNum : Nat, links : [LinkFields -> Nat]]
      /\ HdrInfo.BaseMsgNum \in Nat \ {0} /\ HdrInfo.ActiveMsgs \in Nat
      /\ i \in Nat \ {0} /\ delta \in Nat /\ msgnum \in Nat
  BY DEF TypeOK
<1> QED
  BY <1>2, <1>3

\* The entry of a message is the only one that names it.
LEMMA EntryIs ==
  ASSUME TypeOK, Once, NEW e \in 1 .. oldmsgs, idx[e] # Cleared
  PROVE  EntryOf(idx[e]) = e
<1>1. \A k \in 1 .. oldmsgs : idx[k] = idx[e] => k = e
  BY DEF Once
<1> QED
  BY <1>1 DEF EntryOf, oldmsgs

LEMMA LiveEntry ==
  ASSUME TypeOK, Once, NEW m \in Live
  PROVE  /\ EntryOf(m) \in 1 .. oldmsgs /\ idx[EntryOf(m)] = m
         /\ m # Cleared /\ m \in Msgs
<1>1. m \in Msgs /\ m # Cleared /\ m \in ToSet(idx)
  BY AreaFacts DEF Live, Entries
<1>2. PICK e \in 1 .. oldmsgs : idx[e] = m
  BY <1>1, AreaFacts DEF ToSet
<1> QED
  BY <1>1, <1>2, EntryIs

\* There are not more messages in the new area than in the old one.
LEMMA NewLength ==
  ASSUME TypeOK, Once, Copied
  PROVE  Len(newidx) <= Cardinality(Msgs) /\ Len(newidx) \in 0 .. Dword - 1
<1> DEFINE n == Len(newidx)
<1>1. newidx \in [1 .. n -> Msgs] /\ n \in Nat
  BY LenProperties DEF TypeOK
<1>2. ASSUME NEW j \in 1 .. n, NEW k \in 1 .. n, newidx[j] = newidx[k]
      PROVE  j = k
  <2>1. /\ j < k => EntryOf(newidx[j]) < EntryOf(newidx[k])
        /\ k < j => EntryOf(newidx[k]) < EntryOf(newidx[j])
    BY DEF Copied
  <2>2. EntryOf(newidx[j]) \in Int /\ EntryOf(newidx[k]) = EntryOf(newidx[j])
    <3>1. newidx[j] \in Live
      BY DEF Copied
    <3> QED
      BY <1>2, <3>1, LiveEntry
  <2> QED
    BY <1>1, <2>1, <2>2
<1>3. newidx \in Injection(1 .. n, Msgs)
  BY <1>1, <1>2 DEF Injection, IsInjective
<1>4. Cardinality(1 .. n) <= Cardinality(Msgs)
  <2> HIDE DEF n
  <2> QED
    BY <1>3, JamPackAssumption, FS_Injection
<1>5. Cardinality(1 .. n) = n
  <2>1. 1 \in Int /\ n \in Int /\ (1 > n => n = 0) /\ n - 1 + 1 = n
    BY <1>1
  <2> HIDE DEF n
  <2>2. Cardinality(1 .. n) = IF 1 > n THEN 0 ELSE n - 1 + 1
    BY <2>1, FS_Interval
  <2> QED
    BY <2>1, <2>2
<1>6. Cardinality(Msgs) \in Nat /\ Cardinality(Msgs) < Dword /\ Dword \in Nat
  BY JamPackAssumption, FS_CardinalityType
<1> QED
  BY <1>1, <1>4, <1>5, <1>6

\* What depends on the old files only.
LEMMA AreaKept ==
  ASSUME UNCHANGED area
  PROVE  /\ oldmsgs' = oldmsgs /\ Entries' = Entries /\ Live' = Live
         /\ \A k : Number(k)' = Number(k)
         /\ \A m : EntryOf(m)' = EntryOf(m)
         /\ Once' = Once
BY DEF area, oldmsgs, Entries, Live, Number, EntryOf, Once

-----------------------------------------------------------------------------
(* The steps of the first loop. *)

LEMMA ReadHdrInfoStep == ASSUME IInv, ReadHdrInfo PROVE IInv'
<1>1. TypeOK /\ Once /\ pc = "idle" /\ pc' = "copy" /\ UNCHANGED area
  BY DEF IInv, ReadHdrInfo
<1>2. /\ newidx' = << >> /\ replyinfo' = << >> /\ Len(newidx') = 0
      /\ i' = 1 /\ msgnum' = 0 /\ delta' = hdrinfo.BaseMsgNum - 1
      /\ HdrInfo' = [hdrinfo EXCEPT !.ActiveMsgs = 0]
      /\ newhdr' = [m \in Msgs |-> NoHdr] /\ newlrd' = << >>
      /\ numinfo' = [k \in 1 .. oldmsgs |-> 0]
  BY DEF ReadHdrInfo
<1>3. /\ oldmsgs \in Nat /\ oldmsgs' = oldmsgs
      /\ hdrinfo.BaseMsgNum \in Nat \ {0} /\ delta' \in Nat
  BY <1>1, <1>2, AreaFacts, AreaKept
<1>4. numinfo' \in Seq(Nat) /\ Len(numinfo') = oldmsgs
  <2>1. numinfo' \in [1 .. oldmsgs -> Nat]
    BY <1>2
  <2> QED
    BY <2>1, <1>3
<1>5. HdrInfo' \in [BaseMsgNum : Nat \ {0}, ActiveMsgs : Nat,
                    highwater : 0 .. Dword - 1] /\ HdrInfo'.ActiveMsgs = 0
  BY <1>1, <1>2 DEF TypeOK
<1>6. newhdr' \in [Msgs -> [MsgNum : Nat, links : [LinkFields -> Nat]]]
  BY <1>2 DEF NoHdr
<1>7. TypeOK'
  <2>1. /\ replyinfo' \in Seq([LinkFields -> 0 .. Dword - 1])
        /\ newidx' \in Seq(Msgs) /\ newlrd' \in Seq(Nat)
    BY <1>2, EmptySeq
  <2>2. i' \in Nat \ {0} /\ i' <= oldmsgs' + 1 /\ msgnum' \in Nat
    BY <1>2, <1>3
  <2> QED
    BY <1>1, <1>3, <1>4, <1>5, <1>6, <2>1, <2>2 DEF TypeOK, area
<1>8. Once'
  BY <1>1, AreaKept
<1>9. Counted'
  BY <1>2, <1>3, <1>4, <1>5 DEF Counted
<1>10. Ahead' = 1
  BY <1>1, <1>2 DEF Ahead
<1>11. Copied'
  BY <1>2, <1>10 DEF Copied
<1>12. Delta'
  <2>1. Number(1)' = hdrinfo.BaseMsgNum
    BY <1>1, <1>3 DEF Number, area
  <2> QED
    BY <1>2, <1>3, <1>10, <2>1 DEF Delta
<1>14. LeavesOut'
  BY <1>1, <1>2, <1>3, <1>10 DEF LeavesOut, area
<1>13. FewMovedOver'
  <2> SUFFICES ASSUME NEW mark \in Nat
               PROVE  Cardinality(MovedOver(mark)') <= Cardinality(ClearedBehind(mark)')
    BY DEF FewMovedOver
  <2>1. MovedOver(mark)' = {} /\ ClearedBehind(mark)' = {}
    BY <1>2, <1>10 DEF MovedOver, ClearedBehind
  <2> QED
    BY <2>1, FS_EmptySet
<1> QED
  BY <1>1, <1>7, <1>8, <1>9, <1>11, <1>12, <1>13, <1>14 DEF IInv

\* What the three ways through the body of the first loop have in common.
LEMMA LoopFacts ==
  ASSUME IInv, pc = "copy", i <= oldmsgs, UNCHANGED << area, pc >>, i' = i + 1
  PROVE  /\ TypeOK /\ Once /\ Counted /\ Copied /\ Delta /\ LeavesOut /\ FewMovedOver
         /\ pc' = "copy" /\ i \in 1 .. oldmsgs /\ i' \in 1 .. oldmsgs + 1
         /\ Ahead = i /\ Ahead' = i + 1
         /\ oldmsgs' = oldmsgs /\ Entries' = Entries /\ Live' = Live
         /\ rejected' = rejected /\ idx' = idx /\ hdrinfo' = hdrinfo
         /\ \A k : Number(k)' = Number(k)
         /\ \A m : EntryOf(m)' = EntryOf(m)
         /\ Once'
         /\ Number(i) \in Int /\ Number(i + 1) = Number(i) + 1
<1>1. TypeOK /\ Once /\ Counted /\ Copied /\ Delta /\ LeavesOut /\ FewMovedOver
  BY DEF IInv
<1>2. i \in 1 .. oldmsgs /\ i' \in 1 .. oldmsgs + 1 /\ oldmsgs \in Nat
  <2>1. i \in Nat \ {0} /\ oldmsgs \in Nat
    BY <1>1, NewFacts, AreaFacts
  <2> QED
    BY <2>1
<1>3. Ahead = i /\ Ahead' = i + 1 /\ pc' = "copy"
  BY DEF Ahead
<1>4. Number(i) \in Int /\ Number(i + 1) = Number(i) + 1
  <2>1. i \in Int
    BY <1>2
  <2> QED
    BY <1>1, <2>1, AreaFacts, Zenon
<1>5. rejected' = rejected /\ idx' = idx /\ hdrinfo' = hdrinfo
  BY DEF area
<1> QED
  BY <1>1, <1>2, <1>3, <1>4, <1>5, AreaKept

\* The sets that FewMovedOver counts are finite.
LEMMA CountedSets ==
  ASSUME TypeOK, NEW mark \in Nat, NEW n \in Int
  PROVE  /\ IsFiniteSet(MovedOver(mark))
         /\ Cardinality(MovedOver(mark)) \in Nat
         /\ IsFiniteSet({e \in 1 .. n : idx[e] = Cleared /\ Number(e) > mark})
         /\ Cardinality({e \in 1 .. n : idx[e] = Cleared /\ Number(e) > mark}) \in Nat
<1> DEFINE behind == {e \in 1 .. n : idx[e] = Cleared /\ Number(e) > mark}
           all == 1 .. Len(newidx)
<1>1. IsFiniteSet(1 .. n) /\ IsFiniteSet(all)
  BY NewFacts, FS_Interval
<1>2. behind \in SUBSET (1 .. n) /\ MovedOver(mark) \in SUBSET all
  BY DEF MovedOver
<1> HIDE DEF behind, all
<1>3. IsFiniteSet(behind) /\ IsFiniteSet(MovedOver(mark))
  BY <1>1, <1>2, FS_Subset
<1> QED
  BY <1>3, FS_CardinalityType DEF behind

LEMMA SkipClearedStep == ASSUME IInv, SkipCleared PROVE IInv'
<1>1. /\ pc = "copy" /\ i <= oldmsgs /\ UNCHANGED << area, pc >> /\ i' = i + 1
      /\ idx[i] = Cleared /\ delta' = delta + 1
      /\ HdrInfo' = [HdrInfo EXCEPT !.highwater = Sub(@, 1)]
      /\ UNCHANGED << msgnum, numinfo, replyinfo, newidx, newhdr, newlrd >>
  BY DEF SkipCleared, LeftOut, new
<1>2. /\ TypeOK /\ Once /\ Counted /\ Copied /\ Delta /\ LeavesOut /\ FewMovedOver
      /\ pc' = "copy" /\ i \in 1 .. oldmsgs /\ i' \in 1 .. oldmsgs + 1
      /\ Ahead = i /\ Ahead' = i + 1
      /\ oldmsgs' = oldmsgs /\ Entries' = Entries /\ Live' = Live
      /\ rejected' = rejected /\ idx' = idx /\ hdrinfo' = hdrinfo
      /\ \A k : Number(k)' = Number(k)
      /\ \A m : EntryOf(m)' = EntryOf(m)
      /\ Once'
      /\ Number(i) \in Int /\ Number(i + 1) = Number(i) + 1
  BY <1>1, LoopFacts
<1>3. delta \in Nat /\ Len(newidx) \in Nat /\ i \in Nat \ {0} /\ oldmsgs \in Nat
  BY <1>2, NewFacts, AreaFacts
<1>4. TypeOK'
  <2>1. HdrInfo' \in [BaseMsgNum : Nat \ {0}, ActiveMsgs : Nat,
                      highwater : 0 .. Dword - 1]
    <3>1. HdrInfo \in [BaseMsgNum : Nat \ {0}, ActiveMsgs : Nat,
                       highwater : 0 .. Dword - 1]
      BY <1>2 DEF TypeOK
    <3>2. Sub(HdrInfo.highwater, 1) \in 0 .. Dword - 1
      <4>1. HdrInfo.highwater \in 0 .. Dword - 1 /\ Dword \in Nat
        BY <3>1, JamPackAssumption
      <4>2. HdrInfo.highwater \in Int /\ 1 \in Int
        BY <4>1
      <4> QED
        BY <4>2, SubType, Zenon
    <3> QED
      BY <1>1, <3>1, <3>2
  <2>2. i' \in Nat \ {0} /\ i' <= oldmsgs' + 1 /\ delta' \in Nat
    BY <1>1, <1>2, <1>3
  <2> QED
    BY <1>1, <1>2, <2>1, <2>2 DEF TypeOK, area
<1>5. Counted'
  <2>1. HdrInfo'.ActiveMsgs = HdrInfo.ActiveMsgs
        /\ HdrInfo'.BaseMsgNum = HdrInfo.BaseMsgNum
    BY <1>1, <1>2 DEF TypeOK
  <2> QED
    BY <1>1, <1>2, <2>1 DEF Counted
<1>6. Copied'
  <2>1. idx[i] \notin Live
    BY <1>1, <1>2, AreaFacts DEF Live
  <2>2. \A m \in Live : EntryOf(m) \in Int
    BY <1>2, LiveEntry
  <2>3. \A e \in 1 .. i : e \in 1 .. i - 1 \/ e = i
    BY <1>3
  <2>4. (i + 1) - 1 = i
    BY <1>3
  <2>5. ASSUME NEW k \in 1 .. Len(newidx)
        PROVE  newidx[k] \in Live /\ EntryOf(newidx[k]) < i + 1
    BY <1>2, <1>3, <2>2 DEF Copied
  <2>6. ASSUME NEW e \in 1 .. i, idx[e] \in Live
        PROVE  \E k \in 1 .. Len(newidx) : newidx[k] = idx[e]
    BY <1>2, <2>1, <2>3, <2>6 DEF Copied
  <2> QED
    BY <1>1, <1>2, <2>4, <2>5, <2>6 DEF Copied
<1>7. Delta'
  <2>1. delta' + Len(newidx) < Number(i + 1)
    BY <1>1, <1>2, <1>3 DEF Delta
  <2>2. ASSUME rejected \cap Entries = {}
        PROVE  /\ delta' + Len(newidx) = Number(i + 1) - 1
               /\ \A k \in 1 .. Len(newidx) :
                     Number(EntryOf(newidx[k])) <= k + delta'
    <3>1. delta' + Len(newidx) = Number(i + 1) - 1
      BY <1>1, <1>2, <1>3, <2>2 DEF Delta
    <3>2. ASSUME NEW k \in 1 .. Len(newidx)
          PROVE  Number(EntryOf(newidx[k])) <= k + delta'
      <4>1. Number(EntryOf(newidx[k])) \in Int
        <5>1. newidx[k] \in Live
          BY <1>2 DEF Copied
        <5>2. EntryOf(newidx[k]) \in Int
          BY <1>2, <1>3, <5>1, LiveEntry
        <5> QED
          BY <1>2, <5>2, AreaFacts
      <4>2. Number(EntryOf(newidx[k])) <= k + delta
        BY <1>2, <2>2 DEF Delta
      <4> QED
        BY <1>1, <1>3, <4>1, <4>2
    <3> QED
      BY <3>1, <3>2
  <2> QED
    BY <1>1, <1>2, <2>1, <2>2 DEF Delta
<1>8. FewMovedOver'
  <2> SUFFICES ASSUME NEW mark \in Nat
               PROVE  Cardinality(MovedOver(mark)') <= Cardinality(ClearedBehind(mark)')
    BY DEF FewMovedOver
  <2> DEFINE before == MovedOver(mark)
             after == {k \in 1 .. Len(newidx) :
                         Number(EntryOf(newidx[k])) <= mark /\ mark < k + delta + 1}
             behind(n) == {e \in 1 .. n : idx[e] = Cleared /\ Number(e) > mark}
  <2>1. MovedOver(mark)' = after /\ ClearedBehind(mark)' = behind(i)
        /\ ClearedBehind(mark) = behind(i - 1)
    <3>1. (i + 1) - 1 = i
      BY <1>3
    <3>2. \A k \in 1 .. Len(newidx) : k + delta' = k + delta + 1
      BY <1>1, <1>3
    <3> QED
      BY <1>1, <1>2, <3>1, <3>2 DEF MovedOver, ClearedBehind
  <2>2. Cardinality(before) <= Cardinality(behind(i - 1))
    BY <1>2, <2>1 DEF FewMovedOver
  <2>3. /\ IsFiniteSet(before) /\ Cardinality(before) \in Nat
        /\ IsFiniteSet(behind(i - 1)) /\ Cardinality(behind(i - 1)) \in Nat
        /\ IsFiniteSet(behind(i)) /\ Cardinality(behind(i)) \in Nat
    <3>1. i \in Int /\ i - 1 \in Int
      BY <1>3
    <3> QED
      BY <1>2, <3>1, CountedSets
  <2>4. CASE Number(i) > mark
    <3>1. behind(i) = behind(i - 1) \cup {i} /\ i \notin behind(i - 1)
      <4>1. 1 .. i = (1 .. i - 1) \cup {i} /\ i \notin 1 .. i - 1
        BY <1>3
      <4> QED
        BY <1>1, <2>4, <4>1
    <3>2. after \in SUBSET (before \cup {mark - delta})
      <4>1. ASSUME NEW k \in after PROVE k \in before \/ k = mark - delta
        BY <1>3 DEF MovedOver
      <4> QED
        BY <4>1
    <3> HIDE DEF before, after, behind
    <3>3. Cardinality(behind(i)) = Cardinality(behind(i - 1)) + 1
      BY <2>3, <3>1, FS_AddElement
    <3>4. /\ IsFiniteSet(before \cup {mark - delta})
          /\ Cardinality(before \cup {mark - delta})
               = IF mark - delta \in before THEN Cardinality(before)
                 ELSE Cardinality(before) + 1
      BY <2>3, FS_AddElement
    <3>5. /\ Cardinality(after) <= Cardinality(before \cup {mark - delta})
          /\ IsFiniteSet(after)
      BY <3>2, <3>4, FS_Subset
    <3>6. Cardinality(after) \in Nat
      BY <3>5, FS_CardinalityType
    <3> QED
      BY <2>1, <2>2, <2>3, <3>3, <3>4, <3>5, <3>6
  <2>5. CASE ~(Number(i) > mark)
    <3>1. behind(i) = behind(i - 1)
      <4>1. 1 .. i = (1 .. i - 1) \cup {i}
        BY <1>3
      <4> QED
        BY <2>5, <4>1
    <3>2. after = before
      <4>1. ASSUME NEW k \in after PROVE k \in before
        <5>1. k + delta < Number(i) /\ Number(i) <= mark
          BY <1>2, <1>3, <2>5 DEF Delta
        <5> QED
          BY <5>1, <1>2, <1>3 DEF MovedOver
      <4>2. ASSUME NEW k \in before PROVE k \in after
        BY <1>3 DEF MovedOver
      <4> QED
        BY <4>1, <4>2
    <3> QED
      BY <2>1, <2>2, <3>1, <3>2
  <2> QED
    BY <2>4, <2>5
<1>9. LeavesOut'
  <2>1. delta' > 0 /\ i \in 1 .. (i + 1) - 1
    BY <1>1, <1>3
  <2> QED
    BY <2>1, <1>1, <1>2 DEF LeavesOut
<1> QED
  BY <1>2, <1>4, <1>5, <1>6, <1>7, <1>8, <1>9 DEF IInv

LEMMA SkipRejectedStep == ASSUME IInv, SkipRejected PROVE IInv'
<1>1. /\ pc = "copy" /\ i <= oldmsgs /\ UNCHANGED << area, pc >> /\ i' = i + 1
      /\ idx[i] \in rejected
      /\ UNCHANGED << HdrInfo, delta, msgnum, numinfo, replyinfo, newidx, newhdr,
                      newlrd >>
  BY DEF SkipRejected, new
<1>2. /\ TypeOK /\ Once /\ Counted /\ Copied /\ Delta /\ LeavesOut /\ FewMovedOver
      /\ pc' = "copy" /\ i \in 1 .. oldmsgs /\ i' \in 1 .. oldmsgs + 1
      /\ Ahead = i /\ Ahead' = i + 1
      /\ oldmsgs' = oldmsgs /\ Entries' = Entries /\ Live' = Live
      /\ rejected' = rejected /\ idx' = idx /\ hdrinfo' = hdrinfo
      /\ \A k : Number(k)' = Number(k)
      /\ \A m : EntryOf(m)' = EntryOf(m)
      /\ Once'
      /\ Number(i) \in Int /\ Number(i + 1) = Number(i) + 1
  BY <1>1, LoopFacts
<1>3. /\ delta \in Nat /\ Len(newidx) \in Nat /\ i \in Nat \ {0} /\ oldmsgs \in Nat
      /\ (i + 1) - 1 = i
  BY <1>2, NewFacts, AreaFacts
<1>4. idx[i] # Cleared /\ idx[i] \in Entries /\ idx[i] \notin Live
  <2>1. idx[i] \in Msgs /\ Cleared \notin Msgs
    BY <1>1, <1>2, JamPackAssumption DEF TypeOK
  <2>2. idx[i] # Cleared
    BY <2>1
  <2> QED
    BY <1>1, <1>2, <2>2, AreaFacts DEF Live
<1>5. TypeOK'
  <2>1. i' \in Nat \ {0} /\ i' <= oldmsgs' + 1
    BY <1>1, <1>2, <1>3
  <2> QED
    BY <1>1, <1>2, <2>1 DEF TypeOK, area
<1>6. Counted'
  BY <1>1, <1>2 DEF Counted
<1>7. Copied'
  <2>1. \A m \in Live : EntryOf(m) \in Int
    BY <1>2, LiveEntry
  <2>2. \A e \in 1 .. i : e \in 1 .. i - 1 \/ e = i
    BY <1>3
  <2>3. ASSUME NEW k \in 1 .. Len(newidx)
        PROVE  newidx[k] \in Live /\ EntryOf(newidx[k]) < i + 1
    BY <1>2, <1>3, <2>1 DEF Copied
  <2>4. ASSUME NEW e \in 1 .. i, idx[e] \in Live
        PROVE  \E k \in 1 .. Len(newidx) : newidx[k] = idx[e]
    BY <1>2, <1>4, <2>2, <2>4 DEF Copied
  <2> QED
    BY <1>1, <1>2, <1>3, <2>3, <2>4 DEF Copied
<1>8. Delta'
  <2>1. delta + Len(newidx) < Number(i + 1)
    BY <1>2, <1>3 DEF Delta
  <2>2. rejected \cap Entries # {}
    BY <1>1, <1>4
  <2> QED
    BY <1>1, <1>2, <2>1, <2>2 DEF Delta
<1>9. FewMovedOver'
  <2> SUFFICES ASSUME NEW mark \in Nat
               PROVE  Cardinality(MovedOver(mark)') <= Cardinality(ClearedBehind(mark)')
    BY DEF FewMovedOver
  <2>1. MovedOver(mark)' = MovedOver(mark)
    BY <1>1, <1>2 DEF MovedOver
  <2>2. ClearedBehind(mark)' = ClearedBehind(mark)
    <3>1. \A e \in 1 .. i : e \in 1 .. i - 1 \/ e = i
      BY <1>3
    <3>2. 1 .. i - 1 \subseteq 1 .. i
      BY <1>3
    <3> QED
      BY <1>2, <1>3, <1>4, <3>1, <3>2 DEF ClearedBehind
  <2> QED
    BY <1>2, <2>1, <2>2 DEF FewMovedOver
<1>10. LeavesOut'
  <2>1. \A e \in 1 .. i : e \in 1 .. i - 1 \/ e = i
    BY <1>3
  <2>2. 1 .. i - 1 \subseteq 1 .. i
    BY <1>3
  <2> QED
    BY <1>1, <1>2, <1>3, <1>4, <2>1, <2>2 DEF LeavesOut
<1> QED
  BY <1>2, <1>5, <1>6, <1>7, <1>8, <1>9, <1>10 DEF IInv

LEMMA CopyMsgStep == ASSUME IInv, CopyMsg PROVE IInv'
<1> DEFINE m == idx[i]
           n == Len(newidx)
           reply == [f \in LinkFields |-> Sub(links[m][f], delta)]
<1>1. /\ pc = "copy" /\ i <= oldmsgs /\ UNCHANGED << area, pc >> /\ i' = i + 1
      /\ m \in Live
      /\ HdrInfo' = [HdrInfo EXCEPT !.BaseMsgNum = IF msgnum = 0 THEN 1 ELSE @,
                                    !.ActiveMsgs = @ + 1]
      /\ numinfo' = [numinfo EXCEPT ![i] = FirstNum(msgnum)]
      /\ replyinfo' = Append(replyinfo, reply)
      /\ newhdr' = [newhdr EXCEPT ![m] = [MsgNum |-> FirstNum(msgnum),
                                          links |-> links[m]]]
      /\ newidx' = Append(newidx, m)
      /\ msgnum' = FirstNum(msgnum) + 1
      /\ UNCHANGED << delta, newlrd >>
  BY DEF CopyMsg, NextNum
<1>2. /\ TypeOK /\ Once /\ Counted /\ Copied /\ Delta /\ LeavesOut /\ FewMovedOver
      /\ pc' = "copy" /\ i \in 1 .. oldmsgs /\ i' \in 1 .. oldmsgs + 1
      /\ Ahead = i /\ Ahead' = i + 1
      /\ oldmsgs' = oldmsgs /\ Entries' = Entries /\ Live' = Live
      /\ rejected' = rejected /\ idx' = idx /\ hdrinfo' = hdrinfo
      /\ \A k : Number(k)' = Number(k)
      /\ \A x : EntryOf(x)' = EntryOf(x)
      /\ Once'
      /\ Number(i) \in Int /\ Number(i + 1) = Number(i) + 1
  BY <1>1, LoopFacts
<1>3. /\ delta \in Nat /\ n \in Nat /\ i \in Nat \ {0} /\ oldmsgs \in Nat
      /\ (i + 1) - 1 = i
      /\ \A k \in 1 .. n : newidx[k] \in Msgs
  <2>1. /\ delta \in Nat /\ n \in Nat /\ i \in Nat \ {0} /\ oldmsgs \in Nat
        /\ \A k \in 1 .. n : newidx[k] \in Msgs
    BY <1>2, NewFacts, AreaFacts, Zenon
  <2> QED
    BY <2>1
<1>4. m \in Msgs /\ m # Cleared /\ EntryOf(m) = i
  BY <1>1, <1>2, LiveEntry, EntryIs
<1>5. FirstNum(msgnum) = n + 1
  <2>1. newidx = << >> => n = 0
    BY EmptySeq
  <2>2. newidx # << >> => n # 0
    BY <1>2, EmptySeq DEF TypeOK
  <2>3. msgnum = IF newidx = << >> THEN 0 ELSE n + 1
    BY <1>2 DEF Counted
  <2> QED
    BY <1>3, <2>1, <2>2, <2>3 DEF FirstNum
<1>6. /\ newidx' \in Seq(Msgs) /\ Len(newidx') = n + 1
      /\ newidx'[n + 1] = m
      /\ \A k \in 1 .. n : newidx'[k] = newidx[k]
      /\ newidx' # << >>
  <2>1. newidx \in Seq(Msgs)
    BY <1>2 DEF TypeOK
  <2>2. /\ newidx' \in Seq(Msgs) /\ Len(newidx') = n + 1
        /\ newidx'[n + 1] = m
        /\ \A k \in 1 .. n : newidx'[k] = newidx[k]
    BY <1>1, <1>4, <2>1
  <2> QED
    BY <2>2, <1>3, EmptySeq
<1>7. \A k \in 1 .. n + 1 : k \in 1 .. n \/ k = n + 1
  BY <1>3
<1>8. /\ replyinfo' \in Seq([LinkFields -> 0 .. Dword - 1])
      /\ Len(replyinfo') = n + 1
  <2>1. \A f \in LinkFields : links[m][f] \in Int
    BY <1>2, <1>4 DEF TypeOK
  <2>2. delta \in Int
    BY <1>3
  <2>3. reply \in [LinkFields -> 0 .. Dword - 1]
    BY <2>1, <2>2, SubType, Zenon
  <2>4. replyinfo \in Seq([LinkFields -> 0 .. Dword - 1]) /\ Len(replyinfo) = n
    BY <1>2 DEF TypeOK, Counted
  <2> HIDE DEF reply
  <2> QED
    BY <1>1, <2>3, <2>4
<1>9. numinfo' \in Seq(Nat) /\ Len(numinfo') = oldmsgs
  <2>1. numinfo \in Seq(Nat) /\ Len(numinfo) = oldmsgs /\ n + 1 \in Nat
    BY <1>2, <1>3 DEF TypeOK, Counted
  <2> QED
    BY <1>1, <1>2, <1>5, <2>1, ExceptSeq
<1>10. /\ newhdr' \in [Msgs -> [MsgNum : Nat, links : [LinkFields -> Nat]]]
       /\ newhdr'[m].MsgNum = n + 1
       /\ \A x \in Msgs : x # m => newhdr'[x] = newhdr[x]
  <2>1. newhdr \in [Msgs -> [MsgNum : Nat, links : [LinkFields -> Nat]]]
        /\ links[m] \in [LinkFields -> Nat]
    BY <1>2, <1>4 DEF TypeOK
  <2> HIDE DEF m
  <2> QED
    BY <1>1, <1>3, <1>4, <1>5, <2>1
<1>11. /\ HdrInfo' \in [BaseMsgNum : Nat \ {0}, ActiveMsgs : Nat,
                        highwater : 0 .. Dword - 1]
       /\ HdrInfo'.ActiveMsgs = n + 1
       /\ HdrInfo'.BaseMsgNum = 1
  <2>1. HdrInfo \in [BaseMsgNum : Nat \ {0}, ActiveMsgs : Nat,
                     highwater : 0 .. Dword - 1]
    BY <1>2 DEF TypeOK
  <2>2. HdrInfo.ActiveMsgs = n /\ (msgnum # 0 => HdrInfo.BaseMsgNum = 1)
    BY <1>2 DEF Counted
  <2> DEFINE first == IF msgnum = 0 THEN 1 ELSE HdrInfo.BaseMsgNum
             count == HdrInfo.ActiveMsgs + 1
  <2>3. HdrInfo' = [HdrInfo EXCEPT !.BaseMsgNum = first, !.ActiveMsgs = count]
    BY <1>1
  <2>4. first = 1 /\ count = n + 1
    BY <2>2
  <2>5. first \in Nat \ {0} /\ count \in Nat
    BY <1>3, <2>4
  <2> HIDE DEF n, first, count
  <2>6. HdrInfo' \in [BaseMsgNum : Nat \ {0}, ActiveMsgs : Nat,
                      highwater : 0 .. Dword - 1]
    BY <2>1, <2>3, <2>5
  <2>7. HdrInfo'.ActiveMsgs = count /\ HdrInfo'.BaseMsgNum = first
    BY <2>1, <2>3
  <2> QED
    BY <2>4, <2>6, <2>7
<1>12. i' \in Nat \ {0} /\ msgnum' = n + 2
  BY <1>1, <1>3, <1>5
<1> HIDE DEF reply
<1>13. TypeOK'
  <2>1. i' <= oldmsgs' + 1 /\ msgnum' \in Nat
    BY <1>2, <1>3, <1>12
  <2> QED
    BY <1>1, <1>2, <1>6, <1>8, <1>9, <1>10, <1>11, <1>12, <2>1 DEF TypeOK, area
<1>14. Counted'
  BY <1>2, <1>3, <1>6, <1>8, <1>9, <1>11, <1>12 DEF Counted
<1>15. Copied'
  <2>1. ASSUME NEW k \in 1 .. n
        PROVE  newidx[k] \in Live /\ EntryOf(newidx[k]) < i
               /\ EntryOf(newidx[k]) \in Int /\ newidx[k] # m
    <3>1. newidx[k] \in Live /\ EntryOf(newidx[k]) < i
      BY <1>2 DEF Copied
    <3>2. EntryOf(newidx[k]) \in Int
      BY <1>2, <3>1, LiveEntry
    <3> QED
      BY <1>3, <1>4, <3>1, <3>2
  <2>2. ASSUME NEW k \in 1 .. n + 1
        PROVE  /\ newidx'[k] \in Live /\ EntryOf(newidx'[k]) < i + 1
               /\ newhdr'[newidx'[k]].MsgNum = k
    <3>1. CASE k = n + 1
      BY <1>1, <1>3, <1>4, <1>6, <1>10, <3>1
    <3>2. CASE k \in 1 .. n
      <4>1. newhdr[newidx[k]].MsgNum = k
        BY <1>2, <3>2 DEF Copied
      <4>2. newhdr'[newidx[k]] = newhdr[newidx[k]]
        BY <1>3, <1>10, <2>1, <3>2
      <4>3. EntryOf(newidx[k]) < i + 1
        BY <1>3, <2>1, <3>2
      <4> QED
        BY <1>6, <2>1, <3>2, <4>1, <4>2, <4>3
    <3> QED
      BY <1>7, <3>1, <3>2
  <2>3. ASSUME NEW j \in 1 .. n + 1, NEW k \in 1 .. n + 1, j < k
        PROVE  EntryOf(newidx'[j]) < EntryOf(newidx'[k])
    <3>1. j \in 1 .. n
      BY <1>3, <2>3
    <3>2. CASE k = n + 1
      BY <1>4, <1>6, <2>1, <3>1, <3>2
    <3>3. CASE k \in 1 .. n
      BY <1>2, <1>6, <2>3, <3>1, <3>3 DEF Copied
    <3> QED
      BY <1>7, <3>2, <3>3
  <2>4. ASSUME NEW e \in 1 .. i, idx[e] \in Live
        PROVE  \E k \in 1 .. n + 1 : newidx'[k] = idx[e]
    <3>1. CASE e = i
      <4>1. n + 1 \in 1 .. n + 1
        BY <1>3
      <4> QED
        BY <1>6, <3>1, <4>1
    <3>2. CASE e \in 1 .. i - 1
      <4>1. PICK k \in 1 .. n : newidx[k] = idx[e]
        BY <1>2, <2>4, <3>2 DEF Copied
      <4>2. k \in 1 .. n + 1
        BY <1>3
      <4> QED
        BY <1>6, <4>1, <4>2
    <3> QED
      BY <1>3, <3>1, <3>2
  <2> HIDE DEF n
  <2> QED
    BY <1>2, <1>3, <1>6, <2>2, <2>3, <2>4 DEF Copied
<1>16. Delta'
  <2>1. delta + (n + 1) < Number(i + 1)
    BY <1>2, <1>3 DEF Delta
  <2>2. ASSUME rejected \cap Entries = {}
        PROVE  /\ delta + (n + 1) = Number(i + 1) - 1
               /\ \A k \in 1 .. n + 1 : Number(EntryOf(newidx'[k])) <= k + delta
    <3>1. delta + (n + 1) = Number(i + 1) - 1
      BY <1>2, <1>3, <2>2 DEF Delta
    <3>2. ASSUME NEW k \in 1 .. n
          PROVE  Number(EntryOf(newidx'[k])) <= k + delta
      BY <1>2, <1>6, <2>2 DEF Delta
    <3>3. Number(EntryOf(newidx'[n + 1])) <= (n + 1) + delta
      BY <1>2, <1>3, <1>4, <1>6, <3>1
    <3> QED
      BY <1>7, <3>1, <3>2, <3>3
  <2> HIDE DEF n
  <2> QED
    BY <1>1, <1>2, <1>6, <2>1, <2>2 DEF Delta
<1>17. FewMovedOver'
  <2> SUFFICES ASSUME NEW mark \in Nat
               PROVE  Cardinality(MovedOver(mark)') <= Cardinality(ClearedBehind(mark)')
    BY DEF FewMovedOver
  <2>1. MovedOver(mark)' = MovedOver(mark)
    <3>1. ~(Number(i) <= mark /\ mark < (n + 1) + delta)
      BY <1>2, <1>3 DEF Delta
    <3>2. n + 1 \notin MovedOver(mark)'
      BY <1>1, <1>2, <1>4, <1>6, <3>1 DEF MovedOver
    <3>3. ASSUME NEW k \in 1 .. n
          PROVE  k \in MovedOver(mark)' <=> k \in MovedOver(mark)
      <4>1. k \in 1 .. n + 1
        BY <1>3
      <4>2. k \in MovedOver(mark)'
            <=> Number(EntryOf(newidx'[k])) <= mark /\ mark < k + delta
        BY <1>1, <1>2, <1>6, <4>1 DEF MovedOver
      <4>3. k \in MovedOver(mark)
            <=> Number(EntryOf(newidx[k])) <= mark /\ mark < k + delta
        BY DEF MovedOver
      <4> QED
        BY <1>6, <4>2, <4>3
    <3>4. MovedOver(mark)' \subseteq 1 .. n + 1 /\ MovedOver(mark) \subseteq 1 .. n
      BY <1>6 DEF MovedOver
    <3> HIDE DEF n
    <3> QED
      BY <1>7, <3>2, <3>3, <3>4
  <2>2. ClearedBehind(mark)' = ClearedBehind(mark)
    <3>1. \A e \in 1 .. i : e \in 1 .. i - 1 \/ e = i
      BY <1>3
    <3>2. 1 .. i - 1 \subseteq 1 .. i
      BY <1>3
    <3> QED
      BY <1>2, <1>3, <1>4, <3>1, <3>2 DEF ClearedBehind
  <2> QED
    BY <1>2, <2>1, <2>2 DEF FewMovedOver
<1>18. LeavesOut'
  <2>1. \A e \in 1 .. i : e \in 1 .. i - 1 \/ e = i
    BY <1>3
  <2>2. 1 .. i - 1 \subseteq 1 .. i
    BY <1>3
  <2> QED
    BY <1>1, <1>2, <1>3, <1>4, <2>1, <2>2 DEF LeavesOut
<1> QED
  BY <1>2, <1>13, <1>14, <1>15, <1>16, <1>17, <1>18 DEF IInv

-----------------------------------------------------------------------------
(* The other steps. *)

LEMMA EndOfCopyStep == ASSUME IInv, EndOfCopy PROVE IInv'
<1>1. /\ pc = "copy" /\ i > oldmsgs /\ pc' = "relink" /\ i' = 1
      /\ UNCHANGED << area, HdrInfo, delta, msgnum, numinfo, replyinfo, newidx,
                      newhdr, newlrd >>
  BY DEF EndOfCopy, new
<1>2. TypeOK /\ Once /\ Counted /\ Copied /\ Delta /\ LeavesOut /\ FewMovedOver
  BY <1>1 DEF IInv
<1>3. Ahead' = Ahead
  <2>1. i \in Nat /\ oldmsgs \in Nat /\ i <= oldmsgs + 1
    BY <1>1, <1>2, NewFacts, AreaFacts DEF TypeOK
  <2>2. i = oldmsgs + 1
    BY <1>1, <2>1
  <2> QED
    BY <1>1, <2>2, AreaKept DEF Ahead
<1>4. TypeOK'
  <2>1. 1 <= Len(newidx) + 1
    BY <1>2, NewFacts
  <2> QED
    BY <1>1, <1>2, <2>1 DEF TypeOK, area
<1>5. Once' /\ Counted'
  BY <1>1, <1>2, AreaKept DEF Counted
<1>6. Copied'
  BY <1>1, <1>2, <1>3, AreaKept DEF Copied, area
<1>7. Delta'
  BY <1>1, <1>2, <1>3, AreaKept DEF Delta, area
<1>8. FewMovedOver'
  <2>1. \A mark \in Nat : /\ MovedOver(mark)' = MovedOver(mark)
                          /\ ClearedBehind(mark)' = ClearedBehind(mark)
    BY <1>1, <1>3, AreaKept DEF MovedOver, ClearedBehind, area
  <2> QED
    BY <1>2, <2>1 DEF FewMovedOver
<1>9. LeavesOut'
  BY <1>1, <1>2, <1>3 DEF LeavesOut, area
<1> QED
  BY <1>1, <1>4, <1>5, <1>6, <1>7, <1>8, <1>9 DEF IInv

\* A converted link is a link, or a new number from the table (packarea.c:530).
LEMMA ConvertedType ==
  ASSUME TypeOK, Counted, NEW link \in Nat, NEW less \in Nat
  PROVE  Converted(link, less) \in Nat
<1>1. numinfo \in Seq(Nat) /\ Len(numinfo) = oldmsgs /\ oldmsgs \in Nat
  BY AreaFacts DEF TypeOK, Counted
<1>2. less # 0 /\ less < oldmsgs => less + 1 \in 1 .. Len(numinfo)
  BY <1>1
<1>3. less # 0 /\ less < oldmsgs => numinfo[less + 1] \in Nat
  BY <1>1, <1>2, ElementOfSeq
<1> QED
  BY <1>3 DEF Converted

LEMMA RelinkMsgStep == ASSUME IInv, RelinkMsg PROVE IInv'
<1> DEFINE m == newidx[i]
           old == newhdr[m].links
           relinked == [f \in LinkFields |-> Converted(old[f], replyinfo[i][f])]
<1>1. /\ pc = "relink" /\ i <= HdrInfo.ActiveMsgs /\ pc' = "relink" /\ i' = i + 1
      /\ newhdr' = [newhdr EXCEPT ![m].links = relinked]
      /\ UNCHANGED << area, pc, HdrInfo, delta, msgnum, numinfo, replyinfo, newidx,
                      newlrd >>
  BY DEF RelinkMsg
<1>2. TypeOK /\ Once /\ Counted /\ Copied /\ Delta /\ LeavesOut /\ FewMovedOver
  BY <1>1 DEF IInv
<1>3. Ahead' = Ahead
  BY <1>1, AreaKept DEF Ahead
<1>4. i \in 1 .. Len(newidx) /\ Len(newidx) \in Nat /\ m \in Msgs
  <2>1. HdrInfo.ActiveMsgs = Len(newidx)
    BY <1>2 DEF Counted
  <2>2. i \in Nat \ {0} /\ Len(newidx) \in Nat
    BY <1>2, NewFacts
  <2>3. i \in 1 .. Len(newidx)
    BY <1>1, <2>1, <2>2
  <2> QED
    BY <1>2, <2>2, <2>3, NewFacts
<1>5. relinked \in [LinkFields -> Nat]
  <2>1. replyinfo[i] \in [LinkFields -> 0 .. Dword - 1]
    <3>1. replyinfo \in Seq([LinkFields -> 0 .. Dword - 1])
          /\ Len(replyinfo) = Len(newidx)
      BY <1>2 DEF TypeOK, Counted
    <3> QED
      BY <1>4, <3>1, ElementOfSeq
  <2>2. old \in [LinkFields -> Nat]
    BY <1>2, <1>4, NewFacts
  <2>3. \A d \in 0 .. Dword - 1 : d \in Nat
    OBVIOUS
  <2>4. \A f \in LinkFields : old[f] \in Nat /\ replyinfo[i][f] \in Nat
    BY <2>1, <2>2, <2>3
  <2> HIDE DEF old
  <2> QED
    BY <1>2, <2>4, ConvertedType
<1> HIDE DEF relinked, m
<1>6. /\ newhdr' \in [Msgs -> [MsgNum : Nat, links : [LinkFields -> Nat]]]
      /\ \A x \in Msgs : newhdr'[x].MsgNum = newhdr[x].MsgNum
  <2>1. newhdr \in [Msgs -> [MsgNum : Nat, links : [LinkFields -> Nat]]]
    BY <1>2 DEF TypeOK
  <2>2. /\ DOMAIN newhdr' = Msgs
        /\ newhdr'[m] = [newhdr[m] EXCEPT !.links = relinked]
        /\ \A x \in Msgs : x # m => newhdr'[x] = newhdr[x]
        /\ newhdr' = [x \in Msgs |-> newhdr'[x]]
    BY <1>1, <1>4, <2>1
  <2>3. /\ newhdr'[m] \in [MsgNum : Nat, links : [LinkFields -> Nat]]
        /\ newhdr'[m].MsgNum = newhdr[m].MsgNum
    <3>1. newhdr[m] \in [MsgNum : Nat, links : [LinkFields -> Nat]]
      BY <1>4, <2>1
    <3> QED
      BY <1>5, <2>2, <3>1
  <2>4. ASSUME NEW x \in Msgs
        PROVE  newhdr'[x] \in [MsgNum : Nat, links : [LinkFields -> Nat]]
               /\ newhdr'[x].MsgNum = newhdr[x].MsgNum
    <3>1. newhdr[x] \in [MsgNum : Nat, links : [LinkFields -> Nat]]
      BY <2>1
    <3> QED
      BY <2>2, <2>3, <3>1
  <2> QED
    BY <2>2, <2>4
<1>7. TypeOK'
  <2>1. i' \in Nat \ {0} /\ i' <= Len(newidx) + 1
    BY <1>1, <1>4
  <2> QED
    BY <1>1, <1>2, <1>6, <2>1 DEF TypeOK, area
<1>8. Once' /\ Counted'
  BY <1>1, <1>2, AreaKept DEF Counted
<1>9. Copied'
  <2>1. \A k \in 1 .. Len(newidx) : newidx[k] \in Msgs
    BY <1>2, NewFacts
  <2>2. \A k \in 1 .. Len(newidx) :
           newhdr'[newidx[k]].MsgNum = newhdr[newidx[k]].MsgNum
    BY <1>6, <2>1
  <2> QED
    BY <1>1, <1>2, <1>3, <2>2, AreaKept DEF Copied, area
<1>10. Delta'
  BY <1>1, <1>2, <1>3, AreaKept DEF Delta, area
<1>11. FewMovedOver'
  <2>1. \A mark \in Nat : /\ MovedOver(mark)' = MovedOver(mark)
                          /\ ClearedBehind(mark)' = ClearedBehind(mark)
    BY <1>1, <1>3, AreaKept DEF MovedOver, ClearedBehind, area
  <2> QED
    BY <1>2, <2>1 DEF FewMovedOver
<1>12. LeavesOut'
  BY <1>1, <1>2, <1>3 DEF LeavesOut, area
<1> QED
  BY <1>1, <1>7, <1>8, <1>9, <1>10, <1>11, <1>12 DEF IInv

\* A last read number that is moved is not negative (packarea.c:557-564).
LEMMA MovedType ==
  ASSUME NEW mark \in Nat, delta \in Nat
  PROVE  /\ Moved(mark) \in Nat
         /\ \A k \in Nat \ {0} : k <= Moved(mark) <=> k + delta <= mark
BY DEF Moved

LEMMA PackLastReadStep == ASSUME IInv, PackLastRead PROVE IInv'
<1>1. /\ pc = "relink" /\ pc' = "replace"
      /\ newlrd' = IF delta > 0 THEN [u \in 1 .. Len(lrd) |-> Moved(lrd[u])]
                   ELSE << >>
      /\ UNCHANGED << area, HdrInfo, i, delta, msgnum, numinfo, replyinfo, newidx,
                      newhdr >>
  BY DEF PackLastRead, memory
<1>2. TypeOK /\ Once /\ Counted /\ Copied /\ Delta /\ LeavesOut /\ FewMovedOver
  BY <1>1 DEF IInv
<1>3. Ahead' = Ahead
  BY <1>1, AreaKept DEF Ahead
<1>4. newlrd' \in Seq(Nat)
  <2>1. lrd \in Seq(Nat) /\ Len(lrd) \in Nat /\ delta \in Nat
    BY <1>2 DEF TypeOK
  <2>2. ASSUME NEW u \in 1 .. Len(lrd) PROVE Moved(lrd[u]) \in Nat
    <3>1. lrd[u] \in Nat
      BY <2>1, ElementOfSeq
    <3> QED
      BY <2>1, <3>1, MovedType
  <2>3. [u \in 1 .. Len(lrd) |-> Moved(lrd[u])] \in Seq(Nat)
    <3>1. [u \in 1 .. Len(lrd) |-> Moved(lrd[u])] \in [1 .. Len(lrd) -> Nat]
      BY <2>2
    <3> QED
      BY <2>1, <3>1
  <2> QED
    BY <1>1, <2>3
<1>5. TypeOK'
  BY <1>1, <1>2, <1>4 DEF TypeOK, area
<1>6. Once' /\ Counted'
  BY <1>1, <1>2, AreaKept DEF Counted
<1>7. Copied'
  BY <1>1, <1>2, <1>3, AreaKept DEF Copied, area
<1>8. Delta'
  BY <1>1, <1>2, <1>3, AreaKept DEF Delta, area
<1>9. FewMovedOver'
  <2>1. \A mark \in Nat : /\ MovedOver(mark)' = MovedOver(mark)
                          /\ ClearedBehind(mark)' = ClearedBehind(mark)
    BY <1>1, <1>3, AreaKept DEF MovedOver, ClearedBehind, area
  <2> QED
    BY <1>2, <2>1 DEF FewMovedOver
<1>10. LastReadsMoved'
  <2>1. lrd' = lrd /\ delta' = delta
    BY <1>1 DEF area
  <2>2. \A u \in 1 .. Len(lrd) : Moved(lrd[u])' = Moved(lrd[u])
    BY <2>1 DEF Moved
  <2> QED
    BY <1>1, <2>1, <2>2 DEF LastReadsMoved
<1>11. LeavesOut'
  BY <1>1, <1>2, <1>3 DEF LeavesOut, area
<1> QED
  BY <1>1, <1>5, <1>6, <1>7, <1>8, <1>9, <1>10, <1>11 DEF IInv

LEMMA ReplaceStep == ASSUME IInv, Replace PROVE IInv'
<1>1. /\ pc = "replace" /\ pc' = "idle"
      /\ hdrinfo' = HdrInfo /\ idx' = newidx /\ rejected' = {}
      /\ links' = [m \in Msgs |-> newhdr[m].links] /\ lrd' = newlrd
      /\ UNCHANGED << memory, new >>
  BY DEF Replace
<1>2. TypeOK /\ Once /\ Counted /\ Copied
  BY <1>1 DEF IInv
<1>3. hdrinfo' \in [BaseMsgNum : Nat \ {0}, ActiveMsgs : 0 .. Dword - 1,
                    highwater : 0 .. Dword - 1]
  <2>1. HdrInfo \in [BaseMsgNum : Nat \ {0}, ActiveMsgs : Nat,
                     highwater : 0 .. Dword - 1]
    BY <1>2 DEF TypeOK
  <2>2. HdrInfo.ActiveMsgs \in 0 .. Dword - 1
    BY <1>2, NewLength DEF Counted
  <2> QED
    BY <1>1, <2>1, <2>2
<1>4. idx' \in Seq(Msgs \cup {Cleared})
  <2>1. newidx \in Seq(Msgs)
    BY <1>2 DEF TypeOK
  <2> QED
    BY <1>1, <2>1, SeqMonotonic
<1>5. links' \in [Msgs -> [LinkFields -> Nat]]
  BY <1>1, <1>2, NewFacts
<1>6. TypeOK'
  BY <1>1, <1>2, <1>3, <1>4, <1>5 DEF TypeOK, memory, new
<1>7. Once'
  <2>1. ASSUME NEW j \in 1 .. Len(newidx), NEW k \in 1 .. Len(newidx),
               newidx[j] = newidx[k]
        PROVE  j = k
    <3>1. Len(newidx) \in Nat
      BY <1>2, NewFacts
    <3>2. newidx[j] \in Live /\ EntryOf(newidx[j]) = EntryOf(newidx[k])
      BY <1>2, <2>1 DEF Copied
    <3>3. EntryOf(newidx[j]) \in Int
      BY <1>2, <3>2, LiveEntry
    <3>4. ~(j < k) /\ ~(k < j)
      BY <1>2, <3>2, <3>3 DEF Copied
    <3> QED
      BY <3>1, <3>4
  <2> QED
    BY <1>1, <2>1 DEF Once, oldmsgs
<1> QED
  BY <1>1, <1>6, <1>7 DEF IInv

LEMMA PurgeStep ==
  ASSUME IInv, NEW k \in 1 .. oldmsgs, Purge(k)
  PROVE  IInv'
<1>1. /\ pc = "idle" /\ pc' = "idle" /\ idx[k] \in Live
      /\ idx' = [idx EXCEPT ![k] = Cleared]
      /\ hdrinfo' = [hdrinfo EXCEPT !.ActiveMsgs = Sub(@, 1)]
      /\ UNCHANGED << rejected, links, lrd, memory, new >>
  BY DEF Purge
<1>2. TypeOK /\ Once
  BY DEF IInv
<1>3. hdrinfo' \in [BaseMsgNum : Nat \ {0}, ActiveMsgs : 0 .. Dword - 1,
                    highwater : 0 .. Dword - 1]
  <2>1. hdrinfo \in [BaseMsgNum : Nat \ {0}, ActiveMsgs : 0 .. Dword - 1,
                     highwater : 0 .. Dword - 1] /\ Dword \in Nat
    BY <1>2, JamPackAssumption DEF TypeOK
  <2>2. hdrinfo.ActiveMsgs \in Int /\ 1 \in Int
    BY <2>1
  <2>3. Sub(hdrinfo.ActiveMsgs, 1) \in 0 .. Dword - 1
    BY <2>2, SubType, Zenon
  <2> QED
    BY <1>1, <2>1, <2>3
<1>4. /\ idx' \in Seq(Msgs \cup {Cleared}) /\ Len(idx') = oldmsgs
      /\ \A e \in 1 .. oldmsgs : idx'[e] = IF e = k THEN Cleared ELSE idx[e]
  <2>1. idx \in Seq(Msgs \cup {Cleared}) /\ Cleared \in Msgs \cup {Cleared}
    BY <1>2 DEF TypeOK
  <2> QED
    BY <1>1, <2>1, ExceptSeq DEF oldmsgs
<1>5. TypeOK'
  BY <1>1, <1>2, <1>3, <1>4 DEF TypeOK, memory, new
<1>6. Once'
  BY <1>2, <1>4 DEF Once, oldmsgs
<1> QED
  BY <1>1, <1>5, <1>6 DEF IInv

\* The area before the first pack: the index names each message of a set once,
\* apart from the entries that are cleared.
LEMMA InitInvariant == Init => IInv
<1> SUFFICES ASSUME Init PROVE IInv
  OBVIOUS
<1>1. PICK used \in SUBSET Msgs, first \in FirstMsgs :
        \E order \in SetToSeqs(used), gone \in SUBSET (1 .. Cardinality(used)),
           top \in {0, first + Cardinality(used) - 1} :
          InitArea(order, gone, first, top)
  BY DEF Init
<1>2. PICK order \in SetToSeqs(used), gone \in SUBSET (1 .. Cardinality(used)),
           top \in {0, first + Cardinality(used) - 1} :
        InitArea(order, gone, first, top)
  BY <1>1
<1>3. IsFiniteSet(used) /\ Cardinality(used) <= Cardinality(Msgs)
      /\ Cardinality(used) \in Nat /\ Cardinality(Msgs) \in Nat
  BY JamPackAssumption, FS_Subset, FS_CardinalityType
<1>4. /\ order \in Seq(used) /\ Len(order) = Cardinality(used)
      /\ \A j, k \in 1 .. Len(order) : order[j] = order[k] => j = k
  BY <1>2, <1>3, ListOfSet
<1>5. /\ idx = [k \in 1 .. Len(order) |-> IF k \in gone THEN Cleared ELSE order[k]]
      /\ rejected \subseteq Entries
      /\ hdrinfo = [BaseMsgNum |-> first, ActiveMsgs |-> Cardinality(Live),
                    highwater |-> top]
      /\ links \in [Msgs -> [LinkFields -> {0} \cup {Number(k) : k \in 1 .. oldmsgs}]]
      /\ \E users \in 0 .. MaxUsers :
           lrd \in [1 .. users -> {0} \cup {Number(k) : k \in 1 .. oldmsgs}]
  BY <1>2 DEF InitArea
<1>6. idx \in Seq(Msgs \cup {Cleared}) /\ oldmsgs = Len(order) /\ oldmsgs \in Nat
  <2>1. \A k \in 1 .. Len(order) : order[k] \in Msgs
    BY <1>4, ElementOfSeq
  <2>2. idx \in [1 .. Len(order) -> Msgs \cup {Cleared}]
    BY <1>5, <2>1
  <2>3. Len(order) \in Nat
    BY <1>3, <1>4
  <2> QED
    BY <2>2, <2>3 DEF oldmsgs
<1>7. Once
  BY <1>4, <1>5, <1>6 DEF Once
<1>8. Entries \subseteq Msgs /\ Live \subseteq Msgs
  <2>1. \A k \in 1 .. oldmsgs : idx[k] \in Msgs \cup {Cleared}
    BY <1>6, ElementOfSeq DEF oldmsgs
  <2>2. DOMAIN idx = 1 .. oldmsgs
    BY <1>6, LenProperties DEF oldmsgs
  <2> QED
    BY <2>1, <2>2 DEF Entries, Live, ToSet
<1>9. /\ first \in Nat \ {0} /\ first + Cardinality(Msgs) <= Dword
      /\ Cardinality(Msgs) < Dword /\ Dword \in Nat
  BY JamPackAssumption
<1>10. hdrinfo \in [BaseMsgNum : Nat \ {0}, ActiveMsgs : 0 .. Dword - 1,
                    highwater : 0 .. Dword - 1]
  <2>1. Cardinality(Live) \in Nat /\ Cardinality(Live) <= Cardinality(Msgs)
    BY <1>8, JamPackAssumption, FS_Subset, FS_CardinalityType
  <2>2. Cardinality(Live) \in 0 .. Dword - 1
    BY <1>3, <1>9, <2>1
  <2>3. top \in 0 .. Dword - 1
    BY <1>2, <1>3, <1>9
  <2> QED
    BY <1>5, <1>9, <2>2, <2>3
<1>11. \A k \in 1 .. oldmsgs : Number(k) \in Nat
  <2>1. hdrinfo.BaseMsgNum = first
    BY <1>5
  <2> QED
    BY <1>6, <1>9, <2>1 DEF Number
<1>12. {0} \cup {Number(k) : k \in 1 .. oldmsgs} \subseteq Nat
  BY <1>11
<1>13. links \in [Msgs -> [LinkFields -> Nat]]
  BY <1>5, <1>12
<1>14. lrd \in Seq(Nat)
  <2>1. PICK users \in 0 .. MaxUsers :
          lrd \in [1 .. users -> {0} \cup {Number(k) : k \in 1 .. oldmsgs}]
    BY <1>5
  <2>2. users \in Nat /\ lrd \in [1 .. users -> Nat]
    BY <1>12, <2>1, JamPackAssumption
  <2> QED
    BY <2>2
<1>15. /\ pc = "idle" /\ HdrInfo = hdrinfo /\ i = 1 /\ delta = 0 /\ msgnum = 0
       /\ numinfo = << >> /\ replyinfo = << >>
       /\ newidx = << >> /\ newhdr = [m \in Msgs |-> NoHdr] /\ newlrd = << >>
  BY DEF Init
<1>16. HdrInfo \in [BaseMsgNum : Nat \ {0}, ActiveMsgs : Nat,
                    highwater : 0 .. Dword - 1]
  BY <1>9, <1>10, <1>15
<1>17. newhdr \in [Msgs -> [MsgNum : Nat, links : [LinkFields -> Nat]]]
  BY <1>15 DEF NoHdr
<1>18. TypeOK
  BY <1>5, <1>6, <1>8, <1>10, <1>13, <1>14, <1>15, <1>16, <1>17, EmptySeq DEF TypeOK
<1> QED
  BY <1>7, <1>15, <1>18 DEF IInv

LEMMA StutterInvariance == ASSUME IInv, UNCHANGED vars PROVE IInv'
<1>1. UNCHANGED area /\ UNCHANGED memory /\ UNCHANGED new /\ pc' = pc
  BY DEF vars
<1>2. TypeOK'
  BY <1>1 DEF IInv, TypeOK, area, memory, new, oldmsgs
<1>3. Once'
  BY <1>1, AreaKept DEF IInv
<1>4. Ahead' = Ahead
  BY <1>1, AreaKept DEF Ahead, memory
<1>5. Counted' = Counted /\ Copied' = Copied /\ Delta' = Delta
  BY <1>1, <1>4, AreaKept DEF Counted, Copied, Delta, area, memory, new
<1>6. FewMovedOver' = FewMovedOver
  <2>1. \A mark \in Nat : /\ MovedOver(mark)' = MovedOver(mark)
                          /\ ClearedBehind(mark)' = ClearedBehind(mark)
    BY <1>1, <1>4, AreaKept DEF MovedOver, ClearedBehind, area, memory, new
  <2> QED
    BY <2>1 DEF FewMovedOver
<1>7. LastReadsMoved' = LastReadsMoved
  BY <1>1 DEF LastReadsMoved, Moved, area, memory, new
<1>8. LeavesOut' <=> LeavesOut
  BY <1>1, <1>4 DEF LeavesOut, area, memory
<1> QED
  BY <1>1, <1>2, <1>3, <1>5, <1>6, <1>7, <1>8 DEF IInv

LEMMA NextInvariant == IInv /\ [Next]_vars => IInv'
<1> SUFFICES ASSUME IInv, [Next]_vars PROVE IInv'
  OBVIOUS
<1>1. CASE Run
  BY <1>1, ReadHdrInfoStep, SkipClearedStep, SkipRejectedStep, CopyMsgStep,
     EndOfCopyStep, RelinkMsgStep, PackLastReadStep, ReplaceStep DEF Run
<1>2. CASE \E k \in 1 .. oldmsgs : Purge(k)
  BY <1>2, PurgeStep
<1>3. CASE UNCHANGED vars
  BY <1>3, StutterInvariance
<1> QED
  BY <1>1, <1>2, <1>3 DEF Next

\* The inductive invariant of a pack: where the loop is, which messages it has
\* copied, with which numbers, and how far delta is off (packarea.c:468-577).
THEOREM Invariance == Spec => []IInv
<1>1. Init => IInv
  BY InitInvariant
<1>2. IInv /\ [Next]_vars => IInv'
  BY NextInvariant
<1> QED
  BY <1>1, <1>2, PTL DEF Spec

\* Types, for every area: the loops stay in their tables, and numbers that are
\* counted down stay dwords (packarea.c:473-533).
THEOREM Typed == Spec => []TypeOK
<1>1. IInv => TypeOK
  BY DEF IInv
<1> QED
  BY <1>1, Invariance, PTL

-----------------------------------------------------------------------------
(* What a pack does. *)

LEMMA RenumberedAtEnd == ASSUME IInv PROVE LiveRenumbered
<1> SUFFICES ASSUME pc = "replace"
             PROVE  /\ ToSet(newidx) = Live
                    /\ \A j, k \in 1 .. Len(newidx) :
                          j < k => EntryOf(newidx[j]) < EntryOf(newidx[k])
                    /\ HdrInfo.ActiveMsgs = Len(newidx)
                    /\ \A k \in 1 .. Len(newidx) :
                          newhdr[newidx[k]].MsgNum = HdrInfo.BaseMsgNum + k - 1
  BY DEF LiveRenumbered
<1>1. TypeOK /\ Once /\ Counted /\ Copied
  BY DEF IInv
<1>2. Len(newidx) \in Nat /\ DOMAIN newidx = 1 .. Len(newidx) /\ oldmsgs \in Nat
  BY <1>1, NewFacts, AreaFacts
<1>3. Ahead - 1 = oldmsgs
  BY <1>2 DEF Ahead
<1>4. \A k \in 1 .. Len(newidx) : newidx[k] \in Live
  BY <1>1 DEF Copied
<1>5. ASSUME NEW m \in Live PROVE \E k \in 1 .. Len(newidx) : newidx[k] = m
  <2>1. EntryOf(m) \in 1 .. oldmsgs /\ idx[EntryOf(m)] = m
    BY <1>1, LiveEntry
  <2> QED
    BY <1>1, <1>3, <2>1 DEF Copied
<1>6. ToSet(newidx) = Live
  BY <1>2, <1>4, <1>5 DEF ToSet
<1>7. ASSUME NEW k \in 1 .. Len(newidx)
      PROVE  newhdr[newidx[k]].MsgNum = HdrInfo.BaseMsgNum + k - 1
  <2>1. newhdr[newidx[k]].MsgNum = k
    BY <1>1 DEF Copied
  <2>2. newidx # << >>
    BY <1>2, EmptySeq
  <2>3. HdrInfo.BaseMsgNum = 1
    BY <1>1, <2>2 DEF Counted
  <2> QED
    BY <1>2, <2>1, <2>3
<1> QED
  BY <1>1, <1>6, <1>7 DEF Counted, Copied

\* A pack copies each live message once, in its order, numbers them without a
\* gap and counts them (packarea.c:473-521).
THEOREM Renumbered == Spec => []LiveRenumbered
<1>1. IInv => LiveRenumbered
  BY RenumberedAtEnd
<1> QED
  BY <1>1, Invariance, PTL

\* The new number of a live message is its place in the new index.
LEMMA NewNumberIs ==
  ASSUME IInv, pc = "replace", NEW m \in Live
  PROVE  /\ NewNumber(m) \in 1 .. Len(newidx)
         /\ newidx[NewNumber(m)] = m
<1>1. TypeOK /\ Copied
  BY DEF IInv
<1>2. ToSet(newidx) = Live /\ DOMAIN newidx = 1 .. Len(newidx)
  BY <1>1, RenumberedAtEnd, NewFacts DEF LiveRenumbered
<1>3. PICK k \in 1 .. Len(newidx) : newidx[k] = m
  BY <1>2 DEF ToSet
<1>4. newhdr[m].MsgNum = k
  BY <1>1, <1>3 DEF Copied
<1> QED
  BY <1>2, <1>3, <1>4 DEF NewNumber

\* The new last read file has as many numbers as the old one, or none.
LEMMA MarksWritten ==
  ASSUME IInv, pc = "replace"
  PROVE  newlrd = IF MarksForgotten THEN << >> ELSE [v \in 1 .. Len(lrd) |-> Moved(lrd[v])]
<1>1. TypeOK /\ LeavesOut /\ LastReadsMoved /\ Ahead - 1 = oldmsgs
  <2>1. TypeOK /\ LeavesOut /\ LastReadsMoved /\ Ahead = oldmsgs + 1
    BY DEF IInv, Ahead
  <2> QED
    BY <2>1, AreaFacts
<1>2. Cleared \in ToSet(idx) <=> \E e \in 1 .. oldmsgs : idx[e] = Cleared
  BY <1>1, AreaFacts DEF ToSet
<1>3. delta > 0 <=> ~MarksForgotten
  <2>1. hdrinfo.BaseMsgNum \in Nat \ {0}
    BY <1>1, AreaFacts
  <2> QED
    BY <1>1, <1>2, <2>1 DEF LeavesOut, MarksForgotten
<1> QED
  BY <1>1, <1>3 DEF LastReadsMoved

\* Nobody has read anything, if nothing was written.
LEMMA NothingRead ==
  ASSUME IInv, pc = "replace", MarksForgotten, NEW u
  PROVE  ReadAfter(u) = {}
<1>1. NewMark(u) = 0
  BY MarksWritten DEF NewMark
<1>2. ASSUME NEW m \in Live PROVE ~(NewNumber(m) <= 0)
  <2>1. NewNumber(m) \in 1 .. Len(newidx)
    BY NewNumberIs
  <2> QED
    BY <2>1
<1> QED
  BY <1>1, <1>2 DEF ReadAfter

\* Where no header is rejected, what a user has read afterwards he had read
\* before; and only entries that MovedOver counts have to be read again.
LEMMA ReadAtEnd ==
  ASSUME IInv, pc = "replace", NEW u \in 1 .. Len(lrd), ~MarksForgotten
  PROVE  /\ rejected \cap Entries = {} => ReadAfter(u) \subseteq ReadBefore(u)
         /\ lrd[u] \in Nat
         /\ \A m \in ReadBefore(u) \ ReadAfter(u) :
               NewNumber(m) \in MovedOver(lrd[u])
<1>1. TypeOK /\ Once /\ Counted /\ Copied /\ Delta /\ LastReadsMoved
  BY DEF IInv
<1>2. delta \in Nat /\ Len(newidx) \in Nat /\ lrd \in Seq(Nat) /\ Len(lrd) \in Nat
  BY <1>1, NewFacts DEF TypeOK
<1>3. newlrd = [v \in 1 .. Len(lrd) |-> Moved(lrd[v])]
  BY MarksWritten
<1>4. u \in 1 .. Len(lrd) /\ NewMark(u) = Moved(lrd[u]) /\ lrd[u] \in Nat
  BY <1>2, <1>3 DEF NewMark
<1>5. ASSUME NEW m \in Live
      PROVE  /\ NewNumber(m) \in 1 .. Len(newidx) /\ newidx[NewNumber(m)] = m
             /\ Number(EntryOf(m)) \in Int
             /\ NewNumber(m) <= NewMark(u) <=> NewNumber(m) + delta <= lrd[u]
  <2>1. NewNumber(m) \in 1 .. Len(newidx) /\ newidx[NewNumber(m)] = m
    BY NewNumberIs
  <2>2. EntryOf(m) \in Int
    BY <1>1, LiveEntry, AreaFacts
  <2>3. Number(EntryOf(m)) \in Int
    BY <1>1, <2>2, AreaFacts
  <2>4. NewNumber(m) \in Nat \ {0}
    BY <1>2, <2>1
  <2> QED
    BY <1>2, <1>4, <2>1, <2>3, <2>4, MovedType
<1>6. ASSUME rejected \cap Entries = {}, NEW m \in ReadAfter(u)
      PROVE  m \in ReadBefore(u)
  <2>1. m \in Live /\ NewNumber(m) <= NewMark(u)
    BY <1>6 DEF ReadAfter
  <2>2. Number(EntryOf(m)) <= NewNumber(m) + delta
    BY <1>1, <1>5, <1>6, <2>1 DEF Delta
  <2>3. NewNumber(m) \in Int /\ Number(EntryOf(m)) \in Int
        /\ NewNumber(m) + delta <= lrd[u]
    BY <1>2, <1>5, <2>1
  <2>4. Number(EntryOf(m)) <= lrd[u]
    BY <1>2, <1>4, <2>2, <2>3
  <2> QED
    BY <2>1, <2>4 DEF ReadBefore
<1>7. ASSUME NEW m \in ReadBefore(u) \ ReadAfter(u)
      PROVE  NewNumber(m) \in MovedOver(lrd[u])
  <2>1. m \in Live /\ Number(EntryOf(m)) <= lrd[u] /\ ~(NewNumber(m) <= NewMark(u))
    BY <1>7 DEF ReadBefore, ReadAfter
  <2>2. NewNumber(m) \in Int /\ ~(NewNumber(m) + delta <= lrd[u])
    BY <1>2, <1>5, <2>1
  <2>3. lrd[u] < NewNumber(m) + delta
    BY <1>2, <1>4, <2>2
  <2> QED
    BY <1>5, <2>1, <2>3 DEF MovedOver
<1> QED
  BY <1>4, <1>6, <1>7

LEMMA LastReadsAtEnd == ASSUME IInv PROVE LastReadsErrBack
<1>1. NothingUnreadSkipped
  BY ReadAtEnd, NothingRead DEF NothingUnreadSkipped
<1>2. ASSUME pc = "replace", NEW u \in 1 .. Len(lrd), ~MarksForgotten
      PROVE  Cardinality(ReadBefore(u) \ ReadAfter(u))
               <= Cardinality({k \in 1 .. oldmsgs :
                                 idx[k] = Cleared /\ Number(k) > lrd[u]})
  <2> DEFINE again == ReadBefore(u) \ ReadAfter(u)
             mark == lrd[u]
             behind == {k \in 1 .. oldmsgs : idx[k] = Cleared /\ Number(k) > mark}
             renumber == [m \in again |-> NewNumber(m)]
  <2>1. TypeOK /\ FewMovedOver /\ mark \in Nat /\ oldmsgs \in Int
    BY <1>2, ReadAtEnd, AreaFacts DEF IInv
  <2>2. ClearedBehind(mark) = behind
    <3>1. Ahead - 1 = oldmsgs
      BY <1>2, <2>1 DEF Ahead
    <3> QED
      BY <3>1 DEF ClearedBehind
  <2>3. \A m \in again : m \in Live /\ NewNumber(m) \in MovedOver(mark)
                         /\ newidx[NewNumber(m)] = m
    BY <1>2, ReadAtEnd, NewNumberIs DEF ReadBefore
  <2>4. renumber \in Injection(again, MovedOver(mark))
    <3> HIDE DEF again, mark
    <3> QED
      BY <2>3 DEF Injection, IsInjective
  <2>5. /\ IsFiniteSet(MovedOver(mark)) /\ Cardinality(MovedOver(mark)) \in Nat
        /\ Cardinality(behind) \in Nat
    <3> HIDE DEF mark
    <3> QED
      BY <2>1, CountedSets
  <2>6. IsFiniteSet(again) /\ Cardinality(again) <= Cardinality(MovedOver(mark))
    <3> HIDE DEF again, mark, renumber
    <3> QED
      BY <2>4, <2>5, FS_Injection
  <2>7. Cardinality(again) \in Nat
    BY <2>6, FS_CardinalityType
  <2>8. Cardinality(MovedOver(mark)) <= Cardinality(behind)
    BY <2>1, <2>2 DEF FewMovedOver
  <2> HIDE DEF again, behind, mark
  <2>9. Cardinality(again) <= Cardinality(behind)
    BY <2>5, <2>6, <2>7, <2>8
  <2> QED
    BY <2>9 DEF again, behind, mark
<1>3. ReadAgainBounded
  BY <1>2, NothingRead DEF ReadAgainBounded
<1>4. ASSUME pc = "replace"
      PROVE  Len(newlrd) = IF MarksForgotten THEN 0 ELSE Len(lrd)
  <2>1. Len(lrd) \in Nat
    BY LenProperties DEF IInv, TypeOK
  <2> QED
    BY <1>4, <2>1, MarksWritten
<1> QED
  BY <1>1, <1>3, <1>4 DEF LastReadsErrBack

\* Last read numbers err to one side, and by no more messages than were cleared
\* behind them; but if BaseMsgNum is 1 and nothing is cleared, all of them are gone
\* (packarea.c:549-577).
THEOREM LastReadsErr == Spec => []LastReadsErrBack
<1>1. IInv => LastReadsErrBack
  BY LastReadsAtEnd
<1> QED
  BY <1>1, Invariance, PTL
=============================================================================
