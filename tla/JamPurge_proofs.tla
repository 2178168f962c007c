---------------------------- MODULE JamPurge_proofs ----------------------------
(***************************************************************************)
(* Proofs about JamPurge, for every set of headers, every kind of message, *)
(* every configuration and any number of crashes.                          *)
(***************************************************************************)
EXTENDS JamPurge, SequenceTheorems, FiniteSetTheorems, TLAPS

-----------------------------------------------------------------------------
(* The initial states. *)

\* The least of the numbers is searched from 0, so it is 0 (purgearea.c:393-413).
LEMMA LeastReadIsZero ==
  ASSUME NEW users \in Seq(Nat)
  PROVE  LeastRead(users) = 0
<1> DEFINE S == {0} \cup ToSet(users)
<1>1. ToSet(users) \subseteq Nat
  BY LenProperties, ElementOfSeq DEF ToSet
<1>2. 0 \in S /\ \A y \in S : y \in Nat
  BY <1>1
<1>3. \A x \in S : (\A y \in S : x =< y) => x = 0
  BY <1>2
<1>4. \E x \in S : \A y \in S : x =< y
  BY <1>2
<1>5. Min(S) \in S /\ \A y \in S : Min(S) =< y
  <2> HIDE DEF S
  <2> QED
    BY <1>4 DEF Min
<1> HIDE DEF S
<1>6. Min(S) = 0
  BY <1>3, <1>5
<1> QED
  BY <1>6 DEF LeastRead, S

\* What an initial state says of its n entries and of the headers.
Parts(order, gone, n) ==
  /\ n \in Nat
  /\ order \in [1 .. n -> Headers]
  /\ \A j, k \in 1 .. n : order[j] = order[k] => j = k
  /\ Len(idx) = n
  /\ idx = [k \in 1 .. n |-> IF k \in gone THEN NoHeader ELSE order[k]]
  /\ hdr \in [Headers -> [MsgNum : Nat, deleted : BOOLEAN]]
  /\ \A h \in Indexed : hdr[h].deleted = FALSE /\ hdr[h].MsgNum >= 1
  /\ \A h \in Headers \ Indexed : hdr[h].deleted = TRUE
  /\ hdrinfo = [ActiveMsgs |-> Cardinality(Live), ModCounter |-> 0]

LEMMA InitParts == Init => \E order, gone, n : Parts(order, gone, n)
<1> SUFFICES ASSUME Init PROVE \E order, gone, n : Parts(order, gone, n)
  OBVIOUS
<1>1. PICK used, order, gone :
        /\ used \subseteq Headers
        /\ order \in SetToSeqs(used)
        /\ InitArea(order, gone)
  BY DEF Init
<1> DEFINE n == Cardinality(used)
<1>2. n \in Nat
  BY <1>1, JamAssumption, FS_Subset, FS_CardinalityType
<1>3. order \in [1 .. n -> Headers]
      /\ \A j, k \in 1 .. n : order[j] = order[k] => j = k
  BY <1>1 DEF SetToSeqs
<1> HIDE DEF n
<1>4. Len(order) = n
  BY <1>2, <1>3
<1>5. idx = [k \in 1 .. n |-> IF k \in gone THEN NoHeader ELSE order[k]]
      /\ hdrinfo = [ActiveMsgs |-> Cardinality(Live), ModCounter |-> 0]
  BY <1>1, <1>4 DEF InitArea
<1>6. Len(idx) = n /\ DOMAIN idx = 1 .. n
  BY <1>2, <1>5
<1> DEFINE At(h) == CHOOSE k \in 1 .. n : order[k] = h
<1>7. hdr = [h \in Headers |->
               IF h \in Indexed
               THEN [MsgNum |-> FirstMsg + At(h) - 1, deleted |-> FALSE]
               ELSE [MsgNum |-> 0, deleted |-> TRUE]]
  BY <1>1, <1>4 DEF InitArea
<1>8. \A h \in Indexed : h \in Headers /\ FirstMsg + At(h) - 1 \in Nat \ {0}
  <2> TAKE h \in Indexed
  <2>1. PICK k \in 1 .. n : idx[k] = h /\ h # NoHeader
    BY <1>6 DEF Indexed, ToSet
  <2>2. order[k] = h
    BY <1>5, <2>1
  <2>3. At(h) \in 1 .. n
    BY <2>2
  <2> HIDE DEF At
  <2> QED
    BY <1>2, <1>3, <2>2, <2>3, JamAssumption
<1> HIDE DEF At
<1>9. hdr \in [Headers -> [MsgNum : Nat, deleted : BOOLEAN]]
  BY <1>7, <1>8
<1>10. \A h \in Indexed : hdr[h].deleted = FALSE /\ hdr[h].MsgNum >= 1
  BY <1>7, <1>8
<1>11. \A h \in Headers \ Indexed : hdr[h].deleted = TRUE
  BY <1>7
<1>12. Parts(order, gone, n)
  BY <1>2, <1>3, <1>5, <1>6, <1>9, <1>10, <1>11 DEF Parts
<1> QED
  BY <1>12

LEMMA InitType == Init => TypeOK
<1> SUFFICES ASSUME Init PROVE TypeOK
  OBVIOUS
<1>1. PICK order, gone, n : Parts(order, gone, n)
  BY InitParts
<1>2. idx \in Seq(Headers \cup {NoHeader}) /\ Len(idx) \in Nat
  <2>1. idx \in [1 .. n -> Headers \cup {NoHeader}] /\ n \in Nat
    BY <1>1 DEF Parts
  <2> QED
    BY <2>1
<1>3. Indexed \subseteq Headers
  BY <1>2, LenProperties, ElementOfSeq DEF Indexed, ToSet
<1>4. hdrinfo \in [ActiveMsgs : 0 .. Dword - 1, ModCounter : 0 .. Dword - 1]
  <2>1. Live \subseteq Headers
    BY <1>3 DEF Live
  <2>2. /\ Cardinality(Live) \in Nat /\ Cardinality(Headers) \in Nat
        /\ Cardinality(Live) <= Cardinality(Headers)
    BY <2>1, JamAssumption, FS_Subset, FS_CardinalityType
  <2>3. Cardinality(Live) \in 0 .. Dword - 1 /\ 0 \in 0 .. Dword - 1
    BY <2>2, JamAssumption
  <2> QED
    BY <1>1, <2>3 DEF Parts
<1>5. read \subseteq Headers
  BY <1>3 DEF Init
<1>6. hdr \in [Headers -> [MsgNum : Nat, deleted : BOOLEAN]]
  BY <1>1 DEF Parts
<1> QED
  BY <1>2, <1>4, <1>5, <1>6 DEF Init, TypeOK

LEMMA InitCountInv == Init => CountInv
<1> SUFFICES ASSUME Init PROVE CountInv
  OBVIOUS
<1>1. PICK order, gone, n : Parts(order, gone, n)
  BY InitParts
<1>2. /\ Len(idx) = n /\ n \in Nat /\ DOMAIN idx = 1 .. n
      /\ \A k \in 1 .. n : idx[k] = IF k \in gone THEN NoHeader ELSE order[k]
  BY <1>1 DEF Parts
<1>3. \A j, k \in 1 .. Len(idx) : idx[j] = idx[k] /\ idx[j] # NoHeader => j = k
  BY <1>1, <1>2 DEF Parts
<1>4. Live = Indexed /\ MarkedBeforeCleared
  BY <1>1 DEF Parts, Live, MarkedBeforeCleared
<1>5. hdrinfo.ActiveMsgs = Cardinality(Live) /\ Cardinality(Live) \in Nat
  <2>1. hdrinfo.ActiveMsgs = Cardinality(Live)
    BY <1>1 DEF Parts
  <2>2. Live \subseteq Headers
    BY <1>1, <1>2 DEF Live, Indexed, ToSet, Parts
  <2> QED
    BY <2>1, <2>2, JamAssumption, FS_Subset, FS_CardinalityType
<1>6. pc = "idle" /\ crash.uncounted = 0 /\ crash.uncleared = 0
  BY DEF Init
<1> QED
  BY <1>3, <1>4, <1>5, <1>6 DEF CountInv

-----------------------------------------------------------------------------
(* The steps. *)

LEMMA HeaderCount ==
  ASSUME NEW S, S \subseteq Headers
  PROVE  IsFiniteSet(S) /\ Cardinality(S) \in Nat
BY JamAssumption, FS_Subset, FS_CardinalityType

LEMMA CountType ==
  ASSUME NEW n \in 0 .. Dword - 1
  PROVE  Dec(n) \in 0 .. Dword - 1 /\ Inc(n) \in 0 .. Dword - 1
BY JamAssumption DEF Dec, Inc

\* The two counters of a JAMHDRINFO after a deletion.
LEMMA CountedType ==
  ASSUME NEW info \in [ActiveMsgs : 0 .. Dword - 1, ModCounter : 0 .. Dword - 1]
  PROVE  /\ Counted(info) \in [ActiveMsgs : 0 .. Dword - 1,
                               ModCounter : 0 .. Dword - 1]
         /\ Counted(info).ActiveMsgs = Dec(info.ActiveMsgs)
BY CountType DEF Counted

LEMMA StepType == TypeOK /\ [Next]_vars => TypeOK'
<1> SUFFICES ASSUME TypeOK, [Next]_vars PROVE TypeOK'
  OBVIOUS
<1> USE DEF TypeOK
<1>1. Len(idx) \in Nat /\ \A k \in 1 .. Len(idx) : idx[k] \in Headers \cup {NoHeader}
  BY LenProperties, ElementOfSeq
<1>2. CASE ReadHdrInfo
  <2>1. lrd \in Seq(Nat)
    BY JamAssumption
  <2>2. LeastRead(lrd) = 0
    BY <2>1, LeastReadIsZero
  <2> QED
    BY <1>1, <1>2, <2>2 DEF ReadHdrInfo, files, history
<1>3. CASE KeepMsg
  BY <1>1, <1>3 DEF KeepMsg, files, history
<1>4. CASE DelMsg
  <2>1. idx[i] \in Headers
    BY <1>1, <1>4 DEF DelMsg, MustGo
  <2>2. hdr' \in [Headers -> [MsgNum : Nat, deleted : BOOLEAN]]
    BY <1>4, <2>1 DEF DelMsg
  <2>3. HdrInfo' \in [ActiveMsgs : 0 .. Dword - 1, ModCounter : 0 .. Dword - 1]
    BY <1>4, CountedType DEF DelMsg
  <2> QED
    BY <1>1, <1>4, <2>2, <2>3 DEF DelMsg, history
<1>5. CASE WriteIdx
  <2>1. idx' = [idx EXCEPT ![i] = NoHeader]
    BY <1>5 DEF WriteIdx, Cleared
  <2>2. idx' \in Seq(Headers \cup {NoHeader}) /\ Len(idx') = Len(idx)
    BY <2>1, <1>1, <1>5, ExceptSeq DEF WriteIdx
  <2> QED
    BY <1>1, <1>5, <2>2 DEF WriteIdx, memory, history
<1>6. CASE WriteHdrInfo
  BY <1>1, <1>6 DEF WriteHdrInfo, AfterDel, history
<1>7. CASE Done
  BY <1>1, <1>7 DEF Done, Forget, files, history
<1>8. CASE NextDay
  BY <1>1, <1>8, JamAssumption DEF NextDay, files, memory, history
<1>9. CASE Reconfigure
  BY <1>1, <1>9 DEF Reconfigure, files, memory, history
<1>10. CASE Crash
  <2>1. crash' \in [count : Nat, uncleared : Nat, uncounted : Nat]
    BY <1>1, <1>10 DEF Crash
  <2> QED
    BY <1>1, <1>10, <2>1 DEF Crash, Forget, files
<1>11. CASE UNCHANGED vars
  BY <1>11 DEF vars, files, memory, history
<1> QED
  BY <1>2, <1>3, <1>4, <1>5, <1>6, <1>7, <1>8, <1>9, <1>10, <1>11
  DEF Next, Run

\* The index names headers, and an entry that is not empty is named.
LEMMA IndexedType ==
  ASSUME TypeOK
  PROVE  /\ Len(idx) \in Nat
         /\ Indexed = {idx[k] : k \in 1 .. Len(idx)} \ {NoHeader}
         /\ Indexed \subseteq Headers /\ Live \subseteq Indexed
<1>1. /\ Len(idx) \in Nat /\ DOMAIN idx = 1 .. Len(idx)
      /\ \A k \in 1 .. Len(idx) : idx[k] \in Headers \cup {NoHeader}
  BY LenProperties, ElementOfSeq DEF TypeOK
<1> QED
  BY <1>1 DEF Indexed, Live, ToSet

\* The write of a header takes its message from Live (purgearea.c:335-341).
LEMMA DelMsgLive ==
  ASSUME TypeOK, DelMsg
  PROVE  /\ idx[i] \in Live
         /\ Live' = Live \ {idx[i]} /\ Indexed' = Indexed
         /\ \A h \in Headers : h # idx[i] => hdr'[h] = hdr[h]
         /\ hdr'[idx[i]].deleted
         /\ Cardinality(Live') = Cardinality(Live) - 1
         /\ Cardinality(Live) >= 1
<1>1. /\ i \in 1 .. Len(idx) /\ idx' = idx
      /\ idx[i] # NoHeader /\ ~hdr[idx[i]].deleted
      /\ hdr' = [hdr EXCEPT ![idx[i]].deleted = TRUE]
  BY DEF TypeOK, DelMsg, MustGo, CheckMsg
<1>2. idx[i] \in Indexed /\ Indexed \subseteq Headers
  BY <1>1, IndexedType
<1>3. Indexed' = Indexed
  BY <1>1 DEF Indexed
<1>4. idx[i] \in Live
  BY <1>1, <1>2 DEF Live
<1>5. /\ \A h \in Headers : h # idx[i] => hdr'[h] = hdr[h]
      /\ hdr'[idx[i]].deleted
  BY <1>1, <1>2 DEF TypeOK
<1>6. Live' = Live \ {idx[i]}
  BY <1>2, <1>3, <1>5 DEF Live
<1>7. IsFiniteSet(Live) /\ Cardinality(Live) \in Nat
  BY <1>2, IndexedType, HeaderCount
<1>8. Cardinality(Live') = Cardinality(Live) - 1
  BY <1>4, <1>6, <1>7, FS_RemoveElement
<1>9. Cardinality(Live') \in Nat
  BY <1>6, <1>2, IndexedType, HeaderCount
<1> QED
  BY <1>3, <1>4, <1>5, <1>6, <1>7, <1>8, <1>9

\* The write of an entry takes its header from the index and nothing from
\* Live: no other entry names it (purgearea.c:342-344).
LEMMA WriteIdxIndexed ==
  ASSUME TypeOK, CountInv, WriteIdx
  PROVE  /\ Indexed' = Indexed \ {idx[i]} /\ Live' = Live
         /\ \A j \in 1 .. Len(idx) :
              idx'[j] = IF j = i THEN NoHeader ELSE idx[j]
         /\ Len(idx') = Len(idx)
         /\ Cardinality(Indexed') = Cardinality(Indexed) - 1
<1>1. /\ i \in 1 .. Len(idx) /\ Len(idx) \in Nat
      /\ idx' = [idx EXCEPT ![i] = NoHeader]
      /\ hdr' = hdr
  BY IndexedType DEF TypeOK, WriteIdx, Cleared
<1>2. /\ Len(idx') = Len(idx) /\ DOMAIN idx = 1 .. Len(idx)
      /\ DOMAIN idx' = 1 .. Len(idx)
      /\ \A j \in 1 .. Len(idx) :
           idx'[j] = IF j = i THEN NoHeader ELSE idx[j]
  BY <1>1, ExceptSeq, LenProperties DEF TypeOK
<1>3. idx[i] \in Indexed /\ hdr[idx[i]].deleted
  BY DEF CountInv, WriteIdx
<1>4. \A j, k \in 1 .. Len(idx) : idx[j] = idx[k] /\ idx[j] # NoHeader => j = k
  BY DEF CountInv
<1>5. Indexed' = Indexed \ {idx[i]}
  BY <1>1, <1>2, <1>3, <1>4 DEF Indexed, ToSet
<1>6. Live' = Live
  BY <1>1, <1>3, <1>5 DEF Live
<1>7. IsFiniteSet(Indexed)
  BY IndexedType, HeaderCount
<1> QED
  BY <1>2, <1>3, <1>5, <1>6, <1>7, FS_RemoveElement

\* The deletion of a message, and a crash in the middle of it, keep account
\* of what is written.
LEMMA StepCountInv == TypeOK /\ CountInv /\ [Next]_vars => CountInv'
<1> SUFFICES ASSUME TypeOK, CountInv, [Next]_vars PROVE CountInv'
  OBVIOUS
<1>1. /\ Len(idx) \in Nat /\ Indexed \subseteq Headers
      /\ Cardinality(Live) \in Nat /\ Cardinality(Indexed) \in Nat
      /\ crash.uncounted \in Nat /\ crash.uncleared \in Nat
      /\ i \in 1 .. Len(idx) + 1
  <2>1. Indexed \subseteq Headers /\ Live \subseteq Headers /\ Len(idx) \in Nat
    BY IndexedType
  <2> QED
    BY <2>1, HeaderCount DEF TypeOK
\* Steps that leave the index and the headers as they are.
<1>2. ASSUME UNCHANGED << idx, hdr >>
      PROVE  Indexed' = Indexed /\ Live' = Live
             /\ (MarkedBeforeCleared <=> MarkedBeforeCleared')
  BY <1>2 DEF Indexed, Live, MarkedBeforeCleared
<1>3. CASE ReadHdrInfo
  <2>1. Indexed' = Indexed /\ Live' = Live /\ MarkedBeforeCleared'
    BY <1>2, <1>3 DEF ReadHdrInfo, files, CountInv
  <2> QED
    BY <1>1, <1>3, <2>1 DEF ReadHdrInfo, files, history, CountInv
<1>4. CASE KeepMsg
  <2>1. Indexed' = Indexed /\ Live' = Live /\ MarkedBeforeCleared'
    BY <1>2, <1>4 DEF KeepMsg, files, CountInv
  <2> QED
    BY <1>1, <1>4, <2>1 DEF KeepMsg, files, history, CountInv
<1>5. CASE DelMsg
  <2>1. /\ idx' = idx /\ i' = i /\ crash' = crash /\ hdrinfo' = hdrinfo
        /\ pc = "examine" /\ pc' = "writeIdx"
        /\ HdrInfo' = Counted(HdrInfo)
    BY <1>5 DEF DelMsg, history
  <2>2. HdrInfo'.ActiveMsgs = HdrInfo.ActiveMsgs - 1
    <3>1. HdrInfo.ActiveMsgs = Cardinality(Live) + crash.uncounted
      BY <2>1 DEF CountInv
    <3>2. HdrInfo.ActiveMsgs # 0
      BY <1>1, <1>5, <3>1, DelMsgLive
    <3> QED
      BY <2>1, <3>2, CountedType DEF TypeOK, Dec
  <2>3. MarkedBeforeCleared'
    BY <1>5, DelMsgLive DEF MarkedBeforeCleared, CountInv
  <2>4. idx'[i'] \in Indexed' /\ hdr'[idx'[i']].deleted
    BY <1>5, <2>1, DelMsgLive DEF Live
  <2> QED
    BY <1>1, <1>5, <2>1, <2>2, <2>3, <2>4, DelMsgLive DEF CountInv
<1>6. CASE WriteIdx
  <2>1. /\ HdrInfo' = HdrInfo /\ crash' = crash /\ hdrinfo' = hdrinfo
        /\ hdr' = hdr /\ pc = "writeIdx" /\ pc' = "writeHdrInfo"
    BY <1>6 DEF WriteIdx, memory, history
  <2>2. MarkedBeforeCleared'
    BY <1>6, <2>1, WriteIdxIndexed DEF MarkedBeforeCleared, CountInv
  <2>3. \A j, k \in 1 .. Len(idx') :
          idx'[j] = idx'[k] /\ idx'[j] # NoHeader => j = k
    BY <1>1, <1>6, WriteIdxIndexed DEF CountInv
  <2> QED
    BY <1>1, <1>6, <2>1, <2>2, <2>3, WriteIdxIndexed DEF CountInv
<1>7. CASE WriteHdrInfo
  <2>1. Indexed' = Indexed /\ Live' = Live /\ MarkedBeforeCleared'
    BY <1>2, <1>7 DEF WriteHdrInfo, CountInv
  <2> QED
    BY <1>1, <1>7, <2>1 DEF WriteHdrInfo, history, CountInv
<1>8. CASE Done
  <2>1. Indexed' = Indexed /\ Live' = Live /\ MarkedBeforeCleared'
    BY <1>2, <1>8 DEF Done, files, CountInv
  <2> QED
    BY <1>1, <1>8, <2>1 DEF Done, files, history, CountInv
<1>9. CASE NextDay \/ Reconfigure \/ UNCHANGED vars
  <2>1. UNCHANGED << idx, hdr, hdrinfo, pc, HdrInfo, i, crash >>
    BY <1>9 DEF NextDay, Reconfigure, vars, files, memory, history
  <2>2. Indexed' = Indexed /\ Live' = Live /\ MarkedBeforeCleared'
    BY <1>2, <2>1 DEF CountInv
  <2> QED
    BY <2>1, <2>2 DEF CountInv
<1>10. CASE Crash
  <2>1. /\ UNCHANGED << idx, hdr, hdrinfo >> /\ pc' = "idle"
        /\ crash'.uncleared = crash.uncleared + IF pc = "writeIdx" THEN 1 ELSE 0
        /\ crash'.uncounted = crash.uncounted
             + IF pc \in {"writeIdx", "writeHdrInfo"} THEN 1 ELSE 0
    BY <1>10 DEF Crash, files
  <2>2. Indexed' = Indexed /\ Live' = Live /\ MarkedBeforeCleared'
    BY <1>2, <2>1 DEF CountInv
  <2> QED
    BY <1>1, <2>1, <2>2 DEF CountInv
<1> QED
  BY <1>3, <1>4, <1>5, <1>6, <1>7, <1>8, <1>9, <1>10 DEF Next, Run

-----------------------------------------------------------------------------
(* Theorems. *)

\* The files, the memory and the history have their types in every state, with
\* any number of crashes: i never leaves the index and the two counters of the
\* JAMHDRINFO are dwords.
THEOREM TypeCorrect == Spec => []TypeOK
<1>1. TypeOK /\ [Next]_vars => TypeOK'
  BY StepType
<1> QED
  BY <1>1, InitType, PTL DEF Spec

\* Each of the numbers that JamDelMsg maintains knows which of its three writes
\* are still to come, and no two entries name the same header.
THEOREM CountInvariant == Spec => [](TypeOK /\ CountInv)
<1>1. Init => TypeOK /\ CountInv
  BY InitType, InitCountInv
<1>2. (TypeOK /\ CountInv) /\ [Next]_vars => (TypeOK /\ CountInv)'
  BY StepType, StepCountInv
<1> QED
  BY <1>1, <1>2, PTL DEF Spec

\* Between deletions, ActiveMsgs is the number of messages, and the index
\* names them all and no other header, but for what crashes have left: exactly
\* one entry or one in the count for a crash in the middle of JamDelMsg.
THEOREM DriftExact == Spec => []ActiveMsgsDrift
<1>1. TypeOK /\ CountInv => ActiveMsgsDrift
  <2> SUFFICES ASSUME TypeOK, CountInv, pc \in {"idle", "examine"}
               PROVE  /\ hdrinfo.ActiveMsgs = Cardinality(Live) + crash.uncounted
                      /\ Cardinality(Indexed) = Cardinality(Live) + crash.uncleared
    BY DEF ActiveMsgsDrift
  <2>1. Cardinality(Live) \in Nat
    BY IndexedType, HeaderCount
  <2> QED
    BY <2>1 DEF CountInv, TypeOK
<1> QED
  BY <1>1, CountInvariant, PTL

\* A header without an entry is marked as deleted: no crash loses a message.
THEOREM MarkedFirst == Spec => []MarkedBeforeCleared
<1>1. TypeOK /\ CountInv => MarkedBeforeCleared
  BY DEF CountInv
<1> QED
  BY <1>1, CountInvariant, PTL

-----------------------------------------------------------------------------
(* JamPurge implements Purge, also with crashes. *)

\* Nobody has read anything, as far as the program knows.
NothingRead ==
  /\ lastread = 0
  /\ \A h \in Live : hdr[h].MsgNum >= 1

LEMMA InitNothingRead == Init => NothingRead
<1> SUFFICES ASSUME Init PROVE NothingRead
  OBVIOUS
<1>1. PICK order, gone, n : Parts(order, gone, n)
  BY InitParts
<1> QED
  BY <1>1 DEF Parts, Init, NothingRead, Live

LEMMA StepNothingRead ==
  TypeOK /\ CountInv /\ NothingRead /\ [Next]_vars => NothingRead'
<1> SUFFICES ASSUME TypeOK, CountInv, NothingRead, [Next]_vars
             PROVE  NothingRead'
  OBVIOUS
<1>1. lastread' = 0
  <2>1. LeastRead(lrd) = 0
    BY JamAssumption, LeastReadIsZero DEF TypeOK
  <2> QED
    BY <2>1 DEF NothingRead, Next, Run, ReadHdrInfo, KeepMsg, DelMsg, WriteIdx,
                WriteHdrInfo, Done, Forget, NextDay, Reconfigure, Crash, memory,
                vars
<1>2. \A h \in Live' : hdr'[h].MsgNum >= 1
  <2>1. CASE DelMsg
    BY <2>1, DelMsgLive, IndexedType DEF NothingRead
  <2>2. CASE WriteIdx
    BY <2>2, WriteIdxIndexed DEF NothingRead, WriteIdx
  <2>3. CASE UNCHANGED << idx, hdr >>
    BY <2>3 DEF NothingRead, Live, Indexed
  <2> QED
    BY <2>1, <2>2, <2>3
       DEF Next, Run, ReadHdrInfo, KeepMsg, WriteHdrInfo, Done, NextDay,
           Reconfigure, Crash, files, vars
<1> QED
  BY <1>1, <1>2 DEF NothingRead

\* The victim of JamDelMsg is a message that the keywords let go.
LEMMA VictimMayPurge ==
  ASSUME TypeOK, CountInv, NothingRead, DelMsg
  PROVE  P!MayPurge(idx[i])
<1> DEFINE h == idx[i]
<1>1. h \in Live /\ h \in Headers /\ MustGo(h) /\ pc = "examine"
  BY DelMsgLive, IndexedType DEF DelMsg
<1>2. hdr[h].MsgNum >= 1 /\ hdr[h].MsgNum \in Nat /\ lastread = 0
  BY <1>1 DEF NothingRead, TypeOK
<1>3. ~(lastread >= hdr[h].MsgNum)
  BY <1>2
<1>4. HdrInfo.ActiveMsgs = Cardinality(Live) + crash.uncounted
  <2>1. Cardinality(Live) \in Nat
    BY IndexedType, HeaderCount
  <2> QED
    BY <1>1, <2>1 DEF CountInv
<1>5. msg[h] \in [local : BOOLEAN, sent : BOOLEAN,
                  DateWritten : Nat, DateProcessed : Nat]
      /\ area \in [keepUnread : BOOLEAN, killRead : BOOLEAN,
                   purge : Nat, max : Nat]
      /\ curtime \in Nat
  BY <1>1, JamAssumption DEF TypeOK
<1>6. ~P!Unsent(h)
  BY <1>1 DEF MustGo, Unsent, P!Unsent
<1>7. ~area.keepUnread
  BY <1>1, <1>3 DEF MustGo
<1>8. Expired(msg[h], curtime, area) => P!TooOld(h)
  BY <1>1, <1>5 DEF Expired, P!TooOld
<1>9. TooMany(HdrInfo.ActiveMsgs, area) => P!TooMany
  <2>1. P!Cardinality(Live) = Cardinality(Live)
    BY DEF P!Cardinality, Cardinality
  <2> QED
    BY <1>4, <2>1 DEF TooMany, P!TooMany
<1> QED
  BY <1>1, <1>3, <1>6, <1>7, <1>8, <1>9 DEF MustGo, P!MayPurge

\* Only the write of a header changes what is live, what is in the headers
\* never changes, and the days go on.
LEMMA StepPurge ==
  TypeOK /\ CountInv /\ NothingRead /\ [Next]_vars => [P!Next]_(P!vars)
<1> SUFFICES ASSUME TypeOK, CountInv, NothingRead, [Next]_vars
             PROVE  P!Next \/ UNCHANGED P!vars
  OBVIOUS
<1>1. CASE DelMsg
  <2>1. idx[i] \in Live /\ idx[i] \in Headers /\ Live' = Live \ {idx[i]}
    BY <1>1, DelMsgLive, IndexedType
  <2>2. P!MayPurge(idx[i])
    BY <1>1, VictimMayPurge
  <2>3. UNCHANGED << msg, crash, read, area, curtime >>
    BY <1>1 DEF DelMsg, history
  <2>4. P!PurgeMessage(idx[i])
    BY <2>1, <2>2, <2>3 DEF P!PurgeMessage
  <2> QED
    BY <2>1, <2>4 DEF P!Next
<1>2. CASE NextDay \/ Reconfigure
  <2>1. UNCHANGED << hdr, idx, msg, crash, read >>
    BY <1>2 DEF NextDay, Reconfigure, files, history
  <2>2. Live' = Live
    BY <2>1 DEF Live, Indexed
  <2>3. curtime' >= curtime /\ area' \in Areas
    BY <1>2, JamAssumption DEF NextDay, Reconfigure, TypeOK
  <2>4. crash.uncounted \in Nat
    BY DEF TypeOK
  <2> QED
    BY <2>1, <2>2, <2>3, <2>4 DEF P!Next, P!Environment
<1>3. CASE WriteIdx
  BY <1>3, WriteIdxIndexed DEF WriteIdx, P!vars, history
<1>4. CASE ReadHdrInfo \/ KeepMsg \/ WriteHdrInfo \/ Done \/ UNCHANGED vars
  <2>1. UNCHANGED << hdr, idx, msg, crash, read, area, curtime >>
    BY <1>4 DEF ReadHdrInfo, KeepMsg, WriteHdrInfo, Done, files, history, vars
  <2> QED
    BY <2>1 DEF P!vars, Live, Indexed
<1>5. CASE Crash
  <2>1. UNCHANGED << hdr, idx, msg, read, area, curtime >>
    BY <1>5 DEF Crash, files
  <2>2. Live' = Live
    BY <2>1 DEF Live, Indexed
  <2>3. crash'.uncounted \in Nat /\ crash'.uncounted >= crash.uncounted
    BY <1>5 DEF Crash, TypeOK
  <2>4. curtime' >= curtime /\ area' \in Areas
    BY <2>1, JamAssumption DEF TypeOK
  <2> QED
    BY <2>1, <2>2, <2>3, <2>4 DEF P!Next, P!Environment
<1> QED
  BY <1>1, <1>2, <1>3, <1>4, <1>5 DEF Next, Run

LEMMA InitPurge == Init => P!Init
<1> SUFFICES ASSUME Init PROVE P!Init
  OBVIOUS
<1>1. TypeOK
  BY InitType
<1>2. Live \subseteq Headers
  BY <1>1, IndexedType
<1>3. \A h \in Headers : msg[h] \in [local : BOOLEAN, sent : BOOLEAN,
                                     DateWritten : Nat, DateProcessed : Nat]
  BY <1>1, JamAssumption DEF TypeOK
<1>4. crash.uncounted = 0
  BY DEF Init
<1> QED
  BY <1>1, <1>2, <1>3, <1>4, JamAssumption DEF P!Init, TypeOK

\* Whatever the keywords, the days and the messages, and wherever runs are cut
\* short, messages are purged one at a time, and only those that may go.
THEOREM PurgeImplemented == Spec => ImplementsPurge
<1>1. Init => TypeOK /\ CountInv /\ NothingRead
  BY InitType, InitCountInv, InitNothingRead
<1>2. (TypeOK /\ CountInv /\ NothingRead) /\ [Next]_vars
      => (TypeOK /\ CountInv /\ NothingRead)'
  BY StepType, StepCountInv, StepNothingRead
<1> QED
  BY <1>1, <1>2, InitPurge, StepPurge, PTL DEF Spec, ImplementsPurge, P!Spec

-----------------------------------------------------------------------------
(* The keywords are enforced when the loop ends.                            *)
(*                                                                          *)
(* An entry that the loop has passed names no message that may go: it was   *)
(* kept for a reason that cannot end while the program runs, because the    *)
(* day and the keywords do not change and ActiveMsgs only falls.            *)

\* A message that a test of the loop protects, and one that no keyword asks for.
Kept(h) ==
  \/ h = NoHeader \/ h \in damaged \/ hdr[h].deleted \/ Unsent(msg[h])
  \/ ~Expired(msg[h], curtime, area) /\ ~TooMany(HdrInfo.ActiveMsgs, area)

Passed ==
  /\ pc # "idle" /\ ~area.keepUnread => \A k \in 1 .. i - 1 : Kept(idx[k])
  /\ pc = "writeHdrInfo" => idx[i] = NoHeader
  /\ MaxKept

\* While the loop runs the keywords, the day and what headers say of their
\* messages are fixed; a message that is kept stays so if ActiveMsgs does not rise
\* and no deletion is undone.
LEMMA KeptStays ==
  ASSUME TypeOK, NEW h, Kept(h), UNCHANGED << msg, damaged, curtime, area >>,
         h \in Headers => (hdr[h].deleted => hdr'[h].deleted), h \in Headers \cup {NoHeader},
         HdrInfo' = HdrInfo \/ HdrInfo'.ActiveMsgs = HdrInfo.ActiveMsgs - 1
  PROVE  Kept(h)'
<1>1. /\ HdrInfo.ActiveMsgs \in Int
      /\ area \in [keepUnread : BOOLEAN, killRead : BOOLEAN, purge : Nat, max : Nat]
  BY JamAssumption DEF TypeOK
<1>2. ~TooMany(HdrInfo.ActiveMsgs, area) => ~TooMany(HdrInfo'.ActiveMsgs, area)
  BY <1>1 DEF TooMany
<1>3. CASE h = NoHeader \/ h \in damaged \/ Unsent(msg[h])
  BY <1>3 DEF Kept
<1>4. CASE h \in Headers /\ hdr[h].deleted
  BY <1>4 DEF Kept
<1>5. CASE ~Expired(msg[h], curtime, area) /\ ~TooMany(HdrInfo.ActiveMsgs, area)
  BY <1>2, <1>5 DEF Kept
<1> QED
  BY <1>3, <1>4, <1>5 DEF Kept

\* The entry that the loop leaves behind without a deletion.
LEMMA KeepMsgKeeps ==
  ASSUME TypeOK, NothingRead, KeepMsg, ~area.keepUnread
  PROVE  Kept(idx[i])
BY DEF KeepMsg, MustGo, CheckMsg, Kept

\* The deletion of a message for the keyword max alone.
LEMMA DelMsgMaxKept ==
  ASSUME TypeOK, CountInv, NothingRead, DelMsg, area.purge = 0
  PROVE  Cardinality(Live') + crash'.uncounted >= area'.max
<1>1. /\ idx[i] \in Live /\ MustGo(idx[i]) /\ pc = "examine"
      /\ area' = area /\ crash' = crash
  BY DelMsgLive DEF DelMsg, history
<1>2. ~(lastread >= hdr[idx[i]].MsgNum)
  <2>1. idx[i] \in Headers
    BY <1>1, IndexedType
  <2>2. lastread = 0 /\ hdr[idx[i]].MsgNum >= 1 /\ hdr[idx[i]].MsgNum \in Nat
    BY <1>1, <2>1 DEF NothingRead, TypeOK
  <2> QED
    BY <2>2
<1>3. TooMany(HdrInfo.ActiveMsgs, area)
  BY <1>1, <1>2 DEF MustGo, Expired
<1>4. /\ Cardinality(Live) \in Nat /\ crash.uncounted \in Nat
      /\ Cardinality(Live') = Cardinality(Live) - 1
  BY IndexedType, HeaderCount, DelMsgLive DEF TypeOK
<1>5. HdrInfo.ActiveMsgs = Cardinality(Live) + crash.uncounted
  BY <1>1, <1>4 DEF CountInv
<1>6. area.max \in Nat
  BY JamAssumption DEF TypeOK
<1> QED
  BY <1>1, <1>3, <1>4, <1>5, <1>6 DEF TooMany

LEMMA StepPassed ==
  TypeOK /\ CountInv /\ NothingRead /\ Passed /\ [Next]_vars => Passed'
<1> SUFFICES ASSUME TypeOK, CountInv, NothingRead, Passed, [Next]_vars
             PROVE  Passed'
  OBVIOUS
<1>1. /\ Len(idx) \in Nat /\ i \in 1 .. Len(idx) + 1
      /\ \A k \in 1 .. Len(idx) : idx[k] \in Headers \cup {NoHeader}
  BY LenProperties, ElementOfSeq DEF TypeOK
<1>2. CASE ReadHdrInfo
  <2>1. pc' = "examine" /\ i' = 1
    BY <1>2 DEF ReadHdrInfo
  <2> QED
    BY <2>1 DEF Passed, MaxKept
<1>3. CASE KeepMsg
  <2>1. /\ pc = "examine" /\ pc' = "examine" /\ i <= Len(idx) /\ i' = i + 1
        /\ UNCHANGED << idx, hdr, msg, damaged, curtime, area, HdrInfo >>
    BY <1>3 DEF KeepMsg, files
  <2> SUFFICES ASSUME ~area.keepUnread, NEW k \in 1 .. i PROVE Kept(idx[k])'
    BY <2>1, <1>1 DEF Passed, MaxKept
  <2>2. Kept(idx[k])
    <3>1. k \in 1 .. i - 1 \/ k = i
      BY <1>1
    <3> QED
      BY <3>1, <1>3, <2>1, KeepMsgKeeps DEF Passed
  <2> QED
    BY <2>1, <2>2 DEF Kept
<1>4. CASE DelMsg
  <2>1. /\ pc = "examine" /\ pc' = "writeIdx" /\ i <= Len(idx) /\ i' = i /\ idx' = idx
        /\ UNCHANGED << msg, damaged, curtime, area, crash >>
        /\ HdrInfo' = Counted(HdrInfo)
    BY <1>4 DEF DelMsg, history
  <2>2. HdrInfo'.ActiveMsgs = HdrInfo.ActiveMsgs - 1
    <3>1. HdrInfo.ActiveMsgs = Cardinality(Live) + crash.uncounted
      BY <2>1 DEF CountInv
    <3>2. HdrInfo.ActiveMsgs # 0
      <4>1. Cardinality(Live) \in Nat /\ Cardinality(Live) >= 1 /\ crash.uncounted \in Nat
        BY <1>4, DelMsgLive, IndexedType, HeaderCount DEF TypeOK
      <4> QED
        BY <3>1, <4>1
    <3> QED
      BY <2>1, <3>2, CountedType DEF TypeOK, Dec
  <2>3. MaxKept'
    BY <1>4, <2>1, DelMsgMaxKept DEF MaxKept
  <2>4. ASSUME NEW h \in Headers, hdr[h].deleted PROVE hdr'[h].deleted
    BY <1>4, <2>4, DelMsgLive
  <2>5. ASSUME ~area.keepUnread, NEW k \in 1 .. i - 1 PROVE Kept(idx[k])'
    <3>1. idx[k] \in Headers \cup {NoHeader} /\ Kept(idx[k])
      BY <1>1, <2>1, <2>5 DEF Passed
    <3> DEFINE h == idx[k]
    <3>2. Kept(h)'
      <4> HIDE DEF h
      <4> QED
        BY <3>1, <2>1, <2>2, <2>4, KeptStays DEF h
    <3> QED
      BY <3>2
  <2> QED
    BY <2>1, <2>3, <2>5 DEF Passed
<1>5. CASE WriteIdx
  <2>1. /\ pc = "writeIdx" /\ pc' = "writeHdrInfo" /\ i' = i
        /\ UNCHANGED << hdr, msg, damaged, curtime, area, HdrInfo >>
        /\ i \in 1 .. Len(idx)
    BY <1>1, <1>5 DEF WriteIdx, memory, TypeOK
  <2>2. \A j \in 1 .. Len(idx) : idx'[j] = IF j = i THEN NoHeader ELSE idx[j]
    BY <1>5, WriteIdxIndexed
  <2>3. ASSUME ~area.keepUnread, NEW k \in 1 .. i - 1 PROVE Kept(idx[k])'
    <3>1. Kept(idx[k]) /\ idx'[k] = idx[k]
      BY <1>1, <2>1, <2>2, <2>3 DEF Passed
    <3> QED
      BY <2>1, <3>1 DEF Kept
  <2> QED
    BY <2>1, <2>2, <2>3 DEF Passed, MaxKept
<1>6. CASE WriteHdrInfo
  <2>1. /\ pc = "writeHdrInfo" /\ pc' = "examine" /\ i' = i + 1
        /\ UNCHANGED << idx, hdr, msg, damaged, curtime, area, HdrInfo >>
    BY <1>6 DEF WriteHdrInfo, AfterDel
  <2> SUFFICES ASSUME ~area.keepUnread, NEW k \in 1 .. i PROVE Kept(idx[k])'
    BY <2>1, <1>1 DEF Passed, MaxKept
  <2>2. Kept(idx[k])
    <3>1. k \in 1 .. i - 1 \/ k = i
      BY <1>1
    <3> QED
      BY <3>1, <2>1 DEF Passed, Kept
  <2> QED
    BY <2>1, <2>2 DEF Kept
<1>7. CASE Done \/ Crash
  <2>1. pc' = "idle"
    BY <1>7 DEF Done, Crash
  <2> QED
    BY <2>1 DEF Passed, MaxKept
<1>8. CASE NextDay \/ Reconfigure
  <2>1. pc' = "idle"
    BY <1>8 DEF NextDay, Reconfigure
  <2> QED
    BY <2>1 DEF Passed, MaxKept
<1>9. CASE UNCHANGED vars
  <2>1. UNCHANGED << idx, hdr, msg, damaged, curtime, area, pc, HdrInfo, i, crash >>
    BY <1>9 DEF vars, files, memory, history
  <2>2. Live' = Live
    BY <2>1 DEF Live, Indexed
  <2>3. ASSUME NEW k \in 1 .. i - 1, Kept(idx[k]) PROVE Kept(idx[k])'
    BY <2>1, <2>3 DEF Kept
  <2> QED
    BY <2>1, <2>2, <2>3 DEF Passed, MaxKept
<1> QED
  BY <1>2, <1>3, <1>4, <1>5, <1>6, <1>7, <1>8, <1>9 DEF Next, Run

\* What holds when the loop is at its end.
LEMMA EndOfLoop ==
  ASSUME TypeOK, CountInv, Passed, pc = "examine", i > Len(idx), ~area.keepUnread,
         NEW h \in Live, h \notin damaged, ~P!Unsent(h)
  PROVE  /\ ~P!TooOld(h)
         /\ area.max # 0 => Cardinality(Live) <= area.max
<1>1. h \in Headers /\ h # NoHeader /\ ~hdr[h].deleted /\ h \in Indexed
  BY IndexedType, JamAssumption DEF Live
<1>2. PICK k \in 1 .. Len(idx) : idx[k] = h
  BY <1>1, IndexedType
<1>3. i - 1 = Len(idx)
  <2>1. Len(idx) \in Nat /\ i \in 1 .. Len(idx) + 1 /\ i > Len(idx)
    BY IndexedType DEF TypeOK
  <2> QED
    BY <2>1
<1>4. Kept(h)
  BY <1>2, <1>3 DEF Passed
<1>5. ~Unsent(msg[h])
  BY <1>1 DEF Unsent, P!Unsent
<1>6. ~Expired(msg[h], curtime, area) /\ ~TooMany(HdrInfo.ActiveMsgs, area)
  BY <1>1, <1>4, <1>5 DEF Kept
<1>7. msg[h] \in [local : BOOLEAN, sent : BOOLEAN,
                  DateWritten : Nat, DateProcessed : Nat]
      /\ area \in [keepUnread : BOOLEAN, killRead : BOOLEAN,
                   purge : Nat, max : Nat]
      /\ curtime \in Nat
  BY <1>1, JamAssumption DEF TypeOK
<1>8. ~P!TooOld(h)
  BY <1>1, <1>6, <1>7 DEF Expired, P!TooOld
<1>9. Cardinality(Live) \in Nat /\ crash.uncounted \in Nat
  BY IndexedType, HeaderCount DEF TypeOK
<1>10. HdrInfo.ActiveMsgs = Cardinality(Live) + crash.uncounted
  BY <1>9 DEF CountInv
<1> QED
  BY <1>6, <1>7, <1>8, <1>9, <1>10 DEF TooMany

\* In every area and after any crashes: when the loop ends, nothing that a keyword
\* asks for is left but what is damaged or unsent, and max has taken no message
\* below the limit, uncounted deletions aside.
THEOREM KeywordsEnforced == Spec => []Enforced
<1>1. Init => TypeOK /\ CountInv /\ NothingRead /\ Passed
  <2>1. Init => Passed
    BY DEF Init, Passed, MaxKept
  <2> QED
    BY <2>1, InitType, InitCountInv, InitNothingRead
<1>2. (TypeOK /\ CountInv /\ NothingRead /\ Passed) /\ [Next]_vars
      => (TypeOK /\ CountInv /\ NothingRead /\ Passed)'
  BY StepType, StepCountInv, StepNothingRead, StepPassed
<1>3. TypeOK /\ CountInv /\ NothingRead /\ Passed => Enforced
  <2> SUFFICES ASSUME TypeOK, CountInv, Passed PROVE MaxEnforced /\ OldPurged
    BY DEF Enforced, Passed
  <2>1. MaxEnforced
    BY EndOfLoop DEF MaxEnforced
  <2>2. OldPurged
    BY EndOfLoop DEF OldPurged
  <2> QED
    BY <2>1, <2>2
<1> QED
  BY <1>1, <1>2, <1>3, PTL DEF Spec
=============================================================================
