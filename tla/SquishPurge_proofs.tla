-------------------------- MODULE SquishPurge_proofs --------------------------
(***************************************************************************)
(* Proofs about SquishPurge, for every set of frames, every kind of        *)
(* message, every configuration and any number of crashes.                 *)
(***************************************************************************)
EXTENDS SquishPurge, DateSort_proofs, NaturalsInduction

-----------------------------------------------------------------------------
(* Lists of frames. *)

\* A dword that is decremented is a dword, also at 0 (purgearea.c:114).
LEMMA DecType == \A n \in 0 .. Dword - 1 : Dec(n) \in 0 .. Dword - 1
BY DwordAssumption, FS_CardinalityType, FramesAssumption DEF Dec

\* The frame before and the frame behind one of a list are frames or 0.
LEMMA NeighboursType ==
  ASSUME NEW s \in Seq(Frames)
  PROVE  /\ FirstOf(s) \in FrameRef /\ LastOf(s) \in FrameRef
         /\ \A k \in 1 .. Len(s) : Before(s, k) \in FrameRef
                                   /\ After(s, k) \in FrameRef
<1>1. Len(s) \in Nat /\ \A k \in 1 .. Len(s) : s[k] \in Frames
  BY LenProperties, ElementOfSeq
<1>2. s # << >> => Len(s) >= 1
  BY EmptySeq, <1>1
<1> QED
  BY <1>1, <1>2 DEF FirstOf, LastOf, Before, After, FrameRef

\* In a list that holds no frame twice, neighbours know each other.
LEMMA Neighbours ==
  ASSUME NEW c \in Seq(Frames), Distinct(c),
         NEW k \in 1 .. Len(c), NEW p \in 1 .. Len(c)
  PROVE  /\ After(c, k) = c[p] <=> k + 1 = p
         /\ Before(c, k) = c[p] <=> k = p + 1
<1>1. /\ Len(c) \in Nat
      /\ \A j \in 1 .. Len(c) : c[j] \in Frames /\ c[j] # 0
  BY LenProperties, ElementOfSeq, FramesAssumption
<1>2. \A j, m \in 1 .. Len(c) : c[j] = c[m] => j = m
  BY DEF Distinct
<1>3. After(c, k) = c[p] <=> k + 1 = p
  <2>1. CASE k = Len(c)
    BY <2>1, <1>1 DEF After, NULL_FRAME
  <2>2. CASE k # Len(c)
    <3>1. After(c, k) = c[k + 1] /\ k + 1 \in 1 .. Len(c)
      BY <2>2, <1>1 DEF After
    <3> QED
      BY <3>1, <1>2
  <2> QED
    BY <2>1, <2>2
<1>4. Before(c, k) = c[p] <=> k = p + 1
  <2>1. CASE k = 1
    BY <2>1, <1>1 DEF Before, NULL_FRAME
  <2>2. CASE k # 1
    <3>1. Before(c, k) = c[k - 1] /\ k - 1 \in 1 .. Len(c)
      BY <2>2, <1>1 DEF Before
    <3>2. c[k - 1] = c[p] <=> k - 1 = p
      BY <3>1, <1>2
    <3> QED
      BY <3>1, <3>2, <1>1
  <2> QED
    BY <2>1, <2>2
<1> QED
  BY <1>3, <1>4

\* The links of a frame of a list are a header.
LEMMA LinkAtType ==
  ASSUME NEW s \in Seq(Frames), NEW k \in 1 .. Len(s),
         NEW type \in {"normal", "free"}
  PROVE  LinkAt(s, k, type) \in SQHDR
BY NeighboursType DEF LinkAt, SQHDR

\* If every frame is in one of the two lists, every frame has a header, and
\* the frames of the first list are linked.
LEMMA HdrsOfLists ==
  ASSUME NEW s \in Seq(Frames), NEW t \in Seq(Frames), Distinct(s),
         \A f \in Frames : \/ \E k \in 1 .. Len(s) : s[k] = f
                           \/ \E k \in 1 .. Len(t) : t[k] = f
  PROVE  /\ HdrsOf(s, t) \in [Frames -> SQHDR]
         /\ Linked(HdrsOf(s, t), s, "normal")
<1>1. /\ DOMAIN s = 1 .. Len(s)
      /\ \A k \in 1 .. Len(s) : s[k] \in Frames
  BY LenProperties, ElementOfSeq
<1>2. \A f : f \in ToSet(s) <=> \E k \in 1 .. Len(s) : s[k] = f
  BY <1>1 DEF ToSet
<1>3. \A f \in ToSet(s) : /\ PlaceOf(s, f) \in 1 .. Len(s)
                          /\ s[PlaceOf(s, f)] = f
  BY <1>2 DEF PlaceOf
<1>4. \A f \in Frames \ ToSet(s) : PlaceOf(t, f) \in 1 .. Len(t)
  BY <1>2 DEF PlaceOf
<1>5. HdrsOf(s, t) \in [Frames -> SQHDR]
  BY <1>3, <1>4, LinkAtType DEF HdrsOf
<1>6. ASSUME NEW k \in 1 .. Len(s)
      PROVE  HdrsOf(s, t)[s[k]] = LinkAt(s, k, "normal")
  <2>1. s[k] \in ToSet(s) /\ s[k] \in Frames
    BY <1>1, <1>2
  <2>2. PlaceOf(s, s[k]) = k
    BY <2>1, <1>3 DEF Distinct
  <2> QED
    BY <2>1, <2>2 DEF HdrsOf
<1> QED
  BY <1>5, <1>6 DEF Linked

\* A list from which one frame is taken: it has one frame less, still none
\* twice, and each end changes only if that frame was it.
LEMMA RemovedFrame ==
  ASSUME NEW c \in Seq(Frames), Distinct(c), NEW p \in 1 .. Len(c)
  PROVE  LET d == RemoveAt(c, p)
         IN  /\ d \in Seq(Frames) /\ Len(d) = Len(c) - 1
             /\ Distinct(d)
             /\ ToSet(d) = ToSet(c) \ {c[p]}
             /\ FirstOf(d) = IF Before(c, p) = NULL_FRAME
                             THEN After(c, p) ELSE FirstOf(c)
             /\ LastOf(d) = IF After(c, p) = NULL_FRAME
                            THEN Before(c, p) ELSE LastOf(c)
<1> DEFINE d == RemoveAt(c, p)
           n == Len(c)
<1>1. /\ d \in Seq(Frames) /\ Len(d) = n - 1
      /\ \A j \in 1 .. n - 1 : d[j] = IF j < p THEN c[j] ELSE c[j + 1]
  BY RemoveAtProperties
<1>2. /\ n \in Nat /\ DOMAIN c = 1 .. n
      /\ \A k \in 1 .. n : c[k] \in Frames /\ c[k] # 0
  BY LenProperties, ElementOfSeq, FramesAssumption
<1>3. \A j, k \in 1 .. n : c[j] = c[k] => j = k
  BY DEF Distinct
<1>4. DOMAIN d = 1 .. n - 1
  BY <1>1, LenProperties
<1> HIDE DEF d
<1>5. Distinct(d)
  BY <1>1, <1>2, <1>3 DEF Distinct
<1>6. ToSet(d) = ToSet(c) \ {c[p]}
  <2>1. ASSUME NEW j \in 1 .. n - 1
        PROVE  d[j] \in ToSet(c) \ {c[p]}
    <3>1. PICK k \in 1 .. n : k # p /\ d[j] = c[k]
      <4>1. CASE j < p
        <5>1. j \in 1 .. n /\ j # p /\ d[j] = c[j]
          BY <4>1, <1>1, <1>2
        <5> QED
          BY <5>1
      <4>2. CASE ~(j < p)
        <5>1. j + 1 \in 1 .. n /\ j + 1 # p /\ d[j] = c[j + 1]
          BY <4>2, <1>1, <1>2
        <5> QED
          BY <5>1
      <4> QED
        BY <4>1, <4>2
    <3> QED
      BY <3>1, <1>2, <1>3 DEF ToSet
  <2>2. ASSUME NEW k \in 1 .. n, k # p
        PROVE  \E j \in 1 .. n - 1 : d[j] = c[k]
    <3>1. CASE k < p
      BY <3>1, <1>1, <1>2
    <3>2. CASE k > p
      <4>1. k - 1 \in 1 .. n - 1 /\ ~(k - 1 < p) /\ (k - 1) + 1 = k
        BY <3>2, <1>2
      <4> QED
        BY <4>1, <1>1
    <3> QED
      BY <2>2, <3>1, <3>2
  <2>3. /\ \A f : f \in ToSet(c) <=> \E k \in 1 .. n : f = c[k]
        /\ \A f : f \in ToSet(d) <=> \E j \in 1 .. n - 1 : f = d[j]
    BY <1>2, <1>4 DEF ToSet
  <2>4. \A f : f \in ToSet(c) \ {c[p]} => \E j \in 1 .. n - 1 : f = d[j]
    BY <2>2, <2>3
  <2> QED
    BY <2>1, <2>3, <2>4
<1>7. d = << >> <=> n = 1
  BY <1>1, <1>2, EmptySeq
<1>8. c # << >>
  BY <1>2, EmptySeq
<1>9. FirstOf(d) = IF Before(c, p) = NULL_FRAME THEN After(c, p) ELSE FirstOf(c)
  BY <1>1, <1>2, <1>7, <1>8 DEF FirstOf, Before, After, NULL_FRAME
<1>10. LastOf(d) = IF After(c, p) = NULL_FRAME THEN Before(c, p) ELSE LastOf(c)
  BY <1>1, <1>2, <1>7, <1>8 DEF LastOf, Before, After, NULL_FRAME
<1> QED
  BY <1>1, <1>5, <1>6, <1>9, <1>10 DEF d

\* The purpose of the two header writes of SquishDelMsg (purgearea.c:66-100):
\* once the neighbours of a frame have its links in place of it, the rest of
\* the list is linked without it.
LEMMA UnlinkedFrame ==
  ASSUME NEW c \in Seq(Frames), Distinct(c), NEW p \in 1 .. Len(c), NEW h,
         \A k \in 1 .. Len(c) :
            h[c[k]] = [next_frame |-> IF After(c, k) = c[p] THEN After(c, p)
                                      ELSE After(c, k),
                       prev_frame |-> IF Before(c, k) = c[p] THEN Before(c, p)
                                      ELSE Before(c, k),
                       frame_type |-> "normal"]
  PROVE  Linked(h, RemoveAt(c, p), "normal")
<1> DEFINE d == RemoveAt(c, p)
           n == Len(c)
<1>1. /\ d \in Seq(Frames) /\ Len(d) = n - 1
      /\ \A j \in 1 .. n - 1 : d[j] = IF j < p THEN c[j] ELSE c[j + 1]
  BY RemoveAtProperties
<1>2. n \in Nat /\ \A k \in 1 .. n : c[k] \in Frames /\ c[k] # 0
  BY LenProperties, ElementOfSeq, FramesAssumption
<1>3. \A j, k \in 1 .. n : c[j] = c[k] => j = k
  BY DEF Distinct
<1> HIDE DEF d
<1>4. ASSUME NEW j \in 1 .. n - 1, NEW k \in 1 .. n,
             k = IF j < p THEN j ELSE j + 1
      PROVE  h[d[j]] = LinkAt(d, j, "normal")
  <2>1. d[j] = c[k]
    BY <1>1, <1>4
  <2>2. After(d, j) = IF After(c, k) = c[p] THEN After(c, p) ELSE After(c, k)
    <3>1. After(c, k) = c[p] <=> k + 1 = p
      BY Neighbours
    <3> QED
      BY <3>1, <1>1, <1>2, <1>4 DEF After, NULL_FRAME
  <2>3. Before(d, j) = IF Before(c, k) = c[p] THEN Before(c, p) ELSE Before(c, k)
    <3>1. Before(c, k) = c[p] <=> k = p + 1
      BY Neighbours
    <3> QED
      BY <3>1, <1>1, <1>2, <1>4 DEF Before, NULL_FRAME
  <2> QED
    BY <2>1, <2>2, <2>3 DEF LinkAt
<1>5. ASSUME NEW j \in 1 .. n - 1
      PROVE  h[d[j]] = LinkAt(d, j, "normal")
  <2>1. (IF j < p THEN j ELSE j + 1) \in 1 .. n
    BY <1>2
  <2> QED
    BY <2>1, <1>4
<1> QED
  BY <1>1, <1>5 DEF Linked, d

\* An index without one of its entries.
LEMMA RemovedEntry ==
  ASSUME NEW idx \in Seq(SQIDX), NoDuplicates(idx), NEW k \in 1 .. Len(idx)
  PROVE  LET new == RemoveAt(idx, k)
         IN  /\ new \in Seq(SQIDX) /\ Len(idx) \in Nat \ {0} /\ Len(new) = Len(idx) - 1
             /\ NoDuplicates(new)
             /\ Offsets(new) = Offsets(idx) \ {idx[k].ofs}
<1> DEFINE new == RemoveAt(idx, k)
           old(j) == IF j < k THEN j ELSE j + 1
<1>1. /\ Len(idx) \in Nat \ {0} /\ new \in Seq(SQIDX) /\ Len(new) = Len(idx) - 1
      /\ \A j \in 1 .. Len(idx) - 1 : new[j] = IF j < k THEN idx[j] ELSE idx[j + 1]
  <2>1. Len(idx) \in Nat \ {0}
    BY LenProperties
  <2>2. /\ new \in Seq(SQIDX) /\ Len(new) = Len(idx) - 1
        /\ \A j \in 1 .. Len(idx) - 1 : new[j] = IF j < k THEN idx[j] ELSE idx[j + 1]
    BY RemoveAtProperties
  <2> QED
    BY <2>1, <2>2
<1> HIDE DEF new
<1>2. \A j \in 1 .. Len(new) : old(j) \in 1 .. Len(idx) /\ old(j) # k /\ new[j] = idx[old(j)]
  BY <1>1
<1>3. \A j, m \in 1 .. Len(new) : old(j) = old(m) => j = m
  BY <1>1
<1>4. ASSUME NEW m \in 1 .. Len(idx), m # k PROVE \E j \in 1 .. Len(new) : old(j) = m
  <2>1. (IF m < k THEN m ELSE m - 1) \in 1 .. Len(new)
        /\ old(IF m < k THEN m ELSE m - 1) = m
    BY <1>1, <1>4
  <2> QED
    BY <2>1
<1> HIDE DEF old
<1>5. NoDuplicates(new)
  BY <1>2, <1>3 DEF NoDuplicates
<1>6. Offsets(new) \subseteq Offsets(idx) \ {idx[k].ofs}
  BY <1>2 DEF Offsets, NoDuplicates
<1>7. Offsets(idx) \ {idx[k].ofs} \subseteq Offsets(new)
  <2> SUFFICES ASSUME NEW m \in 1 .. Len(idx), m # k PROVE idx[m].ofs \in Offsets(new)
    BY DEF Offsets
  <2>1. PICK j \in 1 .. Len(new) : old(j) = m
    BY <1>4
  <2> QED
    BY <2>1, <1>2 DEF Offsets
<1> QED
  BY <1>1, <1>5, <1>6, <1>7 DEF new

\* What WriteSqi writes: the new entries, then what was behind them.
LEMMA Overwritten ==
  ASSUME NEW new \in Seq(SQIDX), NEW old \in Seq(SQIDX), Len(new) <= Len(old)
  PROVE  LET s == new \o SubSeq(old, Len(new) + 1, Len(old))
         IN  /\ Len(new) \in Nat /\ Len(old) \in Nat /\ Len(s) = Len(old)
             /\ \A k \in 1 .. Len(old) :
                  s[k] = IF k <= Len(new) THEN new[k] ELSE old[k]
<1> DEFINE tail == SubSeq(old, Len(new) + 1, Len(old))
<1>1. Len(new) \in Nat /\ Len(old) \in Nat
  BY LenProperties
<1>2. \A k \in Len(new) + 1 .. Len(old) : old[k] \in SQIDX
  BY <1>1, ElementOfSeq
<1>3. /\ tail \in Seq(SQIDX)
      /\ Len(tail) = Len(old) - Len(new)
      /\ \A k \in 1 .. Len(old) - Len(new) : tail[k] = old[Len(new) + k]
  BY <1>1, <1>2, SubSeqProperties
<1> HIDE DEF tail
<1>4. /\ Len(new \o tail) = Len(old)
      /\ \A k \in 1 .. Len(old) :
           (new \o tail)[k] = IF k <= Len(new) THEN new[k]
                              ELSE tail[k - Len(new)]
  BY <1>1, <1>3, ConcatProperties
<1>5. \A k \in 1 .. Len(old) : k > Len(new) => tail[k - Len(new)] = old[k]
  BY <1>1, <1>3
<1> QED
  BY <1>1, <1>4, <1>5 DEF tail

\* The index on disk begins with the new entries once they are written.
LEMMA OverwrittenFront ==
  ASSUME NEW new \in Seq(SQIDX), NEW old \in Seq(SQIDX), Len(new) <= Len(old)
  PROVE  SubSeq(new \o SubSeq(old, Len(new) + 1, Len(old)), 1, Len(new)) = new
<1> DEFINE s == new \o SubSeq(old, Len(new) + 1, Len(old))
           front == SubSeq(s, 1, Len(new))
<1>1. /\ Len(new) \in Nat /\ Len(old) \in Nat /\ Len(s) = Len(old)
      /\ \A k \in 1 .. Len(old) : s[k] = IF k <= Len(new) THEN new[k] ELSE old[k]
  BY Overwritten
<1> HIDE DEF s
<1>2. \A k \in 1 .. Len(new) : s[k] = new[k] /\ s[k] \in SQIDX
  <2>1. \A k \in 1 .. Len(new) : s[k] = new[k]
    BY <1>1
  <2> QED
    BY <2>1, ElementOfSeq
<1>3. /\ front \in Seq(SQIDX)
      /\ Len(front) = IF 1 <= Len(new) THEN Len(new) - 1 + 1 ELSE 0
      /\ \A k \in 1 .. Len(new) - 1 + 1 : front[k] = s[1 + k - 1]
  BY <1>1, <1>2, SubSeqProperties
<1> HIDE DEF front
<1>4. Len(front) = Len(new) /\ \A k \in 1 .. Len(new) : front[k] = s[k]
  BY <1>1, <1>3
<1>5. \A k \in 1 .. Len(new) : front[k] = new[k]
  BY <1>2, <1>4
<1> QED
  BY <1>3, <1>4, <1>5, SeqEqual DEF front, s

-----------------------------------------------------------------------------
(* Types. *)

\* The parts of an initial state: the lists are lists of all the frames.
LEMMA InitLists ==
  ASSUME Init
  PROVE  \E used, order, free :
             /\ used \subseteq Frames
             /\ order \in Seq(Frames) /\ Distinct(order)
             /\ Len(order) = Len(chain)
             /\ \A f \in used : \E k \in 1 .. Len(order) : order[k] = f
             /\ \A k \in 1 .. Len(order) : order[k] \in used
             /\ free \in Seq(Frames)
             /\ chain \in Seq(Frames) /\ Distinct(chain)
             /\ ToSet(chain) = used
             /\ Len(chain) \in 0 .. Dword - 1
             /\ hdrs \in [Frames -> SQHDR]
             /\ Linked(hdrs, chain, "normal")
             /\ InitArea(order, free)
             /\ read \subseteq used
<1>1. PICK used, order, free :
        /\ used \subseteq Frames
        /\ order \in SetToSeqs(used) /\ free \in SetToSeqs(Frames \ used)
        /\ chain \in SetToSeqs(used) /\ InitArea(order, free)
  BY DEF Init
<1>2. /\ IsFiniteSet(used) /\ IsFiniteSet(Frames \ used)
      /\ Cardinality(used) \in Nat /\ Cardinality(used) < Dword
      /\ Dword \in Nat
  <2>1. IsFiniteSet(used) /\ Cardinality(used) <= Cardinality(Frames)
    BY <1>1, FramesAssumption, FS_Subset
  <2>2. IsFiniteSet(Frames \ used)
    BY <1>1, FramesAssumption, FS_Subset
  <2>3. Cardinality(used) \in Nat /\ Cardinality(Frames) \in Nat
    BY <2>1, FramesAssumption, FS_CardinalityType
  <2> QED
    BY <2>1, <2>2, <2>3, DwordAssumption
<1>3. /\ order \in Seq(used) /\ Len(order) = Cardinality(used)
      /\ Distinct(order)
      /\ \A f \in used : \E k \in 1 .. Len(order) : order[k] = f
  BY <1>1, <1>2, ListOfSet DEF Distinct
<1>4. /\ chain \in Seq(used) /\ Len(chain) = Cardinality(used)
      /\ Distinct(chain)
      /\ \A f \in used : \E k \in 1 .. Len(chain) : chain[k] = f
  BY <1>1, <1>2, ListOfSet DEF Distinct
<1>5. /\ free \in Seq(Frames \ used)
      /\ \A f \in Frames \ used : \E k \in 1 .. Len(free) : free[k] = f
  <2> DEFINE unused == Frames \ used
  <2>1. IsFiniteSet(unused) /\ free \in SetToSeqs(unused)
    BY <1>1, <1>2
  <2> HIDE DEF unused
  <2>2. free \in Seq(unused) /\ \A f \in unused : \E k \in 1 .. Len(free) : free[k] = f
    BY <2>1, ListOfSet
  <2> QED
    BY <2>2 DEF unused
<1>6. order \in Seq(Frames) /\ chain \in Seq(Frames) /\ free \in Seq(Frames)
  BY <1>1, <1>3, <1>4, <1>5, SeqMonotonic, Frames \ used \subseteq Frames
<1>7. \A k \in 1 .. Len(order) : order[k] \in used
  BY <1>3, ElementOfSeq
<1>8. ToSet(chain) = used
  <2>1. DOMAIN chain = 1 .. Len(chain) /\ \A k \in 1 .. Len(chain) : chain[k] \in used
    BY <1>4, LenProperties, ElementOfSeq
  <2> QED
    BY <2>1, <1>4 DEF ToSet
<1>9. hdrs \in [Frames -> SQHDR] /\ Linked(hdrs, chain, "normal")
  BY <1>1, <1>4, <1>5, <1>6, HdrsOfLists DEF InitArea
<1>10. read \subseteq used
  BY <1>1, <1>7 DEF InitArea
<1>11. Len(chain) \in 0 .. Dword - 1 /\ Len(order) = Len(chain)
  BY <1>2, <1>3, <1>4
<1> QED
  BY <1>1, <1>3, <1>4, <1>6, <1>7, <1>8, <1>9, <1>10, <1>11

LEMMA InitType == Init => TypeOK
<1> SUFFICES ASSUME Init PROVE TypeOK
  OBVIOUS
<1>1. PICK used, order, free :
        /\ used \subseteq Frames
        /\ order \in Seq(Frames)
        /\ free \in Seq(Frames)
        /\ chain \in Seq(Frames)
        /\ Len(chain) \in 0 .. Dword - 1
        /\ hdrs \in [Frames -> SQHDR]
        /\ InitArea(order, free)
        /\ read \subseteq used
  BY InitLists
<1>2. base \in SQBASE
  BY <1>1, NeighboursType DEF SQBASE, InitArea
<1>3. sqi \in Seq(SQIDX)
  <2>1. Len(order) \in Nat /\ \A k \in 1 .. Len(order) : order[k] \in Frames
    BY <1>1, LenProperties, ElementOfSeq
  <2>2. sqi \in [1 .. Len(order) -> SQIDX]
    BY <1>1, <2>1 DEF SQIDX, InitArea
  <2> QED
    BY <2>1, <2>2
<1>4. NoHdr \in SQHDR
  BY DEF NoHdr, SQHDR, FrameRef
<1>5. sqidx = << >> /\ Len(sqidx) = 0 /\ sqidx \in Seq(SQIDX) /\ i = 1
  BY DEF Init
<1>6. /\ xmsg \in [Frames -> XMsgs] /\ damaged \subseteq Frames
      /\ sql \in LastReads /\ area \in Areas /\ curtime \in 0 .. LastDay
      /\ pc = "idle" /\ sqbase = base /\ sqhdr = NoHdr /\ lastread = 0
      /\ crash = [count |-> 0, left |-> "sound"]
  BY DEF Init
<1> QED
  BY <1>1, <1>2, <1>3, <1>4, <1>5, <1>6 DEF TypeOK


\* The search for a umsgid finds the number of a message, or 0.
LEMMA IndexOfType ==
  ASSUME NEW idx, Len(idx) \in Nat, NEW umsgid
  PROVE  IndexOf(idx, umsgid) \in Nat
<1> DEFINE found == {k \in 1 .. Len(idx) : idx[k].umsgid = umsgid}
           LT == {ss \in Nat \X Nat : ss[1] < ss[2]}
<1>0. IsWellFoundedOn(LT, Nat)
  BY NatLessThanWellFounded DEF OpToRel
<1>1. CASE found = {}
  BY <1>1 DEF IndexOf
<1>2. CASE found # {}
  <2>1. found \subseteq Nat
    OBVIOUS
  <2>2. \E k \in found : \A j \in found : ~(<< j, k >> \in LT)
    <3> HIDE DEF found, LT
    <3> QED
      BY <1>0, <1>2, <2>1, WFMin
  <2>3. PICK k \in found : \A j \in found : ~(<< j, k >> \in LT)
    BY <2>2
  <2>4. \A j \in 1 .. k - 1 : idx[j].umsgid # umsgid
    <3> SUFFICES ASSUME NEW j \in 1 .. k - 1, idx[j].umsgid = umsgid
                 PROVE  FALSE
      OBVIOUS
    <3>1. j \in found /\ << j, k >> \in LT
      OBVIOUS
    <3> QED
      BY <2>3, <3>1
  <2>5. \E m \in 1 .. Len(idx) :
           /\ idx[m].umsgid = umsgid
           /\ \A j \in 1 .. m - 1 : idx[j].umsgid # umsgid
    BY <2>3, <2>4
  <2> QED
    BY <2>5 DEF IndexOf
<1> QED
  BY <1>1, <1>2

\* The next state is of the right type if this step is (one per action).
LEMMA StepType == TypeOK /\ [Next \/ Crash]_vars => TypeOK'
<1> SUFFICES ASSUME TypeOK, [Next \/ Crash]_vars PROVE TypeOK'
  OBVIOUS
<1> USE DEF TypeOK
<1>1. Len(sqidx) \in Nat /\ Len(sqi) \in Nat /\ Len(chain) \in Nat
  BY LenProperties
<1>2. \A k \in 1 .. Len(sqidx) : sqidx[k].ofs \in Frames
  <2>1. \A k \in 1 .. Len(sqidx) : sqidx[k] \in SQIDX
    BY ElementOfSeq
  <2> QED
    BY <2>1 DEF SQIDX
<1>3. Prev \in FrameRef /\ Succ \in FrameRef
  BY DEF Prev, Succ, SQHDR
<1>4. NoHdr \in SQHDR /\ << >> \in Seq(SQIDX) /\ Len(<< >>) = 0
  BY EmptySeq DEF NoHdr, SQHDR, FrameRef
<1>5. CASE ReadBase
  <2>1. lastread' \in Nat
    BY <1>1, <1>5, IndexOfType DEF ReadBase
  <2> QED
    BY <1>1, <1>5, <2>1 DEF ReadBase, files, history
<1>6. CASE KeepMsg
  BY <1>1, <1>6 DEF KeepMsg, files, history
<1>7. CASE DelMsg
  <2>1. sqidx[i].ofs \in Frames
    BY <1>2, <1>7 DEF DelMsg
  <2>2. sqhdr' \in SQHDR
    BY <1>7, <2>1 DEF DelMsg
  <2> QED
    BY <1>1, <1>7, <2>2 DEF DelMsg, files, history
<1>8. CASE RelinkPrev
  <2>1. hdrs' \in [Frames -> SQHDR]
    BY <1>3, <1>8 DEF RelinkPrev, RelinkedPrev, SQHDR, FrameRef
  <2>2. sqbase' \in SQBASE
    BY <1>3, <1>8 DEF RelinkPrev, SQBASE
  <2> QED
    BY <1>8, <2>1, <2>2 DEF RelinkPrev, history
<1>9. CASE RelinkNext
  <2>1. hdrs' \in [Frames -> SQHDR]
    BY <1>3, <1>9 DEF RelinkNext, RelinkedNext, SQHDR, FrameRef
  <2>2. sqidx[i].ofs \in Frames
    BY <1>1, <1>2, <1>9 DEF RelinkNext
  <2>3. sqbase' \in SQBASE
    <3>1. /\ sqbase \in SQBASE /\ sqidx[i].ofs \in FrameRef
          /\ Prev \in FrameRef /\ Succ \in FrameRef
      BY <1>3, <2>2 DEF FrameRef
    <3> HIDE DEF Prev, Succ
    <3> QED
      BY <3>1, <1>9 DEF RelinkNext, SQBASE
  <2> QED
    BY <1>9, <2>1, <2>3 DEF RelinkNext, history
<1>10. CASE MarkFree
  <2>1. i \in 1 .. Len(sqidx) /\ sqidx[i].ofs \in Frames
    BY <1>1, <1>2, <1>10 DEF MarkFree
  <2>2. hdrs' \in [Frames -> SQHDR]
    BY <1>10, <2>1 DEF MarkFree, SQHDR
  <2>3. sqbase' \in SQBASE
    BY <1>10, DecType DEF MarkFree, SQBASE
  <2>4. sqidx' \in Seq(SQIDX) /\ Len(sqidx') = Len(sqidx) - 1
    BY <1>10, <2>1, RemoveAtProperties DEF MarkFree, Closed
  <2>5. chain' \in Seq(Frames)
    <3>1. chain' = Unlinked(chain, sqidx[i].ofs)
      BY <1>10 DEF MarkFree
    <3>2. CASE sqidx[i].ofs \in ToSet(chain)
      <4>1. PlaceOf(chain, sqidx[i].ofs) \in 1 .. Len(chain)
        BY <3>2, LenProperties DEF ToSet, PlaceOf
      <4> QED
        BY <3>1, <3>2, <4>1, RemoveAtProperties DEF Unlinked
    <3> QED
      BY <3>1, <3>2 DEF Unlinked
  <2>6. i' = i /\ pc' = "examine"
    BY <1>10 DEF MarkFree, AfterDel
  <2>7. i' \in 1 .. Len(sqidx') + 1 /\ Len(sqidx') <= Len(sqi)
    BY <1>1, <1>10, <2>1, <2>4, <2>6 DEF MarkFree
  <2> QED
    BY <1>10, <2>2, <2>3, <2>4, <2>5, <2>6, <2>7 DEF MarkFree
<1>11. CASE WriteBase
  BY <1>11 DEF WriteBase, memory, history
<1>12. CASE WriteSqi
  <2> DEFINE tail == SubSeq(sqi, Len(sqidx) + 1, Len(sqi))
  <2>1. \A k \in Len(sqidx) + 1 .. Len(sqi) : sqi[k] \in SQIDX
    BY <1>1, ElementOfSeq
  <2>2. tail \in Seq(SQIDX) /\ Len(tail) \in Nat
    BY <1>1, <2>1, SubSeqProperties, LenProperties
  <2>3. sqi' \in Seq(SQIDX) /\ Len(sqi') = Len(sqidx) + Len(tail)
    BY <1>12, <2>2, ConcatProperties DEF WriteSqi
  <2>4. Len(sqidx) <= Len(sqi')
    BY <1>1, <2>2, <2>3
  <2> QED
    BY <1>12, <2>3, <2>4 DEF WriteSqi, memory, history
<1>13. CASE Truncate
  <2>1. \A k \in 1 .. Len(sqidx) : sqi[k] \in SQIDX
    BY <1>1, <1>13, ElementOfSeq DEF Truncate
  <2>2. sqi' \in Seq(SQIDX)
    BY <1>1, <1>13, <2>1, SubSeqProperties DEF Truncate
  <2>3. crash' \in [count : Nat, left : {"sound", "dirty", "torn"}]
    BY <1>13 DEF Truncate
  <2> QED
    BY <1>4, <1>13, <2>2, <2>3 DEF Truncate, Forget
<1>14. CASE NextDay
  BY <1>14, PurgeAssumption DEF NextDay, files, memory, history
<1>15. CASE Reconfigure
  BY <1>15 DEF Reconfigure, files, memory, history
<1>18. CASE Crash
  BY <1>4, <1>18 DEF Crash, Forget, files
<1>17. CASE UNCHANGED vars
  BY <1>17 DEF vars, files, memory, history
<1> QED
  BY <1>5, <1>6, <1>7, <1>8, <1>9, <1>10, <1>11, <1>12, <1>13, <1>14, <1>15,
     <1>18, <1>17 DEF Next, Run

\* Type correctness of the purge as it runs without crashes ...
THEOREM TypeCorrect == Spec => []TypeOK
<1>1. TypeOK /\ [Next]_vars => TypeOK'
  BY StepType
<1> QED
  BY InitType, <1>1, PTL DEF Spec

\* ... and with crashes and restarts: no counter, no offset and no number of a
\* message leaves its range, whatever files a crash has left behind.
THEOREM CrashTypeCorrect == CrashSpec => []TypeOK
<1>1. TypeOK /\ [CrashNext]_vars => TypeOK'
  BY StepType DEF CrashNext, Next
<1> QED
  BY InitType, <1>1, PTL DEF CrashSpec

-----------------------------------------------------------------------------
(* The list of messages. *)

LEMMA InitListInv == Init => ListInv
<1> SUFFICES ASSUME Init PROVE ListInv
  OBVIOUS
<1>1. PICK used, order, free :
        /\ Distinct(order)
        /\ order \in Seq(Frames)
        /\ Len(order) = Len(chain)
        /\ \A f \in used : \E k \in 1 .. Len(order) : order[k] = f
        /\ \A k \in 1 .. Len(order) : order[k] \in used
        /\ Distinct(chain)
        /\ ToSet(chain) = used
        /\ Linked(hdrs, chain, "normal")
        /\ InitArea(order, free)
  BY InitLists
<1>2. pc = "idle"
  BY DEF Init
<1>3. Len(order) \in Nat
  BY <1>1, LenProperties
<1>4. /\ Len(sqi) = Len(order)
      /\ \A k \in 1 .. Len(order) : sqi[k].ofs = order[k]
  BY <1>1, <1>3 DEF InitArea
<1>5. NoDuplicates(sqi)
  BY <1>1, <1>4 DEF NoDuplicates, Distinct
<1>6. Offsets(sqi) = ToSet(chain)
  BY <1>1, <1>4 DEF Offsets
<1>7. LinksInv
  BY <1>1, <1>2 DEF LinksInv, Linked, LinkAt
<1>8. EndsInv
  BY <1>1, <1>2 DEF EndsInv, CurrentBase, InitArea
<1>9. IndexInv
  BY <1>1, <1>2, <1>5, <1>6 DEF IndexInv, CurrentBase, CurrentSqi, InitArea
<1> QED
  BY <1>1, <1>2, <1>7, <1>8, <1>9 DEF ListInv, VictimInv, Deleting

\* chain as the provers need it, and the message that is being deleted in it.
LEMMA ChainFacts ==
  ASSUME TypeOK, ListInv
  PROVE  /\ Len(chain) \in Nat /\ DOMAIN chain = 1 .. Len(chain)
         /\ \A k \in 1 .. Len(chain) : chain[k] \in Frames /\ chain[k] # 0
         /\ \A j, k \in 1 .. Len(chain) : chain[j] = chain[k] => j = k
<1>1. chain \in Seq(Frames)
  BY DEF TypeOK
<1> QED
  BY <1>1, LenProperties, ElementOfSeq, FramesAssumption DEF ListInv, Distinct

\* The headers read when a message is chosen are those of a linked list.
LEMMA DelMsgListInv ==
  ASSUME TypeOK, ListInv, DelMsg
  PROVE  ListInv'
<1>1. /\ pc = "examine" /\ pc' = "relinkPrev" /\ i \in 1 .. Len(sqidx)
      /\ sqhdr' = hdrs[sqidx[i].ofs]
      /\ UNCHANGED << hdrs, base, sqi, sqbase, sqidx, i, chain >>
  BY DEF DelMsg, files, history, TypeOK
<1>2. sqidx[i].ofs \in ToSet(chain)
  BY <1>1 DEF ListInv, IndexInv, CurrentSqi, Offsets
<1>3. PICK p \in 1 .. Len(chain) : chain[p] = sqidx[i].ofs
  BY <1>2, ChainFacts DEF ToSet
<1>4. hdrs[chain[p]] = LinkAt(chain, p, "normal")
  BY <1>1 DEF ListInv, LinksInv, LinkAt
<1>5. VictimInv'
  BY <1>1, <1>3, <1>4 DEF VictimInv, Victim
<1>6. LinksInv'
  BY <1>1 DEF ListInv, LinksInv
<1>7. EndsInv' /\ IndexInv'
  BY <1>1 DEF ListInv, EndsInv, IndexInv, CurrentBase, CurrentSqi
<1> QED
  BY <1>1, <1>5, <1>6, <1>7 DEF ListInv

\* The first header write: the frame before the victim points behind it.
LEMMA RelinkPrevListInv ==
  ASSUME TypeOK, ListInv, RelinkPrev
  PROVE  ListInv'
<1>1. /\ pc = "relinkPrev" /\ pc' = "relinkNext"
      /\ hdrs' = RelinkedPrev(hdrs)
      /\ UNCHANGED << base, sqi, sqidx, i, sqhdr, chain >>
  BY DEF RelinkPrev, history
<1>2. PICK p \in 1 .. Len(chain) :
        chain[p] = Victim /\ sqhdr = LinkAt(chain, p, "normal")
  BY <1>1 DEF ListInv, VictimInv, Deleting
<1>3. Prev = Before(chain, p) /\ Succ = After(chain, p)
  BY <1>2 DEF Prev, Succ, LinkAt
<1>4. hdrs \in [Frames -> SQHDR]
  BY DEF TypeOK
<1>5. VictimInv'
  BY <1>1, <1>2 DEF VictimInv, Victim
<1>6. ASSUME NEW k \in 1 .. Len(chain)
      PROVE  hdrs'[chain[k]] =
               [next_frame |-> IF After(chain, k) = Victim THEN Succ
                               ELSE After(chain, k),
                prev_frame |-> Before(chain, k), frame_type |-> "normal"]
  <2>1. hdrs[chain[k]] = LinkAt(chain, k, "normal")
    BY <1>1 DEF ListInv, LinksInv, LinkAt
  <2>2. After(chain, k) = Victim <=> k + 1 = p
    BY <1>2, Neighbours DEF ListInv, TypeOK
  <2>3. chain[k] = Prev <=> k + 1 = p
    BY <1>3, Neighbours DEF ListInv, TypeOK
  <2>4. CASE k + 1 = p
    <3>1. Prev # NULL_FRAME /\ Prev = chain[k]
      BY <2>3, <2>4, ChainFacts DEF NULL_FRAME
    <3>2. hdrs'[chain[k]] = [hdrs[chain[k]] EXCEPT !.next_frame = Succ]
      BY <1>1, <1>4, <3>1, ChainFacts DEF RelinkedPrev
    <3> QED
      BY <2>1, <2>2, <2>4, <3>2 DEF LinkAt
  <2>5. CASE k + 1 # p
    <3>1. hdrs'[chain[k]] = hdrs[chain[k]]
      BY <1>1, <1>4, <2>3, <2>5, ChainFacts DEF RelinkedPrev
    <3> QED
      BY <2>1, <2>2, <2>5, <3>1 DEF LinkAt
  <2> QED
    BY <2>4, <2>5
<1>7. LinksInv'
  BY <1>1, <1>6 DEF LinksInv, Victim, Succ, Prev
<1>8. /\ sqbase'.begin_frame = IF Prev = NULL_FRAME THEN Succ
                               ELSE sqbase.begin_frame
      /\ sqbase'.last_frame = IF Prev # NULL_FRAME /\ Succ = NULL_FRAME
                              THEN Prev ELSE sqbase.last_frame
      /\ sqbase'.num_msg = sqbase.num_msg
      /\ sqbase'.high_msg = sqbase.high_msg
  BY DEF RelinkPrev, TypeOK, SQBASE
<1>9. EndsInv'
  BY <1>1, <1>8 DEF ListInv, EndsInv, CurrentBase, Prev, Succ
<1>10. IndexInv'
  BY <1>1, <1>8 DEF ListInv, IndexInv, CurrentBase, CurrentSqi
<1> QED
  BY <1>1, <1>5, <1>7, <1>9, <1>10 DEF ListInv

\* The second header write: the frame behind the victim points before it.
LEMMA RelinkNextListInv ==
  ASSUME TypeOK, ListInv, RelinkNext
  PROVE  ListInv'
<1>1. /\ pc = "relinkNext" /\ pc' = "markFree"
      /\ hdrs' = RelinkedNext(hdrs)
      /\ UNCHANGED << base, sqi, sqidx, i, sqhdr, chain >>
  BY DEF RelinkNext, history
<1>2. PICK p \in 1 .. Len(chain) :
        chain[p] = Victim /\ sqhdr = LinkAt(chain, p, "normal")
  BY <1>1 DEF ListInv, VictimInv, Deleting
<1>3. Prev = Before(chain, p) /\ Succ = After(chain, p)
  BY <1>2 DEF Prev, Succ, LinkAt
<1>4. hdrs \in [Frames -> SQHDR]
  BY DEF TypeOK
<1>5. VictimInv'
  BY <1>1, <1>2 DEF VictimInv, Victim
<1>6. ASSUME NEW k \in 1 .. Len(chain)
      PROVE  hdrs'[chain[k]] =
               [next_frame |-> IF After(chain, k) = Victim THEN Succ
                               ELSE After(chain, k),
                prev_frame |-> IF Before(chain, k) = Victim THEN Prev
                               ELSE Before(chain, k),
                frame_type |-> "normal"]
  <2>1. hdrs[chain[k]] =
          [next_frame |-> IF After(chain, k) = Victim THEN Succ
                          ELSE After(chain, k),
           prev_frame |-> Before(chain, k), frame_type |-> "normal"]
    BY <1>1 DEF ListInv, LinksInv
  <2>2. Before(chain, k) = Victim <=> k = p + 1
    BY <1>2, Neighbours DEF ListInv, TypeOK
  <2>3. chain[k] = Succ <=> k = p + 1
    BY <1>3, Neighbours DEF ListInv, TypeOK
  <2>4. CASE k = p + 1
    <3>1. Succ # NULL_FRAME /\ Succ = chain[k]
      BY <2>3, <2>4, ChainFacts DEF NULL_FRAME
    <3>2. hdrs'[chain[k]] = [hdrs[chain[k]] EXCEPT !.prev_frame = Prev]
      BY <1>1, <1>4, <3>1, ChainFacts DEF RelinkedNext
    <3> QED
      BY <2>1, <2>2, <2>4, <3>2
  <2>5. CASE k # p + 1
    <3>1. hdrs'[chain[k]] = hdrs[chain[k]]
      BY <1>1, <1>4, <2>3, <2>5, ChainFacts DEF RelinkedNext
    <3> QED
      BY <2>1, <2>2, <2>5, <3>1
  <2> QED
    BY <2>4, <2>5
<1>7. LinksInv'
  BY <1>1, <1>6 DEF LinksInv, Victim, Succ, Prev
<1>8. /\ sqbase'.begin_frame = IF Succ # NULL_FRAME /\ Prev = NULL_FRAME
                               THEN Succ ELSE sqbase.begin_frame
      /\ sqbase'.last_frame = IF Succ = NULL_FRAME THEN Prev
                              ELSE sqbase.last_frame
      /\ sqbase'.num_msg = sqbase.num_msg
      /\ sqbase'.high_msg = sqbase.high_msg
  BY DEF RelinkNext, TypeOK, SQBASE
<1>9. EndsInv'
  BY <1>1, <1>8 DEF ListInv, EndsInv, CurrentBase, Prev, Succ
<1>10. IndexInv'
  BY <1>1, <1>8 DEF ListInv, IndexInv, CurrentBase, CurrentSqi
<1> QED
  BY <1>1, <1>5, <1>7, <1>9, <1>10 DEF ListInv


\* The third header write, and the message leaves the list.
LEMMA MarkFreeListInv ==
  ASSUME TypeOK, ListInv, MarkFree
  PROVE  ListInv'
<1>1. /\ pc = "markFree" /\ pc' = "examine" /\ i' = i
      /\ hdrs' = [hdrs EXCEPT ![Victim] = [sqhdr EXCEPT !.frame_type = "free"]]
      /\ chain' = Unlinked(chain, Victim)
      /\ sqidx' = RemoveAt(sqidx, i)
      /\ UNCHANGED << base, sqi, sqhdr >>
  BY DEF MarkFree, AfterDel, Closed, Victim
<1>2. PICK p \in 1 .. Len(chain) :
        chain[p] = Victim /\ sqhdr = LinkAt(chain, p, "normal")
  BY <1>1 DEF ListInv, VictimInv, Deleting
<1>3. Prev = Before(chain, p) /\ Succ = After(chain, p)
  BY <1>2 DEF Prev, Succ, LinkAt
<1>4. hdrs \in [Frames -> SQHDR] /\ chain \in Seq(Frames) /\ Distinct(chain)
  BY DEF TypeOK, ListInv
<1>5. chain' = RemoveAt(chain, p)
  <2>1. Victim \in ToSet(chain)
    BY <1>2, ChainFacts DEF ToSet
  <2>2. PlaceOf(chain, Victim) \in 1 .. Len(chain)
        /\ chain[PlaceOf(chain, Victim)] = Victim
    BY <1>2 DEF PlaceOf
  <2>3. PlaceOf(chain, Victim) = p
    BY <1>2, <2>2, ChainFacts
  <2> QED
    BY <1>1, <2>1, <2>3 DEF Unlinked
<1>6. /\ chain' \in Seq(Frames) /\ Len(chain') = Len(chain) - 1
      /\ Distinct(chain')
      /\ ToSet(chain') = ToSet(chain) \ {Victim}
      /\ FirstOf(chain') = IF Prev = NULL_FRAME THEN Succ ELSE FirstOf(chain)
      /\ LastOf(chain') = IF Succ = NULL_FRAME THEN Prev ELSE LastOf(chain)
  BY <1>2, <1>3, <1>4, <1>5, RemovedFrame
<1>7. Linked(hdrs, chain', "normal")
  <2>1. \A k \in 1 .. Len(chain) :
           hdrs[chain[k]] =
             [next_frame |-> IF After(chain, k) = chain[p] THEN After(chain, p)
                             ELSE After(chain, k),
              prev_frame |-> IF Before(chain, k) = chain[p] THEN Before(chain, p)
                             ELSE Before(chain, k),
              frame_type |-> "normal"]
    BY <1>1, <1>2, <1>3 DEF ListInv, LinksInv
  <2> QED
    BY <1>4, <1>5, <2>1, UnlinkedFrame
<1>8. \A k \in 1 .. Len(chain') : hdrs'[chain'[k]] = hdrs[chain'[k]]
  <2>1. \A k \in 1 .. Len(chain') : chain'[k] \in ToSet(chain')
    BY <1>6, LenProperties DEF ToSet
  <2>2. \A f \in Frames : f # Victim => hdrs'[f] = hdrs[f]
    BY <1>1, <1>4
  <2> QED
    BY <1>6, <2>1, <2>2, ElementOfSeq
<1>9. LinksInv'
  BY <1>1, <1>7, <1>8 DEF LinksInv, Linked, LinkAt
<1>10. /\ sqbase' = [sqbase EXCEPT !.num_msg = Dec(@), !.high_msg = Dec(@)]
       /\ sqbase \in SQBASE
  BY DEF MarkFree, TypeOK
<1>11. /\ sqbase'.begin_frame = sqbase.begin_frame
       /\ sqbase'.last_frame = sqbase.last_frame
       /\ sqbase'.num_msg = Dec(sqbase.num_msg)
       /\ sqbase'.high_msg = Dec(sqbase.high_msg)
  BY <1>10 DEF SQBASE
<1>12. EndsInv'
  BY <1>1, <1>6, <1>11 DEF ListInv, EndsInv, CurrentBase
<1>13. Dec(Len(chain)) = Len(chain')
  BY <1>2, <1>6, ChainFacts DEF Dec
<1>14. NoDuplicates(sqidx) /\ Offsets(sqidx) = ToSet(chain)
  BY <1>1 DEF ListInv, IndexInv, CurrentSqi
<1>15. NoDuplicates(sqidx') /\ Offsets(sqidx') = Offsets(sqidx) \ {Victim}
  <2>1. sqidx \in Seq(SQIDX) /\ i \in 1 .. Len(sqidx)
    BY <1>1 DEF TypeOK
  <2> QED
    BY <1>1, <1>14, <2>1, RemovedEntry DEF Victim
<1>16. IndexInv'
  BY <1>1, <1>6, <1>11, <1>13, <1>14, <1>15
     DEF ListInv, IndexInv, CurrentBase, CurrentSqi
<1>17. VictimInv'
  BY <1>1 DEF VictimInv, Deleting
<1> QED
  BY <1>6, <1>9, <1>12, <1>16, <1>17 DEF ListInv

\* The index on disk, once it is cut off behind the new entries, is the one in
\* memory (purgearea.c:306-307).
LEMMA WriteSqiListInv ==
  ASSUME TypeOK, ListInv, WriteSqi
  PROVE  ListInv'
<1>1. /\ pc = "writeSqi" /\ pc' = "truncate"
      /\ sqi' = sqidx \o SubSeq(sqi, Len(sqidx) + 1, Len(sqi))
      /\ UNCHANGED << hdrs, base, sqidx, sqhdr, i, chain, sqbase >>
  BY DEF WriteSqi, memory, history
<1>2. SubSeq(sqi', 1, Len(sqidx)) = sqidx
  BY <1>1, OverwrittenFront DEF TypeOK
<1>3. VictimInv' /\ LinksInv' /\ EndsInv'
  BY <1>1 DEF ListInv, VictimInv, Deleting, LinksInv, EndsInv, CurrentBase
<1>4. IndexInv'
  BY <1>1, <1>2 DEF ListInv, IndexInv, CurrentBase, CurrentSqi
<1> QED
  BY <1>1, <1>3, <1>4 DEF ListInv

\* Each action, and the steps of the environment.
LEMMA StepListInv == TypeOK /\ ListInv /\ [Next]_vars => ListInv'
<1> SUFFICES ASSUME TypeOK, ListInv, [Next]_vars PROVE ListInv'
  OBVIOUS
<1> USE DEF ListInv, VictimInv, Deleting, LinksInv, EndsInv, IndexInv,
            CurrentBase, CurrentSqi
<1>1. CASE ReadBase
  BY <1>1 DEF ReadBase, files, history
<1>2. CASE KeepMsg
  BY <1>2 DEF KeepMsg, files, history
<1>3. CASE WriteBase
  BY <1>3 DEF WriteBase, memory, history
<1>4. CASE Truncate
  BY <1>4 DEF Truncate
<1>5. CASE NextDay
  BY <1>5 DEF NextDay, files, memory, history
<1>6. CASE Reconfigure
  BY <1>6 DEF Reconfigure, files, memory, history
<1>7. CASE UNCHANGED vars
  BY <1>7 DEF vars, files, memory, history, Victim, Succ, Prev
<1> QED
  BY <1>1, <1>2, <1>3, <1>4, <1>5, <1>6, <1>7, DelMsgListInv,
     RelinkPrevListInv, RelinkNextListInv, MarkFreeListInv, WriteSqiListInv
     DEF Next, Run

\* The inductive invariant holds of every run that is not cut short ...
THEOREM ListInvariant == Spec => []ListInv
<1>1. TypeOK /\ ListInv /\ [Next]_vars => TypeOK' /\ ListInv'
  BY StepType, StepListInv
<1> QED
  BY InitType, InitListInv, <1>1, PTL DEF Spec

\* ... so that links, ends, counters and index of a Squish area agree before
\* and after every run, and in memory between any two deletions.
THEOREM ListCorrect == Spec => []ListSound
<1>1. ListInv => ListSound
  BY DEF ListInv, VictimInv, Deleting, LinksInv, EndsInv, IndexInv,
         CurrentBase, CurrentSqi, ListSound, Describes, Linked, LinkAt
<1> QED
  BY <1>1, ListInvariant, PTL

-----------------------------------------------------------------------------
(* Mail that was not sent. *)

LEMMA StepVictimMayGo ==
  TypeOK /\ VictimMayGo /\ [CrashNext]_vars => VictimMayGo'
<1> SUFFICES ASSUME TypeOK, VictimMayGo, [CrashNext]_vars PROVE VictimMayGo'
  OBVIOUS
<1> USE DEF VictimMayGo, Deleting, Victim
<1>1. CASE DelMsg
  BY <1>1 DEF DelMsg, MustGo, MayGo, files
<1>2. CASE RelinkPrev
  BY <1>2 DEF RelinkPrev
<1>3. CASE RelinkNext
  BY <1>3 DEF RelinkNext
<1>4. CASE ReadBase \/ KeepMsg \/ MarkFree \/ WriteBase \/ WriteSqi
           \/ Truncate \/ Crash
  BY <1>4 DEF ReadBase, KeepMsg, MarkFree, WriteBase, WriteSqi, Truncate, Crash
<1>5. CASE UNCHANGED vars
  BY <1>5 DEF vars, files, memory, history
<1> QED
  BY <1>1, <1>2, <1>3, <1>4, <1>5 DEF CrashNext, Run

\* Only the last of the three header writes changes a type, and only the
\* victim's.
LEMMA StepUnsentKept ==
  ASSUME TypeOK, VictimMayGo, [CrashNext]_vars,
         NEW f \in Frames, hdrs[f].frame_type = "normal", Unsent(xmsg[f])
  PROVE  hdrs'[f].frame_type = "normal"
<1>1. hdrs \in [Frames -> SQHDR]
  BY DEF TypeOK
<1>2. CASE RelinkPrev
  BY <1>1, <1>2 DEF RelinkPrev, RelinkedPrev, SQHDR
<1>3. CASE RelinkNext
  BY <1>1, <1>3 DEF RelinkNext, RelinkedNext, SQHDR
<1>4. CASE MarkFree
  <2>1. Victim # f
    BY <1>4 DEF MarkFree, VictimMayGo, Deleting
  <2>2. hdrs' = [hdrs EXCEPT ![Victim] = [sqhdr EXCEPT !.frame_type = "free"]]
    BY <1>4 DEF MarkFree, Victim
  <2> QED
    BY <1>1, <2>1, <2>2
<1>5. CASE ReadBase \/ KeepMsg \/ DelMsg \/ WriteBase \/ WriteSqi
           \/ Truncate \/ Crash \/ UNCHANGED vars
  BY <1>5 DEF ReadBase, KeepMsg, DelMsg, WriteBase, WriteSqi, Truncate, Crash,
              files, vars
<1> QED
  BY <1>2, <1>3, <1>4, <1>5 DEF CrashNext, Run

\* However often the program dies and starts again, on whatever files the last
\* run has left, no mail that waits to be sent is purged.
THEOREM UnsentIsKept == CrashSpec => UnsentKept
<1>1. Init => VictimMayGo
  BY DEF Init, VictimMayGo, Deleting
<1>2. TypeOK /\ [CrashNext]_vars => TypeOK'
  BY StepType DEF CrashNext, Next
<1>3. ASSUME TypeOK, VictimMayGo, [CrashNext]_vars
      PROVE  [\A f \in Frames :
                 hdrs[f].frame_type = "normal" /\ P!Unsent(f)
                 => hdrs'[f].frame_type = "normal"]_vars
  BY <1>3, StepUnsentKept DEF P!Unsent, Unsent
<1> QED
  BY InitType, <1>1, <1>2, <1>3, StepVictimMayGo, PTL DEF CrashSpec, UnsentKept

-----------------------------------------------------------------------------
(* Without crashes, SquishPurge implements Purge. *)

\* The messages that are not deleted, as the files say.
LiveMsgs == {f \in Offsets(sqi) : hdrs[f].frame_type = "normal"}

\* They are those of the list, nobody has read anything, as far as the program
\* knows, and the reason to delete a message stays while it is being deleted.
PurgeInv ==
  /\ lastread = 0
  /\ LiveMsgs = ToSet(chain)
  /\ Deleting => MustGo(Victim)

\* The victim, and no other message, leaves the list.
LEMMA MarkFreeChain ==
  ASSUME TypeOK, ListInv, MarkFree
  PROVE  ToSet(chain') = ToSet(chain) \ {Victim}
<1>1. pc = "markFree" /\ chain' = Unlinked(chain, Victim)
  BY DEF MarkFree, Victim
<1>2. PICK p \in 1 .. Len(chain) : chain[p] = Victim
  BY <1>1 DEF ListInv, VictimInv, Deleting
<1>3. PlaceOf(chain, Victim) = p
  <2>1. PlaceOf(chain, Victim) \in 1 .. Len(chain)
        /\ chain[PlaceOf(chain, Victim)] = Victim
    BY <1>2 DEF PlaceOf
  <2> QED
    BY <1>2, <2>1, ChainFacts
<1>4. chain' = RemoveAt(chain, p)
  BY <1>1, <1>2, <1>3, ChainFacts DEF Unlinked, ToSet
<1> QED
  BY <1>2, <1>4, RemovedFrame DEF TypeOK, ListInv

\* The least of the umsgids is searched from 0 (purgearea.c:139-156).
LEMMA LeastUmsgidIsZero ==
  ASSUME NEW users \in Seq(Nat)
  PROVE  LeastUmsgid(users) = 0
<1> DEFINE S == {0} \cup ToSet(users)
<1>1. ToSet(users) \subseteq Nat
  BY LenProperties, ElementOfSeq DEF ToSet
<1>2. 0 \in S /\ \A y \in S : y \in Nat
  BY <1>1
<1>3. \A x \in S : (\A y \in S : x =< y) => x = 0
  BY <1>2
<1>4. \E x \in S : \A y \in S : x =< y
  BY <1>2
<1>5. Min(S) \in S /\ \A y \in S : Min(S) =< y
  <2> HIDE DEF S
  <2> QED
    BY <1>4 DEF Min
<1> HIDE DEF S
<1>6. Min(S) = 0
  BY <1>3, <1>5
<1> QED
  BY <1>6 DEF LeastUmsgid, S

\* The frames of the list are normal, and there are as many as Len(chain).
LEMMA ListedFrames ==
  ASSUME TypeOK, ListInv
  PROVE  /\ ToSet(chain) \subseteq Frames
         /\ \A f \in ToSet(chain) : hdrs[f].frame_type = "normal"
         /\ Cardinality(ToSet(chain)) = Len(chain)
<1>1. \A f : f \in ToSet(chain) <=> \E k \in 1 .. Len(chain) : chain[k] = f
  BY ChainFacts DEF ToSet
<1>2. \A k \in 1 .. Len(chain) : hdrs[chain[k]].frame_type = "normal"
  <2> TAKE k \in 1 .. Len(chain)
  <2>1. \E next_frame, prev_frame :
           hdrs[chain[k]] = [next_frame |-> next_frame, prev_frame |-> prev_frame,
                             frame_type |-> "normal"]
    BY DEF ListInv, LinksInv
  <2> QED
    BY <2>1
<1>3. chain \in Bijection(1 .. Len(chain), ToSet(chain))
  <2>1. chain \in [1 .. Len(chain) -> ToSet(chain)]
    BY <1>1, ChainFacts DEF TypeOK
  <2> QED
    BY <2>1, <1>1, ChainFacts, Fun_IsBij
<1>4. Cardinality(ToSet(chain)) = Len(chain)
  BY <1>3, ChainFacts, FS_CountingElements DEF ExistsBijection
<1> QED
  BY <1>1, <1>2, <1>4, ChainFacts

LEMMA InitPurgeInv == Init => PurgeInv
<1> SUFFICES ASSUME Init PROVE PurgeInv
  OBVIOUS
<1>1. TypeOK /\ ListInv /\ pc = "idle" /\ lastread = 0
  BY InitType, InitListInv DEF Init
<1>2. Offsets(sqi) = ToSet(chain)
  BY <1>1 DEF ListInv, IndexInv, CurrentSqi
<1> QED
  BY <1>1, <1>2, ListedFrames DEF PurgeInv, LiveMsgs, Deleting

\* Up to the last write of SquishDelMsg nothing changes in what is live.
LEMMA SameTypes ==
  ASSUME TypeOK, hdrs' = RelinkedPrev(hdrs) \/ hdrs' = RelinkedNext(hdrs),
         NEW f \in Frames
  PROVE  hdrs'[f].frame_type = hdrs[f].frame_type
<1>1. hdrs \in [Frames -> SQHDR]
  BY DEF TypeOK
<1> QED
  BY <1>1 DEF RelinkedPrev, RelinkedNext, SQHDR

LEMMA StepPurgeInv ==
  ASSUME TypeOK, ListInv, PurgeInv, [Next]_vars, TypeOK', ListInv'
  PROVE  PurgeInv'
<1>1. lastread' = 0
  <2>1. LeastUmsgid(sql) = 0
    BY PurgeAssumption, LeastUmsgidIsZero DEF TypeOK
  <2>2. IndexOf(sqi, LeastUmsgid(sql)) = 0
    BY <2>1 DEF IndexOf
  <2> QED
    BY <2>2
       DEF PurgeInv, Next, Run, ReadBase, KeepMsg, DelMsg, RelinkPrev,
           RelinkNext, MarkFree, WriteBase, WriteSqi, Truncate, Forget,
           NextDay, Reconfigure, memory, vars
<1>2. LiveMsgs' = ToSet(chain')
  <2>1. Offsets(sqi) \subseteq Frames
    <3>1. \A k \in 1 .. Len(sqi) : sqi[k] \in SQIDX
      BY ElementOfSeq DEF TypeOK
    <3> QED
      BY <3>1 DEF Offsets, SQIDX
  <2>2. CASE RelinkPrev \/ RelinkNext
    <3>1. sqi' = sqi /\ chain' = chain
          /\ (hdrs' = RelinkedPrev(hdrs) \/ hdrs' = RelinkedNext(hdrs))
      BY <2>2 DEF RelinkPrev, RelinkNext, history
    <3> QED
      BY <2>1, <3>1, SameTypes DEF PurgeInv, LiveMsgs
  <2>3. CASE MarkFree
    <3>1. /\ hdrs' = [hdrs EXCEPT ![Victim] = [sqhdr EXCEPT !.frame_type = "free"]]
          /\ sqi' = sqi /\ chain' = Unlinked(chain, Victim)
      BY <2>3 DEF MarkFree, Victim
    <3>2. LiveMsgs' = LiveMsgs \ {Victim}
      BY <2>1, <3>1 DEF LiveMsgs, TypeOK, SQHDR
    <3>3. ToSet(chain') = ToSet(chain) \ {Victim}
      BY <2>3, MarkFreeChain
    <3> QED
      BY <3>2, <3>3 DEF PurgeInv
  <2>4. CASE WriteSqi
    <3>1. /\ sqi' = sqidx \o SubSeq(sqi, Len(sqidx) + 1, Len(sqi))
          /\ hdrs' = hdrs /\ chain' = chain /\ pc = "writeSqi"
      BY <2>4 DEF WriteSqi, history
    <3>2. Offsets(sqidx) = ToSet(chain)
      BY <3>1 DEF ListInv, IndexInv, CurrentSqi
    <3>3. /\ Len(sqidx) \in Nat /\ Len(sqi) \in Nat
          /\ Len(sqidx) <= Len(sqi)
          /\ Len(sqi') = Len(sqi)
          /\ \A k \in 1 .. Len(sqi) :
               sqi'[k] = IF k <= Len(sqidx) THEN sqidx[k] ELSE sqi[k]
      BY <3>1, Overwritten DEF TypeOK
    <3>4. /\ Offsets(sqidx) \subseteq Offsets(sqi')
          /\ Offsets(sqi') \subseteq Offsets(sqidx) \cup Offsets(sqi)
      BY <3>3 DEF Offsets
    <3> QED
      BY <3>1, <3>2, <3>4, ListedFrames DEF PurgeInv, LiveMsgs
  <2>5. CASE Truncate
    <3>1. /\ sqi' = SubSeq(sqi, 1, Len(sqidx))
          /\ hdrs' = hdrs /\ chain' = chain /\ pc' = "idle"
      BY <2>5 DEF Truncate
    <3>2. Offsets(sqi') = ToSet(chain')
      BY <3>1 DEF ListInv, IndexInv, CurrentSqi
    <3> QED
      BY <3>1, <3>2, ListedFrames DEF LiveMsgs
  <2>6. CASE UNCHANGED << sqi, hdrs, chain >>
    BY <2>6 DEF PurgeInv, LiveMsgs
  <2> QED
    BY <2>2, <2>3, <2>4, <2>5, <2>6
       DEF Next, Run, ReadBase, KeepMsg, DelMsg, WriteBase, NextDay,
           Reconfigure, files, history, vars
<1>3. Deleting' => MustGo(Victim)'
  <2>1. CASE DelMsg
    BY <2>1 DEF DelMsg, files, Victim, MustGo, MayGo, Asked
  <2>2. CASE RelinkPrev
    <3>1. sqbase'.num_msg = sqbase.num_msg
      BY <2>2 DEF RelinkPrev, TypeOK, SQBASE
    <3> QED
      BY <2>2, <3>1 DEF RelinkPrev, PurgeInv, Deleting, Victim, MustGo, MayGo, Asked
  <2>3. CASE RelinkNext
    <3>1. sqbase'.num_msg = sqbase.num_msg
      BY <2>3 DEF RelinkNext, TypeOK, SQBASE
    <3> QED
      BY <2>3, <3>1 DEF RelinkNext, PurgeInv, Deleting, Victim, MustGo, MayGo, Asked
  <2>4. CASE UNCHANGED vars
    BY <2>4 DEF vars, files, memory, PurgeInv, Deleting, Victim, MustGo, MayGo,
                Asked
  <2>5. CASE ReadBase \/ KeepMsg \/ MarkFree \/ WriteBase \/ WriteSqi \/ Truncate
             \/ NextDay \/ Reconfigure
    BY <2>5 DEF ReadBase, KeepMsg, MarkFree, WriteBase, WriteSqi, Truncate,
                NextDay, Reconfigure, Deleting
  <2> QED
    BY <2>1, <2>2, <2>3, <2>4, <2>5 DEF Next, Run
<1> QED
  BY <1>1, <1>2, <1>3 DEF PurgeInv

\* What goes with the last write of SquishDelMsg may go.
LEMMA VictimMayPurge ==
  ASSUME TypeOK, ListInv, PurgeInv, MarkFree
  PROVE  /\ Victim \in Frames /\ Victim \in LiveMsgs
         /\ P!MayPurge(Victim)
<1>1. /\ pc = "markFree" /\ MustGo(Victim) /\ lastread = 0
      /\ LiveMsgs = ToSet(chain)
  BY DEF MarkFree, PurgeInv, Deleting
<1>2. sqbase.num_msg = Len(chain)
  BY <1>1 DEF ListInv, IndexInv, CurrentBase
<1>3. PICK p \in 1 .. Len(chain) : chain[p] = Victim
  BY <1>1 DEF ListInv, VictimInv, Deleting
<1>4. Victim \in ToSet(chain) /\ Victim \in Frames /\ Len(chain) >= 1
  BY <1>3, ChainFacts DEF ToSet
<1>5. ~(lastread >= sqbase.num_msg)
  BY <1>1, <1>2, <1>4, ChainFacts
<1>6. /\ xmsg[Victim] \in [local : BOOLEAN, sent : BOOLEAN,
                           date_written : Nat, date_arrived : Nat]
      /\ area \in [keepUnread : BOOLEAN, killRead : BOOLEAN,
                   purge : Nat, max : Nat]
      /\ curtime \in Nat
  BY <1>4, PurgeAssumption DEF TypeOK
<1>7. ~P!Unsent(Victim)
  BY <1>1, <1>4 DEF MustGo, MayGo, Unsent, P!Unsent
<1>8. ~area.keepUnread
  BY <1>1, <1>5 DEF MustGo, MayGo
<1>9. Expired(xmsg[Victim], curtime, area) => P!TooOld(Victim)
  BY <1>4, <1>6 DEF Expired, P!TooOld
<1>10. TooMany(sqbase.num_msg, area) => P!TooMany
  <2>1. P!Cardinality(LiveMsgs) = Cardinality(LiveMsgs)
    BY DEF P!Cardinality, Cardinality
  <2>2. Cardinality(LiveMsgs) = sqbase.num_msg
    BY <1>1, <1>2, ListedFrames
  <2>3. sqbase.num_msg + 0 = sqbase.num_msg
    BY DEF TypeOK, SQBASE
  <2> QED
    BY <2>1, <2>2, <2>3 DEF TooMany, P!TooMany, LiveMsgs
<1> QED
  BY <1>1, <1>4, <1>5, <1>7, <1>8, <1>9, <1>10 DEF MustGo, Asked, P!MayPurge

LEMMA StepPurge ==
  ASSUME TypeOK, ListInv, PurgeInv, [Next]_vars, PurgeInv'
  PROVE  P!Next \/ UNCHANGED P!vars
<1>1. CASE MarkFree
  <2>1. Victim \in Frames /\ Victim \in LiveMsgs /\ P!MayPurge(Victim)
    BY <1>1, VictimMayPurge
  <2>2. LiveMsgs' = LiveMsgs \ {Victim}
    BY <1>1, MarkFreeChain DEF PurgeInv
  <2>3. UNCHANGED << xmsg, read, area, curtime >>
    BY <1>1 DEF MarkFree
  <2>4. \E f \in Frames : P!PurgeMessage(f)
    BY <2>1, <2>2, <2>3 DEF P!PurgeMessage, LiveMsgs
  <2> QED
    BY <2>4 DEF P!Next
<1>2. CASE ~MarkFree
  <2>1. LiveMsgs' = LiveMsgs /\ UNCHANGED << xmsg, read >>
    <3>1. chain' = chain /\ xmsg' = xmsg /\ read' = read
      BY <1>2 DEF Next, Run, ReadBase, KeepMsg, DelMsg, RelinkPrev, RelinkNext,
                  WriteBase, WriteSqi, Truncate, NextDay, Reconfigure, files,
                  history, vars
    <3> QED
      BY <3>1 DEF PurgeInv
  <2>2. CASE NextDay \/ Reconfigure
    <3>1. curtime' >= curtime /\ area' \in Areas
      BY <2>2, PurgeAssumption DEF NextDay, Reconfigure, TypeOK
    <3> QED
      BY <2>1, <3>1 DEF P!Next, P!Environment, LiveMsgs
  <2>3. CASE ~(NextDay \/ Reconfigure)
    <3>1. UNCHANGED << area, curtime >>
      BY <1>2, <2>3
         DEF Next, Run, ReadBase, KeepMsg, DelMsg, RelinkPrev, RelinkNext,
             WriteBase, WriteSqi, Truncate, vars
    <3> QED
      BY <2>1, <3>1 DEF P!vars, LiveMsgs
  <2> QED
    BY <2>2, <2>3
<1> QED
  BY <1>1, <1>2

LEMMA InitPurge == Init => P!Init
<1> SUFFICES ASSUME Init PROVE P!Init
  OBVIOUS
<1>1. TypeOK /\ LiveMsgs \subseteq Frames
  BY InitType, InitListInv, InitPurgeInv, ListedFrames DEF PurgeInv
<1>2. \A f \in Frames : xmsg[f] \in [local : BOOLEAN, sent : BOOLEAN,
                                     date_written : Nat, date_arrived : Nat]
  BY <1>1, PurgeAssumption DEF TypeOK
<1> QED
  BY <1>1, <1>2, PurgeAssumption DEF P!Init, TypeOK, LiveMsgs

\* Whatever the keywords, the days, the messages and the order of the index, a
\* run that is not cut short purges messages one at a time, and only those that
\* may go.
THEOREM PurgeImplemented == Spec => ImplementsPurge
<1> DEFINE Inv == TypeOK /\ ListInv /\ PurgeInv
<1>1. Init => Inv
  BY InitType, InitListInv, InitPurgeInv
<1>2. Inv /\ [Next]_vars => Inv'
  BY StepType, StepListInv, StepPurgeInv
<1>3. Inv /\ Inv' /\ [Next]_vars => [P!Next]_(P!vars)
  BY StepPurge
<1> QED
  <2> HIDE DEF Inv
  <2> QED
    BY <1>1, <1>2, <1>3, InitPurge, PTL DEF Spec, ImplementsPurge, P!Spec

-----------------------------------------------------------------------------
(* Without crashes, the keywords are enforced when the loop ends.          *)
(*                                                                         *)
(* The loop has come to entry i of the index in memory, which is entry     *)
(* i + Gone of the file: Gone entries are deleted.  What it has passed and *)
(* kept is protected, or no keyword asks for it any more.                  *)

Kept(f) ==
  \/ f \in damaged \/ Unsent(xmsg[f])
  \/ ~Expired(xmsg[f], curtime, area) /\ ~TooMany(sqbase.num_msg, area)

Gone == Len(sqi) - Len(sqidx)
Looping == Deleting \/ pc \in {"examine", "writeSqi"}

\* No message survives in front of a deleted one that was not too old.
FirstGoFirst(n) ==
  \A j, k \in 1 .. n :
    j < k /\ sqi[j].ofs \in Offsets(sqidx) /\ sqi[k].ofs \notin Offsets(sqidx)
    => \/ sqi[j].ofs \in damaged \/ Unsent(xmsg[sqi[j].ofs])
       \/ Expired(xmsg[sqi[k].ofs], curtime, area)

LoopInv ==
  /\ pc = "writeSqi" => i = Len(sqidx) + 1
  /\ Looping => /\ NoDuplicates(sqi)
                /\ \A k \in i .. Len(sqidx) : sqidx[k] = sqi[k + Gone]
                /\ ~area.keepUnread => \A k \in 1 .. i - 1 : Kept(sqidx[k].ofs)
                /\ FirstGoFirst(i - 1 + Gone)

LEMMA IndexFacts ==
  ASSUME TypeOK
  PROVE  /\ Len(sqi) \in Nat /\ Len(sqidx) \in Nat /\ Gone \in Int
         /\ i \in 1 .. Len(sqidx) + 1
         /\ pc # "idle" => Gone \in Nat
         /\ \A k \in 1 .. Len(sqidx) : sqidx[k].ofs \in Frames
         /\ area \in [keepUnread : BOOLEAN, killRead : BOOLEAN, purge : Nat, max : Nat]
         /\ sqbase.num_msg \in Nat
<1>1. Len(sqi) \in Nat /\ Len(sqidx) \in Nat /\ i \in 1 .. Len(sqidx) + 1
  BY LenProperties DEF TypeOK
<1>2. \A k \in 1 .. Len(sqidx) : sqidx[k] \in SQIDX
  BY ElementOfSeq DEF TypeOK
<1>3. pc # "idle" => Len(sqidx) <= Len(sqi)
  BY DEF TypeOK
<1>4. \A k \in 1 .. Len(sqidx) : sqidx[k].ofs \in Frames
  BY <1>2 DEF SQIDX
<1>5. area \in [keepUnread : BOOLEAN, killRead : BOOLEAN, purge : Nat, max : Nat]
  BY PurgeAssumption DEF TypeOK
<1>6. sqbase.num_msg \in Nat
  BY DEF TypeOK, SQBASE
<1> QED
  BY <1>1, <1>3, <1>4, <1>5, <1>6 DEF Gone

\* A victim goes for its age or for the keyword max: everything counts as unread.
LEMMA WhyItGoes ==
  ASSUME TypeOK, ListInv, PurgeInv, MarkFree
  PROVE  /\ ~area.keepUnread
         /\ \/ Expired(xmsg[Victim], curtime, area)
            \/ TooMany(sqbase.num_msg, area)
         /\ sqbase.num_msg >= 1
<1>1. pc = "markFree" /\ MustGo(Victim) /\ lastread = 0
  BY DEF MarkFree, PurgeInv, Deleting
<1>2. sqbase.num_msg = Len(chain) /\ Len(chain) \in Nat
  BY <1>1, ChainFacts DEF ListInv, IndexInv, CurrentBase
<1>3. PICK p \in 1 .. Len(chain) : chain[p] = Victim
  BY <1>1 DEF ListInv, VictimInv, Deleting
<1>4. ~(lastread >= sqbase.num_msg) /\ sqbase.num_msg >= 1
  BY <1>1, <1>2, <1>3
<1> QED
  BY <1>1, <1>4 DEF MustGo, MayGo, Asked

\* Entries in front of place i of the file's index that are still there are the
\* first i - 1 entries of the index in memory.
LEMMA PassedEntry ==
  ASSUME TypeOK, LoopInv, Looping, NEW j \in 1 .. i - 1 + Gone,
         sqi[j].ofs \in Offsets(sqidx)
  PROVE  \E k \in 1 .. i - 1 : sqidx[k].ofs = sqi[j].ofs
<1>1. PICK k \in 1 .. Len(sqidx) : sqidx[k].ofs = sqi[j].ofs
  BY DEF Offsets
<1>2. /\ Len(sqi) \in Nat /\ Len(sqidx) \in Nat /\ Gone \in Nat
      /\ i \in 1 .. Len(sqidx) + 1
  BY IndexFacts DEF Looping, Deleting
<1>3. CASE k \in i .. Len(sqidx)
  <2>1. sqidx[k] = sqi[k + Gone]
    BY <1>3 DEF LoopInv
  <2>2. k + Gone \in 1 .. Len(sqi) /\ j \in 1 .. Len(sqi) /\ k + Gone # j
    BY <1>2, <1>3 DEF Gone
  <2>3. NoDuplicates(sqi)
    BY DEF LoopInv
  <2> QED
    BY <1>1, <2>1, <2>2, <2>3 DEF NoDuplicates
<1>4. CASE k \in 1 .. i - 1
  BY <1>1, <1>4
<1> QED
  BY <1>2, <1>3, <1>4

\* The last write of SquishDelMsg: the next entry moves to place i.
LEMMA MarkFreeLoopInv ==
  ASSUME TypeOK, ListInv, PurgeInv, LoopInv, MarkFree, ListInv'
  PROVE  LoopInv'
<1>1. /\ pc = "markFree" /\ pc' = "examine" /\ i' = i
      /\ sqidx' = RemoveAt(sqidx, i)
      /\ sqbase' = [sqbase EXCEPT !.num_msg = Dec(@), !.high_msg = Dec(@)]
      /\ UNCHANGED << sqi, xmsg, damaged, curtime, area >>
  BY DEF MarkFree, Closed, AfterDel
<1>2. /\ Len(sqi) \in Nat /\ Len(sqidx) \in Nat /\ Gone \in Nat
      /\ i \in 1 .. Len(sqidx)
  BY <1>1, IndexFacts DEF TypeOK
<1>3. /\ Len(sqidx') = Len(sqidx) - 1
      /\ \A j \in 1 .. Len(sqidx) - 1 :
           sqidx'[j] = IF j < i THEN sqidx[j] ELSE sqidx[j + 1]
  BY <1>1, <1>2, RemoveAtProperties DEF TypeOK
<1>4. Gone' = Gone + 1
  BY <1>1, <1>2, <1>3 DEF Gone
<1>5. /\ NoDuplicates(sqi)
      /\ \A k \in i .. Len(sqidx) : sqidx[k] = sqi[k + Gone]
      /\ ~area.keepUnread => \A k \in 1 .. i - 1 : Kept(sqidx[k].ofs)
      /\ FirstGoFirst(i - 1 + Gone)
  BY <1>1 DEF LoopInv, Looping, Deleting
<1>6. Victim = sqi[i + Gone].ofs /\ i + Gone \in 1 .. Len(sqi)
  BY <1>2, <1>5 DEF Victim, Gone
<1>7. Offsets(sqidx') = Offsets(sqidx) \ {Victim}
  <2>1. Offsets(sqidx) = ToSet(chain) /\ Offsets(sqidx') = ToSet(chain')
    BY <1>1 DEF ListInv, IndexInv, CurrentSqi
  <2> QED
    BY <2>1, MarkFreeChain
<1>8. sqbase'.num_msg \in Nat /\ sqbase'.num_msg <= sqbase.num_msg
  <2>1. sqbase.num_msg \in Nat /\ sqbase.num_msg >= 1
    BY IndexFacts, WhyItGoes
  <2>2. sqbase'.num_msg = Dec(sqbase.num_msg)
    BY <1>1 DEF TypeOK, SQBASE
  <2> QED
    BY <2>1, <2>2 DEF Dec
<1>9. \A k \in i' .. Len(sqidx') : sqidx'[k] = sqi'[k + Gone']
  <2> SUFFICES ASSUME NEW k \in i .. Len(sqidx) - 1
               PROVE  sqidx'[k] = sqi[k + (Gone + 1)]
    BY <1>1, <1>3, <1>4
  <2>1. sqidx'[k] = sqidx[k + 1] /\ k + 1 \in i .. Len(sqidx)
    BY <1>2, <1>3
  <2>2. sqidx[k + 1] = sqi[(k + 1) + Gone] /\ (k + 1) + Gone = k + (Gone + 1)
    BY <2>1, <1>2, <1>5
  <2> QED
    BY <2>1, <2>2
<1>10. ASSUME ~area.keepUnread, NEW k \in 1 .. i - 1 PROVE Kept(sqidx[k].ofs)'
  <2>1. sqidx'[k] = sqidx[k]
    BY <1>2, <1>3
  <2> DEFINE f == sqidx[k].ofs
  <2>2. Kept(f)
    BY <1>5, <1>10
  <2>3. ~TooMany(sqbase.num_msg, area) => ~TooMany(sqbase'.num_msg, area')
    BY <1>1, <1>8, IndexFacts DEF TooMany
  <2>4. \/ f \in damaged' \/ Unsent(xmsg'[f])
        \/ ~Expired(xmsg'[f], curtime', area') /\ ~TooMany(sqbase'.num_msg, area')
    <3> HIDE DEF f
    <3> QED
      BY <1>1, <2>2, <2>3 DEF Kept
  <2> QED
    BY <2>1, <2>4 DEF Kept
<1>11. FirstGoFirst(i - 1 + Gone)'
  <2> SUFFICES ASSUME NEW j \in 1 .. i + Gone, NEW k \in 1 .. i + Gone, j < k,
                      sqi[j].ofs \in Offsets(sqidx), sqi[j].ofs # Victim,
                      sqi[k].ofs \notin Offsets(sqidx) \/ sqi[k].ofs = Victim
               PROVE  \/ sqi[j].ofs \in damaged \/ Unsent(xmsg[sqi[j].ofs])
                      \/ Expired(xmsg[sqi[k].ofs], curtime, area)
    <3>1. (i - 1 + Gone)' = i + Gone
      BY <1>1, <1>2, <1>4
    <3> QED
      BY <1>1, <1>7, <3>1 DEF FirstGoFirst
  <2>1. j \in 1 .. i - 1 + Gone
    BY <1>2
  <2>2. CASE k = i + Gone
    <3>1. PICK l \in 1 .. i - 1 : sqidx[l].ofs = sqi[j].ofs
      BY <1>1, <2>1, PassedEntry DEF Looping, Deleting
    <3>2. Kept(sqi[j].ofs)
      BY <1>5, <3>1, WhyItGoes
    <3> QED
      BY <1>6, <2>2, <3>2, WhyItGoes DEF Kept
  <2>3. CASE k # i + Gone
    <3>1. k \in 1 .. i - 1 + Gone /\ k \in 1 .. Len(sqi)
      BY <1>2, <1>6, <2>3
    <3>2. sqi[k].ofs # Victim
      BY <1>5, <1>6, <2>3, <3>1 DEF NoDuplicates
    <3> QED
      BY <1>5, <2>1, <3>1, <3>2 DEF FirstGoFirst
  <2> QED
    BY <2>2, <2>3
<1> QED
  BY <1>1, <1>5, <1>9, <1>10, <1>11 DEF LoopInv

LEMMA StepLoopInv ==
  ASSUME TypeOK, ListInv, PurgeInv, LoopInv, [Next]_vars, ListInv'
  PROVE  LoopInv'
<1>1. CASE ReadBase
  <2>1. /\ pc' = "examine" /\ sqidx' = sqi /\ sqi' = sqi /\ i' = 1
        /\ pc = "idle"
    BY <1>1 DEF ReadBase, files
  <2>2. NoDuplicates(sqi) /\ Len(sqi) \in Nat
    BY <2>1, IndexFacts DEF ListInv, IndexInv, CurrentSqi
  <2>3. Gone' = 0
    BY <2>1, <2>2 DEF Gone
  <2>4. \A k \in i' .. Len(sqidx') : sqidx'[k] = sqi'[k + Gone']
    BY <2>1, <2>2, <2>3
  <2>5. 1 .. i' - 1 = {} /\ 1 .. (i' - 1 + Gone') = {}
    BY <2>1, <2>3
  <2> QED
    BY <2>1, <2>2, <2>4, <2>5 DEF LoopInv, FirstGoFirst
<1>2. CASE KeepMsg
  <2>1. /\ pc = "examine" /\ pc' = "examine" /\ i <= Len(sqidx) /\ i' = i + 1
        /\ UNCHANGED << sqi, sqidx, sqbase, xmsg, damaged, curtime, area >>
        /\ ~MustGo(sqidx[i].ofs)
    BY <1>2 DEF KeepMsg, files
  <2>2. /\ Len(sqi) \in Nat /\ Len(sqidx) \in Nat /\ Gone \in Nat
        /\ i \in 1 .. Len(sqidx) /\ Gone' = Gone
    BY <2>1, IndexFacts DEF Gone
  <2>3. /\ NoDuplicates(sqi)
        /\ \A k \in i .. Len(sqidx) : sqidx[k] = sqi[k + Gone]
        /\ ~area.keepUnread => \A k \in 1 .. i - 1 : Kept(sqidx[k].ofs)
        /\ FirstGoFirst(i - 1 + Gone)
    BY <2>1 DEF LoopInv, Looping
  <2>4. ASSUME ~area.keepUnread, NEW k \in 1 .. i PROVE Kept(sqidx[k].ofs)'
    <3>1. Kept(sqidx[k].ofs)
      <4>1. CASE k = i
        BY <4>1, <2>1, <2>4 DEF MustGo, MayGo, Asked, Kept
      <4>2. CASE k \in 1 .. i - 1
        BY <4>2, <2>3, <2>4
      <4> QED
        BY <2>2, <4>1, <4>2
    <3> QED
      BY <2>1, <3>1 DEF Kept
  <2>5. sqi[i + Gone].ofs \in Offsets(sqidx)
    BY <2>2, <2>3 DEF Offsets
  <2>6. FirstGoFirst(i + Gone)
    <3> SUFFICES ASSUME NEW j \in 1 .. i + Gone, NEW k \in 1 .. i + Gone, j < k,
                        sqi[j].ofs \in Offsets(sqidx), sqi[k].ofs \notin Offsets(sqidx)
                 PROVE  \/ sqi[j].ofs \in damaged \/ Unsent(xmsg[sqi[j].ofs])
                        \/ Expired(xmsg[sqi[k].ofs], curtime, area)
      BY DEF FirstGoFirst
    <3>1. k # i + Gone
      BY <2>5
    <3>2. j \in 1 .. i - 1 + Gone /\ k \in 1 .. i - 1 + Gone
      BY <2>2, <3>1
    <3> QED
      BY <2>3, <3>2 DEF FirstGoFirst
  <2>7. (i - 1 + Gone)' = i + Gone
    BY <2>1, <2>2
  <2>8. FirstGoFirst(i - 1 + Gone)'
    BY <2>1, <2>6, <2>7 DEF FirstGoFirst
  <2>9. \A k \in i' .. Len(sqidx') : sqidx'[k] = sqi'[k + Gone']
    <3>1. \A k \in i + 1 .. Len(sqidx) : k \in i .. Len(sqidx)
      BY <2>2
    <3> QED
      BY <2>1, <2>2, <2>3, <3>1
  <2>10. i' - 1 = i
    BY <2>1, <2>2
  <2> QED
    BY <2>1, <2>3, <2>4, <2>8, <2>9, <2>10 DEF LoopInv
<1>3. CASE DelMsg \/ RelinkPrev \/ RelinkNext
  <2>1. /\ Looping /\ pc' # "writeSqi"
        /\ UNCHANGED << sqi, sqidx, i, xmsg, damaged, curtime, area >>
    BY <1>3 DEF DelMsg, RelinkPrev, RelinkNext, Looping, Deleting, files
  <2>2. sqbase'.num_msg = sqbase.num_msg
    BY <1>3 DEF DelMsg, RelinkPrev, RelinkNext, TypeOK, SQBASE
  <2>3. \A k \in 1 .. i - 1 : Kept(sqidx[k].ofs) => Kept(sqidx[k].ofs)'
    BY <2>1, <2>2 DEF Kept
  <2>4. ~area.keepUnread => \A k \in 1 .. i - 1 : Kept(sqidx[k].ofs)'
    BY <2>1, <2>3 DEF LoopInv
  <2>5. Gone' = Gone
    BY <2>1 DEF Gone
  <2> QED
    BY <2>1, <2>4, <2>5 DEF LoopInv, FirstGoFirst
<1>4. CASE MarkFree
  BY <1>4, MarkFreeLoopInv
<1>5. CASE WriteBase
  <2>1. /\ Looping /\ i > Len(sqidx)
        /\ UNCHANGED << sqi, sqidx, sqbase, i, xmsg, damaged, curtime, area >>
    BY <1>5 DEF WriteBase, Looping, memory
  <2>2. i = Len(sqidx) + 1
    BY <2>1, IndexFacts
  <2>3. \A k \in 1 .. i - 1 : Kept(sqidx[k].ofs) => Kept(sqidx[k].ofs)'
    BY <2>1 DEF Kept
  <2>4. Gone' = Gone
    BY <2>1 DEF Gone
  <2> QED
    BY <2>1, <2>2, <2>3, <2>4 DEF LoopInv, FirstGoFirst
<1>6. CASE WriteSqi \/ Truncate \/ NextDay \/ Reconfigure
  <2>1. pc' \in {"truncate", "idle"}
    BY <1>6 DEF WriteSqi, Truncate, NextDay, Reconfigure
  <2> QED
    BY <2>1 DEF LoopInv, Looping, Deleting
<1>7. CASE UNCHANGED vars
  <2>1. UNCHANGED << pc, sqi, sqidx, sqbase, i, xmsg, damaged, curtime, area >>
    BY <1>7 DEF vars, files, memory
  <2>2. \A k \in 1 .. i - 1 : Kept(sqidx[k].ofs) => Kept(sqidx[k].ofs)'
    BY <2>1 DEF Kept
  <2>3. Gone' = Gone /\ Looping' = Looping
    BY <2>1 DEF Gone, Looping, Deleting
  <2> QED
    BY <2>1, <2>2, <2>3 DEF LoopInv, FirstGoFirst
<1> QED
  BY <1>1, <1>2, <1>3, <1>4, <1>5, <1>6, <1>7 DEF Next, Run

\* What holds when the loop has ended and SQBASE is written.
LEMMA EndOfLoop ==
  ASSUME TypeOK, LoopInv
  PROVE  Enforced
<1>1. pc = "writeSqi" => /\ i - 1 = Len(sqidx) /\ i - 1 + Gone = Len(sqi)
                         /\ FirstGoFirst(Len(sqi))
  <2> SUFFICES ASSUME pc = "writeSqi" PROVE i - 1 = Len(sqidx) /\ i - 1 + Gone = Len(sqi)
    BY DEF LoopInv, Looping
  <2> QED
    BY IndexFacts DEF LoopInv, Gone
<1>2. ASSUME NEW f \in Frames
      PROVE  /\ P!Unsent(f) <=> Unsent(xmsg[f])
             /\ P!TooOld(f) <=> Expired(xmsg[f], curtime, area)
  <2>1. /\ xmsg[f] \in [local : BOOLEAN, sent : BOOLEAN,
                        date_written : Nat, date_arrived : Nat]
        /\ area \in [keepUnread : BOOLEAN, killRead : BOOLEAN,
                     purge : Nat, max : Nat]
        /\ curtime \in Nat
    BY PurgeAssumption DEF TypeOK
  <2> QED
    BY <2>1 DEF Unsent, P!Unsent, Expired, P!TooOld
<1>3. ASSUME pc = "writeSqi", ~area.keepUnread, NEW k \in 1 .. Len(sqidx)
      PROVE  sqidx[k].ofs \in Frames /\ Kept(sqidx[k].ofs)
  BY <1>1, <1>3, IndexFacts DEF LoopInv, Looping
<1>4. MaxEnforced
  <2> SUFFICES ASSUME pc = "writeSqi", area.max # 0, ~area.keepUnread,
                      NEW k \in 1 .. Len(sqidx), sqidx[k].ofs \notin damaged,
                      ~P!Unsent(sqidx[k].ofs)
               PROVE  sqbase.num_msg <= area.max
    BY DEF MaxEnforced
  <2>1. ~TooMany(sqbase.num_msg, area)
    BY <1>2, <1>3 DEF Kept
  <2> QED
    BY <2>1, IndexFacts DEF TooMany
<1>5. OldPurged
  BY <1>2, <1>3 DEF OldPurged, Kept
<1>6. OldestFirst
  <2> SUFFICES ASSUME pc = "writeSqi", NEW j \in 1 .. Len(sqi), NEW k \in 1 .. Len(sqi),
                      j < k, sqi[j].ofs \in Offsets(sqidx), sqi[k].ofs \notin Offsets(sqidx)
               PROVE  \/ sqi[j].ofs \in damaged \/ P!Unsent(sqi[j].ofs)
                      \/ P!TooOld(sqi[k].ofs)
    BY DEF OldestFirst
  <2>1. \A l \in 1 .. Len(sqi) : sqi[l] \in SQIDX
    BY ElementOfSeq DEF TypeOK
  <2>2. sqi[j].ofs \in Frames /\ sqi[k].ofs \in Frames
    BY <2>1 DEF SQIDX
  <2> QED
    BY <1>1, <1>2, <2>2 DEF FirstGoFirst
<1> QED
  BY <1>4, <1>5, <1>6 DEF Enforced

\* In every area, whatever the order of its index: when the loop ends, nothing that
\* a keyword asks for is left but what is damaged or unsent, and max has taken
\* messages from the front of the index.
THEOREM KeywordsEnforced == Spec => []Enforced
<1> DEFINE Inv == TypeOK /\ ListInv /\ PurgeInv /\ LoopInv
<1>1. Init => Inv
  <2>1. Init => LoopInv
    BY DEF Init, LoopInv, Looping, Deleting
  <2> QED
    BY <2>1, InitType, InitListInv, InitPurgeInv
<1>2. Inv /\ [Next]_vars => Inv'
  BY StepType, StepListInv, StepPurgeInv, StepLoopInv
<1>3. Inv => Enforced
  BY EndOfLoop
<1> QED
  <2> HIDE DEF Inv
  <2> QED
    BY <1>1, <1>2, <1>3, PTL DEF Spec

-----------------------------------------------------------------------------
(* With crashes: links by frame instead of by place. *)

\* The links of the frame f of the list c.
NextIn(c, f) == After(c, PlaceOf(c, f))
PrevIn(c, f) == Before(c, PlaceOf(c, f))

\* A list of frames by its members.
LEMMA ListMembers ==
  ASSUME NEW c \in Seq(Frames), Distinct(c)
  PROVE  /\ Len(c) \in Nat
         /\ \A k \in 1 .. Len(c) : c[k] \in ToSet(c) /\ PlaceOf(c, c[k]) = k
         /\ \A f \in ToSet(c) : PlaceOf(c, f) \in 1 .. Len(c) /\ c[PlaceOf(c, f)] = f
         /\ ToSet(c) \subseteq Frames /\ NULL_FRAME \notin ToSet(c)
<1>1. /\ Len(c) \in Nat /\ DOMAIN c = 1 .. Len(c)
      /\ \A k \in 1 .. Len(c) : c[k] \in Frames /\ c[k] # NULL_FRAME
  BY LenProperties, ElementOfSeq, FramesAssumption DEF NULL_FRAME
<1>2. \A f : f \in ToSet(c) <=> \E k \in 1 .. Len(c) : c[k] = f
  BY <1>1 DEF ToSet
<1>3. \A f \in ToSet(c) : PlaceOf(c, f) \in 1 .. Len(c) /\ c[PlaceOf(c, f)] = f
  BY <1>2 DEF PlaceOf
<1>4. \A k \in 1 .. Len(c) : c[k] \in ToSet(c) /\ PlaceOf(c, c[k]) = k
  BY <1>2, <1>3 DEF Distinct
<1> QED
  BY <1>1, <1>2, <1>3, <1>4

\* The list is linked if each frame has its links.
LEMMA LinkedMembers ==
  ASSUME NEW c \in Seq(Frames), Distinct(c), NEW h \in [Frames -> SQHDR]
  PROVE  Linked(h, c, "normal") <=>
           \A f \in ToSet(c) : /\ h[f].next_frame = NextIn(c, f)
                               /\ h[f].prev_frame = PrevIn(c, f)
                               /\ h[f].frame_type = "normal"
<1>1. /\ \A k \in 1 .. Len(c) : c[k] \in ToSet(c) /\ PlaceOf(c, c[k]) = k
      /\ \A f \in ToSet(c) : PlaceOf(c, f) \in 1 .. Len(c) /\ c[PlaceOf(c, f)] = f
      /\ ToSet(c) \subseteq Frames
  BY ListMembers
<1>2. \A f \in ToSet(c) : h[f] \in SQHDR
  BY <1>1
<1>3. ASSUME NEW f \in ToSet(c), NEW k \in 1 .. Len(c), k = PlaceOf(c, f)
      PROVE  h[f] = LinkAt(c, k, "normal") <=>
               /\ h[f].next_frame = NextIn(c, f)
               /\ h[f].prev_frame = PrevIn(c, f)
               /\ h[f].frame_type = "normal"
  <2>1. h[f] = [next_frame |-> h[f].next_frame, prev_frame |-> h[f].prev_frame,
                frame_type |-> h[f].frame_type]
    BY <1>2 DEF SQHDR
  <2> QED
    BY <2>1, <1>3 DEF LinkAt, NextIn, PrevIn
<1>4. ASSUME Linked(h, c, "normal"), NEW f \in ToSet(c)
      PROVE  /\ h[f].next_frame = NextIn(c, f)
             /\ h[f].prev_frame = PrevIn(c, f)
             /\ h[f].frame_type = "normal"
  <2>1. h[c[PlaceOf(c, f)]] = LinkAt(c, PlaceOf(c, f), "normal")
    BY <1>1, <1>4 DEF Linked
  <2> QED
    BY <2>1, <1>1, <1>3
<1>5. ASSUME \A f \in ToSet(c) : /\ h[f].next_frame = NextIn(c, f)
                                 /\ h[f].prev_frame = PrevIn(c, f)
                                 /\ h[f].frame_type = "normal",
             NEW k \in 1 .. Len(c)
      PROVE  h[c[k]] = LinkAt(c, k, "normal")
  BY <1>1, <1>3, <1>5
<1> QED
  BY <1>4, <1>5 DEF Linked

\* Neighbours know each other.
LEMMA NeighboursIn ==
  ASSUME NEW c \in Seq(Frames), Distinct(c), NEW v \in ToSet(c), NEW f \in ToSet(c)
  PROVE  /\ NextIn(c, f) = v <=> PrevIn(c, v) = f
         /\ NextIn(c, f) \in ToSet(c) \cup {NULL_FRAME}
         /\ PrevIn(c, f) \in ToSet(c) \cup {NULL_FRAME}
         /\ NextIn(c, f) # f /\ PrevIn(c, f) # f
<1> DEFINE k == PlaceOf(c, f)
           p == PlaceOf(c, v)
<1>1. /\ Len(c) \in Nat /\ k \in 1 .. Len(c) /\ c[k] = f /\ p \in 1 .. Len(c) /\ c[p] = v
      /\ \A j \in 1 .. Len(c) : c[j] \in ToSet(c)
      /\ f # NULL_FRAME
  BY ListMembers
<1> HIDE DEF k, p
<1>2. /\ After(c, k) = c[p] <=> k + 1 = p
      /\ Before(c, p) = c[k] <=> p = k + 1
      /\ After(c, k) = c[k] <=> k + 1 = k
      /\ Before(c, k) = c[k] <=> k = k + 1
  BY <1>1, Neighbours
<1>3. /\ NextIn(c, f) = After(c, k) /\ PrevIn(c, f) = Before(c, k)
      /\ PrevIn(c, v) = Before(c, p)
  BY DEF NextIn, PrevIn, k, p
<1>4. After(c, k) \in ToSet(c) \cup {NULL_FRAME}
  BY <1>1 DEF After
<1>5. Before(c, k) \in ToSet(c) \cup {NULL_FRAME}
  BY <1>1 DEF Before
<1> QED
  BY <1>1, <1>2, <1>3, <1>4, <1>5

\* A list without one of its frames.
LEMMA UnlinkedList ==
  ASSUME NEW c \in Seq(Frames), Distinct(c), NEW v \in ToSet(c)
  PROVE  LET d == Unlinked(c, v)
         IN  /\ d \in Seq(Frames) /\ Distinct(d) /\ ToSet(d) = ToSet(c) \ {v}
             /\ Len(c) \in Nat \ {0} /\ Len(d) = Len(c) - 1
             /\ FirstOf(d) = IF PrevIn(c, v) = NULL_FRAME THEN NextIn(c, v) ELSE FirstOf(c)
             /\ LastOf(d) = IF NextIn(c, v) = NULL_FRAME THEN PrevIn(c, v) ELSE LastOf(c)
             /\ \A f \in ToSet(d) :
                  /\ NextIn(d, f) = IF NextIn(c, f) = v THEN NextIn(c, v) ELSE NextIn(c, f)
                  /\ PrevIn(d, f) = IF PrevIn(c, f) = v THEN PrevIn(c, v) ELSE PrevIn(c, f)
<1> DEFINE p == PlaceOf(c, v)
           d == RemoveAt(c, p)
<1>1. p \in 1 .. Len(c) /\ c[p] = v /\ Len(c) \in Nat
  BY ListMembers
<1>2. Unlinked(c, v) = d
  BY DEF Unlinked
<1>3. /\ d \in Seq(Frames) /\ Len(d) = Len(c) - 1 /\ Distinct(d)
      /\ ToSet(d) = ToSet(c) \ {v}
      /\ FirstOf(d) = IF PrevIn(c, v) = NULL_FRAME THEN NextIn(c, v) ELSE FirstOf(c)
      /\ LastOf(d) = IF NextIn(c, v) = NULL_FRAME THEN PrevIn(c, v) ELSE LastOf(c)
  BY <1>1, RemovedFrame DEF NextIn, PrevIn
<1> DEFINE h == [f \in Frames |->
                   [next_frame |-> IF NextIn(c, f) = v THEN NextIn(c, v) ELSE NextIn(c, f),
                    prev_frame |-> IF PrevIn(c, f) = v THEN PrevIn(c, v) ELSE PrevIn(c, f),
                    frame_type |-> "normal"]]
<1>4. \A k \in 1 .. Len(c) :
        h[c[k]] = [next_frame |-> IF After(c, k) = c[p] THEN After(c, p) ELSE After(c, k),
                   prev_frame |-> IF Before(c, k) = c[p] THEN Before(c, p) ELSE Before(c, k),
                   frame_type |-> "normal"]
  <2> TAKE k \in 1 .. Len(c)
  <2>1. c[k] \in Frames /\ PlaceOf(c, c[k]) = k
    BY ListMembers
  <2>2. /\ NextIn(c, c[k]) = After(c, k) /\ PrevIn(c, c[k]) = Before(c, k)
        /\ NextIn(c, v) = After(c, p) /\ PrevIn(c, v) = Before(c, p)
    BY <2>1 DEF NextIn, PrevIn
  <2> HIDE DEF p
  <2> QED
    BY <2>1, <2>2, <1>1
<1> HIDE DEF h, p
<1>5. Linked(h, d, "normal")
  BY <1>1, <1>4, UnlinkedFrame
<1> HIDE DEF d
<1>6. ASSUME NEW f \in ToSet(d)
      PROVE  /\ NextIn(d, f) = IF NextIn(c, f) = v THEN NextIn(c, v) ELSE NextIn(c, f)
             /\ PrevIn(d, f) = IF PrevIn(c, f) = v THEN PrevIn(c, v) ELSE PrevIn(c, f)
  <2>1. PlaceOf(d, f) \in 1 .. Len(d) /\ d[PlaceOf(d, f)] = f /\ f \in Frames
    BY <1>3, ListMembers
  <2>2. h[f] = LinkAt(d, PlaceOf(d, f), "normal")
    BY <2>1, <1>5 DEF Linked
  <2>3. h[f].next_frame = NextIn(d, f) /\ h[f].prev_frame = PrevIn(d, f)
    BY <2>2 DEF LinkAt, NextIn, PrevIn
  <2> QED
    BY <2>1, <2>3 DEF h
<1> QED
  BY <1>1, <1>2, <1>3, <1>6

-----------------------------------------------------------------------------
(* With crashes: the course of the run that the crashes cut short. *)

\* MustGo when nobody has read anything and n messages are left.
MustGoIn(f, n) ==
  /\ f \notin damaged /\ ~Unsent(xmsg[f])
  /\ area.keepUnread => 0 >= n
  /\ \/ area.killRead /\ 0 >= n
     \/ Expired(xmsg[f], curtime, area)
     \/ TooMany(n, area)

\* The loop between two messages: index and counter in memory, and the list.
Moments == [idx : Seq(SQIDX), i : Nat \ {0}, c : Seq(Frames)]

Good(m) ==
  /\ m \in Moments /\ m.i <= Len(m.idx) + 1
  /\ Distinct(m.c) /\ NoDuplicates(m.idx) /\ Offsets(m.idx) = ToSet(m.c)

Named(m) == m.idx[m.i].ofs
Goes(m) == MustGoIn(Named(m), Len(m.c))

NextMoment(m) ==
  IF Goes(m)
  THEN [idx |-> RemoveAt(m.idx, m.i), i |-> m.i, c |-> Unlinked(m.c, Named(m))]
  ELSE [idx |-> m.idx, i |-> m.i + 1, c |-> m.c]

\* The first K messages that the loop looks at.
IsCourse(run, K) ==
  /\ \A t \in 0 .. K : Good(run[t])
  /\ \A t \in 0 .. K - 1 : /\ run[t].i <= Len(run[t].idx)
                           /\ run[t + 1] = NextMoment(run[t])
  /\ \A s, t \in 0 .. K : s <= t => ToSet(run[t].c) \subseteq ToSet(run[s].c)

\* The next moment, and what a deletion does to the list.
LEMMA NextMomentGood ==
  ASSUME NEW m, Good(m), m.i <= Len(m.idx)
  PROVE  /\ Good(NextMoment(m))
         /\ Named(m) \in ToSet(m.c)
         /\ ToSet(NextMoment(m).c) =
              IF Goes(m) THEN ToSet(m.c) \ {Named(m)} ELSE ToSet(m.c)
<1>1. /\ m.idx \in Seq(SQIDX) /\ m.i \in Nat \ {0} /\ m.c \in Seq(Frames)
      /\ Distinct(m.c) /\ NoDuplicates(m.idx) /\ Offsets(m.idx) = ToSet(m.c)
  BY DEF Good, Moments
<1>2. m.i \in 1 .. Len(m.idx) /\ Len(m.idx) \in Nat
  BY <1>1, LenProperties
<1>3. Named(m) \in ToSet(m.c)
  BY <1>1, <1>2 DEF Named, Offsets
<1>4. CASE Goes(m)
  <2> DEFINE idx == RemoveAt(m.idx, m.i)
             c == Unlinked(m.c, Named(m))
  <2>1. /\ idx \in Seq(SQIDX) /\ Len(idx) = Len(m.idx) - 1 /\ NoDuplicates(idx)
        /\ Offsets(idx) = Offsets(m.idx) \ {Named(m)}
    BY <1>1, <1>2, RemovedEntry DEF Named
  <2>2. c \in Seq(Frames) /\ Distinct(c) /\ ToSet(c) = ToSet(m.c) \ {Named(m)}
    BY <1>1, <1>3, UnlinkedList
  <2>3. NextMoment(m) = [idx |-> idx, i |-> m.i, c |-> c]
    BY <1>4 DEF NextMoment
  <2> HIDE DEF idx, c
  <2> DEFINE n == NextMoment(m)
  <2>4. n.idx = idx /\ n.i = m.i /\ n.c = c /\ n \in Moments
    BY <1>1, <2>1, <2>2, <2>3 DEF Moments
  <2> HIDE DEF n
  <2>5. n.i <= Len(n.idx) + 1
    BY <1>2, <2>1, <2>4
  <2>6. Offsets(n.idx) = ToSet(n.c)
    BY <1>1, <2>1, <2>2, <2>4
  <2>7. Good(n)
    BY <2>1, <2>2, <2>4, <2>5, <2>6 DEF Good
  <2> QED
    BY <1>3, <1>4, <2>2, <2>4, <2>7 DEF n
<1>5. CASE ~Goes(m)
  <2>1. NextMoment(m) = [idx |-> m.idx, i |-> m.i + 1, c |-> m.c]
    BY <1>5 DEF NextMoment
  <2> QED
    BY <1>1, <1>2, <1>3, <1>5, <2>1 DEF Good, Moments
<1> QED
  BY <1>4, <1>5

\* A course that is not at its end can be followed one message further.
LEMMA LongerCourse ==
  ASSUME NEW K \in Nat, NEW run, IsCourse(run, K), run[K].i <= Len(run[K].idx)
  PROVE  \E longer : IsCourse(longer, K + 1) /\ \A t \in 0 .. K : longer[t] = run[t]
<1> DEFINE longer == [t \in 0 .. K + 1 |-> IF t = K + 1 THEN NextMoment(run[K]) ELSE run[t]]
<1>1. longer[K + 1] = NextMoment(run[K]) /\ \A t \in 0 .. K : longer[t] = run[t]
  OBVIOUS
<1> HIDE DEF longer
<1>2. /\ Good(NextMoment(run[K]))
      /\ ToSet(NextMoment(run[K]).c) \subseteq ToSet(run[K].c)
  <2>1. Good(run[K])
    BY DEF IsCourse
  <2> QED
    BY <2>1, NextMomentGood
<1>3. ASSUME NEW t \in 0 .. K + 1 PROVE Good(longer[t])
  BY <1>1, <1>2, <1>3 DEF IsCourse
<1>4. ASSUME NEW t \in 0 .. K
      PROVE  /\ longer[t].i <= Len(longer[t].idx)
             /\ longer[t + 1] = NextMoment(longer[t])
  <2>1. CASE t = K
    BY <2>1, <1>1
  <2>2. CASE t # K
    <3>1. t \in 0 .. K - 1 /\ t + 1 \in 0 .. K
      BY <2>2
    <3> QED
      BY <3>1, <1>1 DEF IsCourse
  <2> QED
    BY <2>1, <2>2
<1>5. ASSUME NEW s \in 0 .. K + 1, NEW t \in 0 .. K + 1, s <= t
      PROVE  ToSet(longer[t].c) \subseteq ToSet(longer[s].c)
  <2>1. CASE t \in 0 .. K
    <3>1. s \in 0 .. K
      BY <2>1, <1>5
    <3> QED
      BY <2>1, <3>1, <1>1, <1>5 DEF IsCourse
  <2>2. CASE t = K + 1 /\ s \in 0 .. K
    <3>1. ToSet(run[K].c) \subseteq ToSet(run[s].c)
      <4>1. s <= K /\ K \in 0 .. K
        BY <2>2
      <4> QED
        BY <2>2, <4>1 DEF IsCourse
    <3> QED
      BY <2>2, <3>1, <1>1, <1>2
  <2>3. CASE t = K + 1 /\ s = K + 1
    BY <2>3
  <2> QED
    BY <2>1, <2>2, <2>3
<1>6. IsCourse(longer, K + 1)
  <2>1. (K + 1) - 1 = K
    OBVIOUS
  <2> QED
    BY <2>1, <1>3, <1>4, <1>5 DEF IsCourse
<1> QED
  BY <1>1, <1>6
\* The two links of a frame, in a list and in the headers.
LinkIn(dir, c, f) == IF dir = "next" THEN NextIn(c, f) ELSE PrevIn(c, f)
LinkOf(h, dir, f) == IF dir = "next" THEN h[f].next_frame ELSE h[f].prev_frame
Opposite(dir) == IF dir = "next" THEN "prev" ELSE "next"

\* The earliest moment from which a link may stem when the loop is at moment q:
\* a frame that is still in the list has the link of this moment or of a later
\* one, to which a run came that was cut short; done says that this run has
\* written the link that leads to the victim.
Earliest(m, q, dir, done, f) ==
  IF f \notin ToSet(m.c) THEN 0
  ELSE IF done /\ LinkIn(dir, m.c, f) = Named(m) THEN q + 1 ELSE q

\* Each link in the headers is the one of some moment.
LinksOn(dir, h, run, K, q, done) ==
  \A f \in ToSet(run[0].c) :
    \E t \in Earliest(run[q], q, dir, done, f) .. K :
       f \in ToSet(run[t].c) /\ LinkOf(h, dir, f) = LinkIn(dir, run[t].c, f)

\* The moments of a course, as the provers need them.
LEMMA CourseFacts ==
  ASSUME NEW K \in Nat, NEW run, IsCourse(run, K), NEW t \in 0 .. K
  PROVE  /\ run[t].c \in Seq(Frames) /\ Distinct(run[t].c)
         /\ ToSet(run[t].c) \subseteq ToSet(run[0].c)
         /\ ToSet(run[0].c) \subseteq Frames
<1>1. Good(run[t]) /\ Good(run[0])
  BY DEF IsCourse
<1>2. run[t].c \in Seq(Frames) /\ Distinct(run[t].c)
  BY <1>1 DEF Good, Moments
<1>3. run[0].c \in Seq(Frames) /\ Distinct(run[0].c)
  BY <1>1 DEF Good, Moments
<1>4. ToSet(run[0].c) \subseteq Frames
  BY <1>3, ListMembers
<1>5. 0 \in 0 .. K /\ 0 <= t
  OBVIOUS
<1>6. ToSet(run[t].c) \subseteq ToSet(run[0].c)
  BY <1>5 DEF IsCourse
<1> QED
  BY <1>2, <1>4, <1>6

\* d is the list c without v: each link that led to v leads behind it.
Without(c, v, d) ==
  /\ c \in Seq(Frames) /\ Distinct(c) /\ v \in ToSet(c) /\ ToSet(c) \subseteq Frames
  /\ d = Unlinked(c, v) /\ ToSet(d) = ToSet(c) \ {v}
  /\ \A dir \in {"next", "prev"} :
       /\ \A f \in ToSet(c) :
            /\ LinkIn(dir, c, f) = v <=> LinkIn(Opposite(dir), c, v) = f
            /\ LinkIn(dir, c, f) \in ToSet(c) \cup {NULL_FRAME}
            /\ LinkIn(dir, c, f) # f
       /\ \A f \in ToSet(d) :
            LinkIn(dir, d, f) = IF LinkIn(dir, c, f) = v THEN LinkIn(dir, c, v)
                                ELSE LinkIn(dir, c, f)

\* A message that goes, and the moment after.
LEMMA DeletionFacts ==
  ASSUME NEW K \in Nat, NEW run, IsCourse(run, K), NEW q \in 0 .. K - 1, Goes(run[q])
  PROVE  /\ Without(run[q].c, Named(run[q]), run[q + 1].c)
         /\ \A t \in q + 1 .. K : Named(run[q]) \notin ToSet(run[t].c)
         /\ q \in 0 .. K /\ q + 1 \in 0 .. K
<1> DEFINE c == run[q].c
           d == run[q + 1].c
           v == Named(run[q])
<1>1. /\ q \in 0 .. K /\ q + 1 \in 0 .. K
      /\ run[q].i <= Len(run[q].idx) /\ run[q + 1] = NextMoment(run[q])
      /\ Good(run[q])
  BY DEF IsCourse
<1>2. c \in Seq(Frames) /\ Distinct(c) /\ ToSet(c) \subseteq Frames
  BY <1>1, CourseFacts
<1>3. v \in ToSet(c)
  BY <1>1, NextMomentGood
<1>4. d = Unlinked(c, v)
  <2>1. run[q + 1] = [idx |-> RemoveAt(run[q].idx, run[q].i), i |-> run[q].i,
                      c |-> Unlinked(c, v)]
    BY <1>1 DEF NextMoment
  <2> QED
    BY <2>1
<1>5. /\ ToSet(d) = ToSet(c) \ {v}
      /\ \A f \in ToSet(d) :
           /\ NextIn(d, f) = IF NextIn(c, f) = v THEN NextIn(c, v) ELSE NextIn(c, f)
           /\ PrevIn(d, f) = IF PrevIn(c, f) = v THEN PrevIn(c, v) ELSE PrevIn(c, f)
  BY <1>2, <1>3, <1>4, UnlinkedList
<1>6. \A f \in ToSet(c) :
        /\ NextIn(c, f) = v <=> PrevIn(c, v) = f
        /\ PrevIn(c, f) = v <=> NextIn(c, v) = f
        /\ NextIn(c, f) \in ToSet(c) \cup {NULL_FRAME}
        /\ PrevIn(c, f) \in ToSet(c) \cup {NULL_FRAME}
        /\ NextIn(c, f) # f /\ PrevIn(c, f) # f
  BY <1>2, <1>3, NeighboursIn
<1>7. ASSUME NEW t \in q + 1 .. K PROVE v \notin ToSet(run[t].c)
  <2>1. t \in 0 .. K /\ q + 1 <= t
    OBVIOUS
  <2>2. ToSet(run[t].c) \subseteq ToSet(d)
    BY <1>1, <2>1 DEF IsCourse
  <2> QED
    BY <1>5, <2>2
<1>8. ASSUME NEW dir \in {"next", "prev"}
      PROVE  /\ \A f \in ToSet(c) :
                  /\ LinkIn(dir, c, f) = v <=> LinkIn(Opposite(dir), c, v) = f
                  /\ LinkIn(dir, c, f) \in ToSet(c) \cup {NULL_FRAME}
                  /\ LinkIn(dir, c, f) # f
             /\ \A f \in ToSet(d) :
                  LinkIn(dir, d, f) = IF LinkIn(dir, c, f) = v THEN LinkIn(dir, c, v)
                                      ELSE LinkIn(dir, c, f)
  <2>1. CASE dir = "next"
    BY <2>1, <1>5, <1>6 DEF LinkIn, Opposite
  <2>2. CASE dir = "prev"
    BY <2>2, <1>5, <1>6 DEF LinkIn, Opposite
  <2> QED
    BY <2>1, <2>2
<1> QED
  BY <1>1, <1>2, <1>3, <1>4, <1>5, <1>7, <1>8 DEF Without

\* At first: the links of a sound list.
LEMMA FirstLinks ==
  ASSUME NEW run, NEW h \in [Frames -> SQHDR], NEW dir \in {"next", "prev"},
         run[0].c \in Seq(Frames), Distinct(run[0].c), Linked(h, run[0].c, "normal")
  PROVE  LinksOn(dir, h, run, 0, 0, FALSE)
<1>1. \A f \in ToSet(run[0].c) : /\ h[f].next_frame = NextIn(run[0].c, f)
                                 /\ h[f].prev_frame = PrevIn(run[0].c, f)
  BY LinkedMembers
<1>2. \A f \in ToSet(run[0].c) : LinkOf(h, dir, f) = LinkIn(dir, run[0].c, f)
  BY <1>1 DEF LinkOf, LinkIn
<1>3. \A f \in ToSet(run[0].c) : Earliest(run[0], 0, dir, FALSE, f) = 0
  BY DEF Earliest
<1>4. 0 \in 0 .. 0
  OBVIOUS
<1> QED
  BY <1>2, <1>3, <1>4 DEF LinksOn

\* At last: the links of the list that is left.
LEMMA LastLinks ==
  ASSUME NEW K \in Nat, NEW run, IsCourse(run, K), NEW h, NEW dir,
         LinksOn(dir, h, run, K, K, FALSE), NEW f \in ToSet(run[K].c)
  PROVE  LinkOf(h, dir, f) = LinkIn(dir, run[K].c, f)
<1>1. f \in ToSet(run[0].c)
  BY CourseFacts
<1>2. Earliest(run[K], K, dir, FALSE, f) = K
  BY DEF Earliest
<1>3. PICK t \in K .. K : LinkOf(h, dir, f) = LinkIn(dir, run[t].c, f)
  BY <1>1, <1>2 DEF LinksOn
<1>4. t = K
  OBVIOUS
<1> QED
  BY <1>3, <1>4

\* What is written elsewhere does not matter.
LEMMA SameLinks ==
  ASSUME NEW K \in Nat, NEW run, IsCourse(run, K), NEW q, NEW h, NEW g, NEW dir,
         NEW done, LinksOn(dir, h, run, K, q, done),
         \A f \in Frames : LinkOf(g, dir, f) = LinkOf(h, dir, f)
  PROVE  LinksOn(dir, g, run, K, q, done)
<1>1. 0 \in 0 .. K
  OBVIOUS
<1>2. \A f \in ToSet(run[0].c) : LinkOf(g, dir, f) = LinkOf(h, dir, f)
  BY <1>1, CourseFacts
<1> QED
  BY <1>2 DEF LinksOn

\* A longer course does not matter.
LEMMA LongerLinks ==
  ASSUME NEW K \in Nat, NEW run, NEW longer, \A t \in 0 .. K : longer[t] = run[t],
         NEW h, NEW dir, NEW q \in 0 .. K, NEW done \in BOOLEAN,
         LinksOn(dir, h, run, K, q, done)
  PROVE  LinksOn(dir, h, longer, K + 1, q, done)
<1> SUFFICES ASSUME NEW f \in ToSet(longer[0].c)
             PROVE  \E t \in Earliest(longer[q], q, dir, done, f) .. K + 1 :
                       /\ f \in ToSet(longer[t].c)
                       /\ LinkOf(h, dir, f) = LinkIn(dir, longer[t].c, f)
  BY DEF LinksOn
<1>1. longer[0] = run[0] /\ longer[q] = run[q]
  OBVIOUS
<1> DEFINE low == Earliest(run[q], q, dir, done, f)
<1>2. low \in Nat
  BY DEF Earliest
<1>3. PICK t \in low .. K : /\ f \in ToSet(run[t].c)
                            /\ LinkOf(h, dir, f) = LinkIn(dir, run[t].c, f)
  BY <1>1 DEF LinksOn
<1> HIDE DEF low
<1>4. t \in low .. K + 1 /\ t \in 0 .. K
  BY <1>2
<1>5. longer[t] = run[t]
  BY <1>4
<1> QED
  BY <1>1, <1>3, <1>4, <1>5 DEF low

\* A run that starts over sees links that are not older than its start.
LEMMA RestartLinks ==
  ASSUME NEW K \in Nat, NEW run, NEW h, NEW dir, NEW q \in 0 .. K,
         NEW done \in BOOLEAN, LinksOn(dir, h, run, K, q, done)
  PROVE  LinksOn(dir, h, run, K, 0, FALSE)
<1> SUFFICES ASSUME NEW f \in ToSet(run[0].c)
             PROVE  \E t \in Earliest(run[0], 0, dir, FALSE, f) .. K :
                       /\ f \in ToSet(run[t].c)
                       /\ LinkOf(h, dir, f) = LinkIn(dir, run[t].c, f)
  BY DEF LinksOn
<1> DEFINE low == Earliest(run[q], q, dir, done, f)
<1>1. low \in Nat
  BY DEF Earliest
<1>2. PICK t \in low .. K : /\ f \in ToSet(run[t].c)
                            /\ LinkOf(h, dir, f) = LinkIn(dir, run[t].c, f)
  BY DEF LinksOn
<1> HIDE DEF low
<1>3. Earliest(run[0], 0, dir, FALSE, f) = 0
  BY DEF Earliest
<1>4. t \in 0 .. K
  BY <1>1
<1> QED
  BY <1>2, <1>3, <1>4

\* The loop passes a message that stays.
LEMMA PassedLinks ==
  ASSUME NEW K \in Nat, NEW run, IsCourse(run, K), NEW q \in 0 .. K - 1, ~Goes(run[q]),
         NEW h, NEW dir, LinksOn(dir, h, run, K, q, FALSE)
  PROVE  LinksOn(dir, h, run, K, q + 1, FALSE)
<1> SUFFICES ASSUME NEW f \in ToSet(run[0].c)
             PROVE  \E t \in Earliest(run[q + 1], q + 1, dir, FALSE, f) .. K :
                       /\ f \in ToSet(run[t].c)
                       /\ LinkOf(h, dir, f) = LinkIn(dir, run[t].c, f)
  BY DEF LinksOn
<1>1. run[q + 1].c = run[q].c
  <2>1. run[q + 1] = [idx |-> run[q].idx, i |-> run[q].i + 1, c |-> run[q].c]
    BY DEF IsCourse, NextMoment
  <2> QED
    BY <2>1
<1>2. PICK t \in Earliest(run[q], q, dir, FALSE, f) .. K :
        f \in ToSet(run[t].c) /\ LinkOf(h, dir, f) = LinkIn(dir, run[t].c, f)
  BY DEF LinksOn
<1>3. CASE f \in ToSet(run[q].c) /\ t = q
  <2>1. q + 1 \in Earliest(run[q + 1], q + 1, dir, FALSE, f) .. K
    BY <1>1, <1>3 DEF Earliest
  <2> QED
    BY <1>1, <1>2, <1>3, <2>1
<1>4. CASE f \notin ToSet(run[q].c) \/ t # q
  <2>1. t \in Earliest(run[q + 1], q + 1, dir, FALSE, f) .. K
    BY <1>1, <1>4 DEF Earliest
  <2> QED
    BY <1>2, <2>1
<1> QED
  BY <1>3, <1>4

\* The header that DelMsg reads has the links of this moment (purgearea.c:55).
LEMMA VictimLinks ==
  ASSUME NEW K \in Nat, NEW run, IsCourse(run, K), NEW q \in 0 .. K - 1, Goes(run[q]),
         NEW h, NEW dir, LinksOn(dir, h, run, K, q, FALSE)
  PROVE  LinkOf(h, dir, Named(run[q])) = LinkIn(dir, run[q].c, Named(run[q]))
<1> DEFINE v == Named(run[q])
<1>1. /\ v \in ToSet(run[q].c) /\ \A t \in q + 1 .. K : v \notin ToSet(run[t].c)
      /\ q \in 0 .. K
  BY DeletionFacts DEF Without
<1>2. v \in ToSet(run[0].c)
  BY <1>1, CourseFacts
<1>3. Earliest(run[q], q, dir, FALSE, v) = q
  BY <1>1 DEF Earliest
<1> HIDE DEF v
<1>4. PICK t \in q .. K :
        v \in ToSet(run[t].c) /\ LinkOf(h, dir, v) = LinkIn(dir, run[t].c, v)
  BY <1>2, <1>3 DEF LinksOn
<1>5. t = q
  BY <1>1, <1>4
<1> QED
  BY <1>4, <1>5 DEF v

\* The write of a neighbour's header: the link to the victim becomes the one of
\* the next moment (purgearea.c:66-100).
LEMMA RelinkedLinks ==
  ASSUME NEW K \in Nat, NEW run, IsCourse(run, K), NEW q \in 0 .. K - 1, Goes(run[q]),
         NEW h, NEW g, NEW dir \in {"next", "prev"}, LinksOn(dir, h, run, K, q, FALSE),
         NEW n, n = LinkIn(Opposite(dir), run[q].c, Named(run[q])),
         n # NULL_FRAME => LinkOf(g, dir, n) = LinkIn(dir, run[q].c, Named(run[q])),
         \A f \in Frames : f # n => LinkOf(g, dir, f) = LinkOf(h, dir, f)
  PROVE  LinksOn(dir, g, run, K, q, TRUE)
<1> SUFFICES ASSUME NEW f \in ToSet(run[0].c)
             PROVE  \E t \in Earliest(run[q], q, dir, TRUE, f) .. K :
                       /\ f \in ToSet(run[t].c)
                       /\ LinkOf(g, dir, f) = LinkIn(dir, run[t].c, f)
  BY DEF LinksOn
<1> DEFINE c == run[q].c
           d == run[q + 1].c
           v == Named(run[q])
<1>0. Without(c, v, d)
  BY DeletionFacts
<1> HIDE DEF c, d, v
<1>1. /\ v \in ToSet(c) /\ ToSet(c) \subseteq Frames /\ ToSet(d) = ToSet(c) \ {v}
      /\ \A e \in ToSet(c) :
           /\ LinkIn(dir, c, e) = v <=> LinkIn(Opposite(dir), c, v) = e
           /\ LinkIn(dir, c, e) # e
      /\ \A e \in ToSet(d) :
           LinkIn(dir, d, e) = IF LinkIn(dir, c, e) = v THEN LinkIn(dir, c, v)
                               ELSE LinkIn(dir, c, e)
  BY <1>0 DEF Without
<1>2. f \in Frames /\ NULL_FRAME \notin Frames
  BY CourseFacts, FramesAssumption DEF NULL_FRAME
<1>3. CASE f \in ToSet(c) /\ LinkIn(dir, c, f) = v
  <2>1. f = n /\ f # NULL_FRAME
    BY <1>1, <1>2, <1>3 DEF c, v
  <2>2. f # v
    BY <1>1, <1>3
  <2>3. f \in ToSet(d) /\ LinkOf(g, dir, f) = LinkIn(dir, d, f)
    BY <1>1, <1>3, <2>1, <2>2 DEF c, v
  <2>4. q + 1 \in Earliest(run[q], q, dir, TRUE, f) .. K
    BY <1>3 DEF Earliest, c, v
  <2> QED
    BY <2>3, <2>4 DEF d
<1>4. CASE ~(f \in ToSet(c) /\ LinkIn(dir, c, f) = v)
  <2>1. Earliest(run[q], q, dir, TRUE, f) = Earliest(run[q], q, dir, FALSE, f)
    BY <1>4 DEF Earliest, c, v
  <2>2. f # n
    <3>1. Opposite(dir) \in {"next", "prev"}
      BY DEF Opposite
    <3>2. n \in ToSet(c) \cup {NULL_FRAME}
      BY <1>1, <3>1, DeletionFacts DEF Without, c, v
    <3> QED
      BY <1>1, <1>2, <1>4, <3>2 DEF c, v
  <2>3. LinkOf(g, dir, f) = LinkOf(h, dir, f)
    BY <1>2, <2>2
  <2>4. PICK t \in Earliest(run[q], q, dir, FALSE, f) .. K :
          f \in ToSet(run[t].c) /\ LinkOf(h, dir, f) = LinkIn(dir, run[t].c, f)
    BY DEF LinksOn
  <2> QED
    BY <2>1, <2>3, <2>4
<1> QED
  BY <1>3, <1>4

\* The write of the victim's own header (purgearea.c:105-110).
LEMMA FreedLinks ==
  ASSUME NEW K \in Nat, NEW run, IsCourse(run, K), NEW q \in 0 .. K - 1, Goes(run[q]),
         NEW h, NEW g, NEW dir \in {"next", "prev"}, LinksOn(dir, h, run, K, q, TRUE),
         LinkOf(g, dir, Named(run[q])) = LinkIn(dir, run[q].c, Named(run[q])),
         \A f \in Frames : f # Named(run[q]) => LinkOf(g, dir, f) = LinkOf(h, dir, f)
  PROVE  LinksOn(dir, g, run, K, q + 1, FALSE)
<1> SUFFICES ASSUME NEW f \in ToSet(run[0].c)
             PROVE  \E t \in Earliest(run[q + 1], q + 1, dir, FALSE, f) .. K :
                       /\ f \in ToSet(run[t].c)
                       /\ LinkOf(g, dir, f) = LinkIn(dir, run[t].c, f)
  BY DEF LinksOn
<1> DEFINE c == run[q].c
           d == run[q + 1].c
           v == Named(run[q])
<1>0. Without(c, v, d)
  BY DeletionFacts
<1> HIDE DEF c, d, v
<1>1. /\ v \in ToSet(c) /\ ToSet(d) = ToSet(c) \ {v}
      /\ \A e \in ToSet(d) :
           LinkIn(dir, d, e) = IF LinkIn(dir, c, e) = v THEN LinkIn(dir, c, v)
                               ELSE LinkIn(dir, c, e)
  BY <1>0 DEF Without
<1>2. f \in Frames
  BY CourseFacts
<1>3. CASE f = v
  <2>1. q \in Earliest(run[q + 1], q + 1, dir, FALSE, f) .. K
    BY <1>1, <1>3 DEF Earliest, d
  <2> QED
    BY <1>1, <1>3, <2>1 DEF c, v
<1>4. CASE f # v
  <2>1. PICK t \in Earliest(run[q], q, dir, TRUE, f) .. K :
          f \in ToSet(run[t].c) /\ LinkOf(h, dir, f) = LinkIn(dir, run[t].c, f)
    BY DEF LinksOn
  <2>2. LinkOf(g, dir, f) = LinkOf(h, dir, f)
    BY <1>2, <1>4 DEF v
  <2>3. CASE f \in ToSet(c) /\ t = q
    <3>1. LinkIn(dir, c, f) # v
      BY <2>3 DEF Earliest, c, v
    <3>2. f \in ToSet(d) /\ LinkIn(dir, d, f) = LinkIn(dir, c, f)
      BY <1>1, <1>4, <2>3, <3>1
    <3>3. q + 1 \in Earliest(run[q + 1], q + 1, dir, FALSE, f) .. K
      BY <3>2 DEF Earliest, d
    <3> QED
      BY <2>1, <2>2, <2>3, <3>2, <3>3 DEF c, d
  <2>4. CASE f \in ToSet(c) /\ t # q
    <3>1. t \in q + 1 .. K
      BY <2>4 DEF Earliest, c
    <3>2. f \in ToSet(d)
      BY <1>1, <1>4, <2>4
    <3>3. t \in Earliest(run[q + 1], q + 1, dir, FALSE, f) .. K
      BY <3>1, <3>2 DEF Earliest, d
    <3> QED
      BY <2>1, <2>2, <3>3
  <2>5. CASE f \notin ToSet(c)
    <3>1. f \notin ToSet(d)
      BY <1>1, <2>5
    <3>2. t \in Earliest(run[q + 1], q + 1, dir, FALSE, f) .. K
      BY <2>5, <3>1 DEF Earliest, c, d
    <3> QED
      BY <2>1, <2>2, <3>2
  <2> QED
    BY <2>3, <2>4, <2>5
<1> QED
  BY <1>3, <1>4

-----------------------------------------------------------------------------
(* With crashes: where a run is on the course of the first one. *)

\* b is the SQBASE of the list c.
BaseOf(b, c) ==
  /\ b.begin_frame = FirstOf(c) /\ b.last_frame = LastOf(c)
  /\ b.num_msg = Len(c) /\ b.high_msg = Len(c)

\* Memory at the moment m, with what SquishDelMsg has done of the deletion.
MemoryAt(m) ==
  /\ sqidx = m.idx /\ i = m.i /\ lastread = 0
  /\ sqbase.num_msg = Len(m.c) /\ sqbase.high_msg = Len(m.c)
  /\ sqbase.begin_frame =
       IF pc \in {"relinkNext", "markFree"} /\ Prev = NULL_FRAME
       THEN Succ ELSE FirstOf(m.c)
  /\ sqbase.last_frame =
       IF Succ = NULL_FRAME /\ \/ pc = "markFree"
                               \/ pc = "relinkNext" /\ Prev # NULL_FRAME
       THEN Prev ELSE LastOf(m.c)

\* SquishDelMsg has written the links that led to the victim, or not yet.
LinksNow(run, K, q) ==
  /\ IF pc \in {"relinkNext", "markFree"} THEN LinksOn("next", hdrs, run, K, q, TRUE)
     ELSE LinksOn("next", hdrs, run, K, q, FALSE)
  /\ IF pc = "markFree" THEN LinksOn("prev", hdrs, run, K, q, TRUE)
     ELSE LinksOn("prev", hdrs, run, K, q, FALSE)

\* The files hold the base and the index from which the course starts; this run
\* has come to moment q, the runs before it to d at the most.
Track(run, K, q, d) ==
  /\ K \in Nat /\ q \in 0 .. K /\ d \in q .. K
  /\ IsCourse(run, K) /\ run[0].idx = sqi /\ run[0].i = 1
  /\ BaseOf(base, run[0].c)
  /\ chain = run[d].c /\ \A f \in ToSet(chain) : hdrs[f].frame_type = "normal"
  /\ LinksNow(run, K, q)
  /\ pc = "idle" => q = 0
  /\ pc # "idle" => MemoryAt(run[q])
  /\ Deleting => /\ q < K /\ Goes(run[q])
                 /\ Succ = NextIn(run[q].c, Victim) /\ Prev = PrevIn(run[q].c, Victim)

OnTrack == \E run, K, q, d : Track(run, K, q, d)

\* What the loop does with a message does not change while it runs.
LEMMA SameCourse ==
  ASSUME UNCHANGED << xmsg, damaged, area, curtime >>, NEW run, NEW K
  PROVE  /\ IsCourse(run, K)' <=> IsCourse(run, K)
         /\ \A m : Goes(m)' <=> Goes(m)
<1>1. \A m : Goes(m)' <=> Goes(m)
  BY DEF Goes, MustGoIn, Named
<1>2. \A m : NextMoment(m)' = NextMoment(m)
  BY <1>1 DEF NextMoment, Named
<1> QED
  BY <1>1, <1>2 DEF IsCourse, Good

\* The program looks at a message: it is the one at which the course is.
LEMMA TrackGoesOn ==
  ASSUME TypeOK, OnTrack, pc = "examine", i <= Len(sqidx)
  PROVE  \E run, K, q, d : Track(run, K, q, d) /\ q < K
<1>1. PICK run, K, q, d : Track(run, K, q, d)
  BY DEF OnTrack
<1>2. K \in Nat /\ q \in 0 .. K /\ d \in q .. K /\ IsCourse(run, K)
  BY <1>1 DEF Track
<1>3. CASE q < K
  BY <1>1, <1>3
<1>4. CASE q = K
  <2>1. sqidx = run[K].idx /\ i = run[K].i
    BY <1>1, <1>4 DEF Track, MemoryAt
  <2>2. PICK longer : /\ IsCourse(longer, K + 1)
                      /\ \A t \in 0 .. K : longer[t] = run[t]
    BY <1>2, <2>1, LongerCourse
  <2>3. longer[0] = run[0] /\ longer[q] = run[q] /\ longer[d] = run[d]
    BY <1>2, <2>2
  <2>4. LinksOn("next", hdrs, run, K, q, FALSE) /\ LinksOn("prev", hdrs, run, K, q, FALSE)
    BY <1>1 DEF Track, LinksNow
  <2>5. LinksOn("next", hdrs, longer, K + 1, q, FALSE)
    BY <1>2, <2>2, <2>4, LongerLinks
  <2>6. LinksOn("prev", hdrs, longer, K + 1, q, FALSE)
    BY <1>2, <2>2, <2>4, LongerLinks
  <2>7. K + 1 \in Nat /\ q \in 0 .. K + 1 /\ d \in q .. K + 1 /\ q < K + 1
    BY <1>2, <1>4
  <2>8. Track(longer, K + 1, q, d)
    BY <1>1, <2>2, <2>3, <2>5, <2>6, <2>7 DEF Track, LinksNow, Deleting
  <2> QED
    BY <2>7, <2>8
<1> QED
  BY <1>2, <1>3, <1>4

\* A run begins at the first moment.
LEMMA ReadBaseTrack ==
  ASSUME TypeOK, OnTrack, ReadBase
  PROVE  OnTrack'
<1>1. /\ pc = "idle" /\ pc' = "examine" /\ sqbase' = base /\ sqidx' = sqi /\ i' = 1
      /\ UNCHANGED << hdrs, base, sqi, chain, xmsg, damaged, area, curtime >>
  BY DEF ReadBase, files, history
<1>2. lastread' = 0
  <2>1. LeastUmsgid(sql) = 0
    BY PurgeAssumption, LeastUmsgidIsZero DEF TypeOK
  <2> QED
    BY <2>1 DEF ReadBase, IndexOf
<1>3. PICK run, K, q, d : Track(run, K, q, d)
  BY DEF OnTrack
<1>4. q = 0 /\ run[0].idx = sqi /\ run[0].i = 1 /\ BaseOf(base, run[0].c)
  BY <1>1, <1>3 DEF Track
<1>5. MemoryAt(run[q])'
  BY <1>1, <1>2, <1>4 DEF MemoryAt, BaseOf
<1>6. IsCourse(run, K)'
  BY <1>1, <1>3, SameCourse DEF Track
<1>7. LinksNow(run, K, q)'
  BY <1>1, <1>3 DEF Track, LinksNow
<1>8. Track(run, K, q, d)'
  BY <1>1, <1>3, <1>5, <1>6, <1>7 DEF Track, Deleting
<1> QED
  BY <1>8 DEF OnTrack

\* The loop passes a message that stays.
LEMMA KeepMsgTrack ==
  ASSUME TypeOK, OnTrack, KeepMsg
  PROVE  OnTrack'
<1>1. /\ pc = "examine" /\ pc' = "examine" /\ i <= Len(sqidx) /\ ~MustGo(sqidx[i].ofs)
      /\ i' = i + 1
      /\ UNCHANGED << hdrs, base, sqi, chain, sqbase, sqidx, sqhdr, lastread,
                      xmsg, damaged, area, curtime >>
  BY DEF KeepMsg, files, history
<1>2. PICK run, K, q, d : Track(run, K, q, d) /\ q < K
  BY <1>1, TrackGoesOn
<1>3. /\ K \in Nat /\ q \in 0 .. K - 1 /\ d \in q .. K /\ IsCourse(run, K)
      /\ MemoryAt(run[q])
  BY <1>1, <1>2 DEF Track
<1>4. ~Goes(run[q])
  BY <1>1, <1>3 DEF MemoryAt, Goes, Named, MustGoIn, MustGo, MayGo, Asked
<1>5. run[q + 1] = [idx |-> run[q].idx, i |-> run[q].i + 1, c |-> run[q].c]
  BY <1>3, <1>4 DEF IsCourse, NextMoment
<1>6. /\ LinksOn("next", hdrs, run, K, q + 1, FALSE)
      /\ LinksOn("prev", hdrs, run, K, q + 1, FALSE)
  <2>1. LinksOn("next", hdrs, run, K, q, FALSE) /\ LinksOn("prev", hdrs, run, K, q, FALSE)
    BY <1>1, <1>2 DEF Track, LinksNow
  <2> QED
    BY <2>1, <1>3, <1>4, PassedLinks
<1>7. MemoryAt(run[q + 1])'
  BY <1>1, <1>3, <1>5 DEF MemoryAt
<1> DEFINE e == IF d = q THEN q + 1 ELSE d
<1>8. e \in q + 1 .. K /\ q + 1 \in 0 .. K /\ run[e].c = run[d].c
  BY <1>3, <1>5
<1> HIDE DEF e
<1>9. IsCourse(run, K)'
  BY <1>1, <1>3, SameCourse
<1>10. LinksNow(run, K, q + 1)'
  BY <1>1, <1>6 DEF LinksNow
<1>11. Track(run, K, q + 1, e)'
  BY <1>1, <1>2, <1>3, <1>7, <1>8, <1>9, <1>10 DEF Track, Deleting
<1> QED
  BY <1>11 DEF OnTrack

\* The header that is read has the links of this moment, also if a run before
\* has already deleted the message.
LEMMA DelMsgTrack ==
  ASSUME TypeOK, OnTrack, DelMsg
  PROVE  OnTrack'
<1>1. /\ pc = "examine" /\ pc' = "relinkPrev" /\ i <= Len(sqidx) /\ MustGo(sqidx[i].ofs)
      /\ sqhdr' = hdrs[sqidx[i].ofs]
      /\ UNCHANGED << hdrs, base, sqi, chain, sqbase, sqidx, i, lastread,
                      xmsg, damaged, area, curtime >>
  BY DEF DelMsg, files, history
<1>2. PICK run, K, q, d : Track(run, K, q, d) /\ q < K
  BY <1>1, TrackGoesOn
<1>3. /\ K \in Nat /\ q \in 0 .. K - 1 /\ q \in 0 .. K /\ d \in q .. K /\ IsCourse(run, K)
      /\ MemoryAt(run[q])
  BY <1>1, <1>2 DEF Track
<1>4. Goes(run[q])
  BY <1>1, <1>3 DEF MemoryAt, Goes, Named, MustGoIn, MustGo, MayGo, Asked
<1>5. LinksOn("next", hdrs, run, K, q, FALSE) /\ LinksOn("prev", hdrs, run, K, q, FALSE)
  BY <1>1, <1>2 DEF Track, LinksNow
<1>6. /\ LinkOf(hdrs, "next", Named(run[q])) = LinkIn("next", run[q].c, Named(run[q]))
      /\ LinkOf(hdrs, "prev", Named(run[q])) = LinkIn("prev", run[q].c, Named(run[q]))
  BY <1>3, <1>4, <1>5, VictimLinks
<1>7. Victim' = Named(run[q]) /\ sqhdr' = hdrs[Named(run[q])]
  BY <1>1, <1>3 DEF MemoryAt, Named, Victim
<1>8. Succ' = NextIn(run[q].c, Victim') /\ Prev' = PrevIn(run[q].c, Victim')
  BY <1>6, <1>7 DEF LinkOf, LinkIn, Succ, Prev
<1>9. MemoryAt(run[q])'
  BY <1>1, <1>3 DEF MemoryAt
<1>10. IsCourse(run, K)' /\ Goes(run[q])'
  BY <1>1, <1>3, <1>4, SameCourse
<1>11. LinksNow(run, K, q)'
  BY <1>1, <1>5 DEF LinksNow
<1>12. Track(run, K, q, d)'
  BY <1>1, <1>2, <1>3, <1>8, <1>9, <1>10, <1>11 DEF Track
<1> QED
  BY <1>12 DEF OnTrack

\* A run in the middle of a deletion.
LEMMA DeletingTrack ==
  ASSUME TypeOK, NEW run, NEW K, NEW q, NEW d, Track(run, K, q, d), Deleting
  PROVE  /\ K \in Nat /\ q \in 0 .. K - 1 /\ d \in q .. K
         /\ IsCourse(run, K) /\ Goes(run[q]) /\ Victim = Named(run[q])
         /\ MemoryAt(run[q])
         /\ Succ = NextIn(run[q].c, Victim) /\ Prev = PrevIn(run[q].c, Victim)
         /\ Succ = LinkIn("next", run[q].c, Named(run[q]))
         /\ Prev = LinkIn("prev", run[q].c, Named(run[q]))
         /\ Victim \in Frames
<1>1. pc # "idle"
  BY DEF Deleting
<1>2. /\ K \in Nat /\ q \in 0 .. K - 1 /\ d \in q .. K
      /\ IsCourse(run, K) /\ Goes(run[q]) /\ MemoryAt(run[q])
      /\ Succ = NextIn(run[q].c, Victim) /\ Prev = PrevIn(run[q].c, Victim)
  BY <1>1 DEF Track
<1>3. Victim = Named(run[q])
  BY <1>2 DEF MemoryAt, Named, Victim
<1>4. Victim \in Frames
  BY <1>2, <1>3, DeletionFacts DEF Without
<1> QED
  BY <1>2, <1>3, <1>4 DEF LinkIn

\* The two writes of neighbours change links only.
LEMMA RelinkPrevTrack ==
  ASSUME TypeOK, OnTrack, RelinkPrev
  PROVE  OnTrack'
<1>1. /\ pc = "relinkPrev" /\ pc' = "relinkNext" /\ hdrs' = RelinkedPrev(hdrs)
      /\ UNCHANGED << base, sqi, chain, sqidx, sqhdr, i, lastread,
                      xmsg, damaged, area, curtime >>
  BY DEF RelinkPrev, history
<1>2. PICK run, K, q, d : Track(run, K, q, d)
  BY DEF OnTrack
<1>3. /\ K \in Nat /\ q \in 0 .. K - 1 /\ d \in q .. K
      /\ IsCourse(run, K) /\ Goes(run[q]) /\ MemoryAt(run[q])
      /\ Succ = NextIn(run[q].c, Victim) /\ Prev = PrevIn(run[q].c, Victim)
      /\ Succ = LinkIn("next", run[q].c, Named(run[q]))
      /\ Prev = LinkIn("prev", run[q].c, Named(run[q]))
  BY <1>1, <1>2, DeletingTrack DEF Deleting
<1>4. PICK g : g = hdrs'
  OBVIOUS
<1>5. /\ g = IF Prev # NULL_FRAME THEN [hdrs EXCEPT ![Prev].next_frame = Succ] ELSE hdrs
      /\ hdrs \in [Frames -> SQHDR] /\ Prev \in FrameRef
  BY <1>1, <1>4 DEF RelinkedPrev, TypeOK, Prev, SQHDR
<1>6. /\ Prev # NULL_FRAME => g[Prev].next_frame = Succ
      /\ \A f \in Frames : /\ f # Prev => g[f].next_frame = hdrs[f].next_frame
                           /\ g[f].prev_frame = hdrs[f].prev_frame
                           /\ g[f].frame_type = hdrs[f].frame_type
  BY <1>5 DEF FrameRef, SQHDR
<1>7. LinksOn("next", hdrs, run, K, q, FALSE) /\ LinksOn("prev", hdrs, run, K, q, FALSE)
  BY <1>1, <1>2 DEF Track, LinksNow
<1>8. LinksOn("next", g, run, K, q, TRUE)
  <2>1. /\ Prev = LinkIn(Opposite("next"), run[q].c, Named(run[q]))
        /\ Prev # NULL_FRAME =>
             LinkOf(g, "next", Prev) = LinkIn("next", run[q].c, Named(run[q]))
        /\ \A f \in Frames : f # Prev => LinkOf(g, "next", f) = LinkOf(hdrs, "next", f)
    BY <1>3, <1>6 DEF Opposite, LinkOf
  <2> QED
    BY <1>3, <1>7, <2>1, RelinkedLinks
<1>9. LinksOn("prev", g, run, K, q, FALSE)
  <2>1. \A f \in Frames : LinkOf(g, "prev", f) = LinkOf(hdrs, "prev", f)
    BY <1>6 DEF LinkOf
  <2> QED
    BY <1>3, <1>7, <2>1, SameLinks
<1>10. LinksNow(run, K, q)'
  BY <1>1, <1>4, <1>8, <1>9 DEF LinksNow
<1>11. ToSet(chain) \subseteq Frames
  <2>1. d \in 0 .. K /\ chain = run[d].c
    BY <1>2, <1>3 DEF Track
  <2> QED
    BY <1>3, <2>1, CourseFacts
<1>12. \A f \in ToSet(chain') : hdrs'[f].frame_type = "normal"
  BY <1>1, <1>2, <1>4, <1>6, <1>11 DEF Track
<1>13. MemoryAt(run[q])'
  <2>1. /\ sqbase'.begin_frame = IF Prev = NULL_FRAME THEN Succ ELSE sqbase.begin_frame
        /\ sqbase'.last_frame = IF Prev # NULL_FRAME /\ Succ = NULL_FRAME
                                THEN Prev ELSE sqbase.last_frame
        /\ sqbase'.num_msg = sqbase.num_msg /\ sqbase'.high_msg = sqbase.high_msg
    BY DEF RelinkPrev, TypeOK, SQBASE
  <2> QED
    BY <1>1, <1>3, <2>1 DEF MemoryAt, Prev, Succ
<1>14. IsCourse(run, K)' /\ Goes(run[q])'
  BY <1>1, <1>3, SameCourse
<1>15. Succ' = NextIn(run[q].c, Victim') /\ Prev' = PrevIn(run[q].c, Victim')
  BY <1>1, <1>3 DEF Succ, Prev, Victim
<1>16. q \in 0 .. K /\ q < K
  BY <1>3
<1>17. Track(run, K, q, d)'
  BY <1>1, <1>2, <1>3, <1>10, <1>12, <1>13, <1>14, <1>15, <1>16 DEF Track
<1> QED
  BY <1>17 DEF OnTrack

LEMMA RelinkNextTrack ==
  ASSUME TypeOK, OnTrack, RelinkNext
  PROVE  OnTrack'
<1>1. /\ pc = "relinkNext" /\ pc' = "markFree" /\ hdrs' = RelinkedNext(hdrs)
      /\ UNCHANGED << base, sqi, chain, sqidx, sqhdr, i, lastread,
                      xmsg, damaged, area, curtime >>
  BY DEF RelinkNext, history
<1>2. PICK run, K, q, d : Track(run, K, q, d)
  BY DEF OnTrack
<1>3. /\ K \in Nat /\ q \in 0 .. K - 1 /\ d \in q .. K
      /\ IsCourse(run, K) /\ Goes(run[q]) /\ MemoryAt(run[q])
      /\ Succ = NextIn(run[q].c, Victim) /\ Prev = PrevIn(run[q].c, Victim)
      /\ Succ = LinkIn("next", run[q].c, Named(run[q]))
      /\ Prev = LinkIn("prev", run[q].c, Named(run[q]))
  BY <1>1, <1>2, DeletingTrack DEF Deleting
<1>4. PICK g : g = hdrs'
  OBVIOUS
<1>5. /\ g = IF Succ # NULL_FRAME THEN [hdrs EXCEPT ![Succ].prev_frame = Prev] ELSE hdrs
      /\ hdrs \in [Frames -> SQHDR] /\ Succ \in FrameRef
  BY <1>1, <1>4 DEF RelinkedNext, TypeOK, Succ, SQHDR
<1>6. /\ Succ # NULL_FRAME => g[Succ].prev_frame = Prev
      /\ \A f \in Frames : /\ f # Succ => g[f].prev_frame = hdrs[f].prev_frame
                           /\ g[f].next_frame = hdrs[f].next_frame
                           /\ g[f].frame_type = hdrs[f].frame_type
  BY <1>5 DEF FrameRef, SQHDR
<1>7. LinksOn("next", hdrs, run, K, q, TRUE) /\ LinksOn("prev", hdrs, run, K, q, FALSE)
  BY <1>1, <1>2 DEF Track, LinksNow
<1>8. LinksOn("prev", g, run, K, q, TRUE)
  <2>1. /\ Succ = LinkIn(Opposite("prev"), run[q].c, Named(run[q]))
        /\ Succ # NULL_FRAME =>
             LinkOf(g, "prev", Succ) = LinkIn("prev", run[q].c, Named(run[q]))
        /\ \A f \in Frames : f # Succ => LinkOf(g, "prev", f) = LinkOf(hdrs, "prev", f)
    BY <1>3, <1>6 DEF Opposite, LinkOf
  <2> QED
    BY <1>3, <1>7, <2>1, RelinkedLinks
<1>9. LinksOn("next", g, run, K, q, TRUE)
  <2>1. \A f \in Frames : LinkOf(g, "next", f) = LinkOf(hdrs, "next", f)
    BY <1>6 DEF LinkOf
  <2> QED
    BY <1>3, <1>7, <2>1, SameLinks
<1>10. LinksNow(run, K, q)'
  BY <1>1, <1>4, <1>8, <1>9 DEF LinksNow
<1>11. ToSet(chain) \subseteq Frames
  <2>1. d \in 0 .. K /\ chain = run[d].c
    BY <1>2, <1>3 DEF Track
  <2> QED
    BY <1>3, <2>1, CourseFacts
<1>12. \A f \in ToSet(chain') : hdrs'[f].frame_type = "normal"
  BY <1>1, <1>2, <1>4, <1>6, <1>11 DEF Track
<1>13. MemoryAt(run[q])'
  <2>1. /\ sqbase'.begin_frame = IF Succ # NULL_FRAME /\ Prev = NULL_FRAME
                                 THEN Succ ELSE sqbase.begin_frame
        /\ sqbase'.last_frame = IF Succ = NULL_FRAME THEN Prev ELSE sqbase.last_frame
        /\ sqbase'.num_msg = sqbase.num_msg /\ sqbase'.high_msg = sqbase.high_msg
    BY DEF RelinkNext, TypeOK, SQBASE
  <2> QED
    BY <1>1, <1>3, <2>1 DEF MemoryAt, Prev, Succ
<1>14. IsCourse(run, K)' /\ Goes(run[q])'
  BY <1>1, <1>3, SameCourse
<1>15. Succ' = NextIn(run[q].c, Victim') /\ Prev' = PrevIn(run[q].c, Victim')
  BY <1>1, <1>3 DEF Succ, Prev, Victim
<1>16. q \in 0 .. K /\ q < K
  BY <1>3
<1>17. Track(run, K, q, d)'
  BY <1>1, <1>2, <1>3, <1>10, <1>12, <1>13, <1>14, <1>15, <1>16 DEF Track
<1> QED
  BY <1>17 DEF OnTrack

\* The message is deleted: for the first time if no run has come further.
LEMMA MarkFreeTrack ==
  ASSUME TypeOK, OnTrack, MarkFree
  PROVE  OnTrack'
<1>1. /\ pc = "markFree" /\ pc' = "examine" /\ i' = i
      /\ hdrs' = [hdrs EXCEPT ![Victim] = [sqhdr EXCEPT !.frame_type = "free"]]
      /\ chain' = Unlinked(chain, Victim) /\ sqidx' = RemoveAt(sqidx, i)
      /\ UNCHANGED << base, sqi, lastread, xmsg, damaged, area, curtime >>
  BY DEF MarkFree, AfterDel, Closed, Victim
<1>2. PICK run, K, q, d : Track(run, K, q, d)
  BY DEF OnTrack
<1>3. /\ K \in Nat /\ q \in 0 .. K - 1 /\ d \in q .. K
      /\ IsCourse(run, K) /\ Goes(run[q]) /\ MemoryAt(run[q])
      /\ Victim = Named(run[q]) /\ Victim \in Frames
      /\ Succ = LinkIn("next", run[q].c, Named(run[q]))
      /\ Prev = LinkIn("prev", run[q].c, Named(run[q]))
  BY <1>1, <1>2, DeletingTrack DEF Deleting
<1>4. PICK g : g = hdrs'
  OBVIOUS
<1>5. /\ g[Victim].next_frame = Succ /\ g[Victim].prev_frame = Prev
      /\ \A f \in Frames : f # Victim => g[f] = hdrs[f]
  <2>1. hdrs \in [Frames -> SQHDR] /\ sqhdr \in SQHDR
    BY DEF TypeOK
  <2> QED
    BY <1>1, <1>3, <1>4, <2>1 DEF Succ, Prev, SQHDR
<1>6. LinksOn("next", hdrs, run, K, q, TRUE) /\ LinksOn("prev", hdrs, run, K, q, TRUE)
  BY <1>1, <1>2 DEF Track, LinksNow
<1>7. LinksOn("next", g, run, K, q + 1, FALSE)
  <2>1. /\ LinkOf(g, "next", Named(run[q])) = LinkIn("next", run[q].c, Named(run[q]))
        /\ \A f \in Frames : f # Named(run[q]) => LinkOf(g, "next", f) = LinkOf(hdrs, "next", f)
    BY <1>3, <1>5 DEF LinkOf
  <2> QED
    BY <1>3, <1>6, <2>1, FreedLinks
<1>8. LinksOn("prev", g, run, K, q + 1, FALSE)
  <2>1. /\ LinkOf(g, "prev", Named(run[q])) = LinkIn("prev", run[q].c, Named(run[q]))
        /\ \A f \in Frames : f # Named(run[q]) => LinkOf(g, "prev", f) = LinkOf(hdrs, "prev", f)
    BY <1>3, <1>5 DEF LinkOf
  <2> QED
    BY <1>3, <1>6, <2>1, FreedLinks
<1>9. LinksNow(run, K, q + 1)'
  BY <1>1, <1>4, <1>7, <1>8 DEF LinksNow
<1>10. run[q + 1] = [idx |-> RemoveAt(run[q].idx, run[q].i), i |-> run[q].i,
                     c |-> Unlinked(run[q].c, Victim)]
  BY <1>3 DEF IsCourse, NextMoment
<1>11. /\ run[q].c \in Seq(Frames) /\ Distinct(run[q].c) /\ Victim \in ToSet(run[q].c)
       /\ \A t \in q + 1 .. K : Victim \notin ToSet(run[t].c)
  BY <1>3, DeletionFacts DEF Without
<1> DEFINE e == IF d = q THEN q + 1 ELSE d
<1>12. e \in q + 1 .. K /\ q + 1 \in 0 .. K /\ chain' = run[e].c
  <2>1. CASE d = q
    BY <1>1, <1>2, <1>3, <1>10, <2>1 DEF Track
  <2>2. CASE d # q
    <3>1. d \in q + 1 .. K
      BY <1>3, <2>2
    <3>2. Victim \notin ToSet(chain) /\ chain = run[d].c
      BY <1>2, <1>11, <3>1 DEF Track
    <3> QED
      BY <1>1, <1>3, <2>2, <3>1, <3>2 DEF Unlinked
  <2> QED
    BY <2>1, <2>2
<1> HIDE DEF e
<1>13. \A f \in ToSet(chain') : hdrs'[f].frame_type = "normal"
  <2>1. d \in 0 .. K /\ chain = run[d].c
    BY <1>2, <1>3 DEF Track
  <2>2. chain \in Seq(Frames) /\ Distinct(chain) /\ ToSet(chain) \subseteq Frames
    BY <1>3, <2>1, CourseFacts
  <2>3. ToSet(chain') \subseteq ToSet(chain)
    <3>1. CASE Victim \in ToSet(chain)
      BY <1>1, <2>2, <3>1, UnlinkedList
    <3>2. CASE Victim \notin ToSet(chain)
      BY <1>1, <3>2 DEF Unlinked
    <3> QED
      BY <3>1, <3>2
  <2>4. Victim \notin ToSet(chain')
    BY <1>11, <1>12
  <2> QED
    BY <1>2, <1>4, <1>5, <2>2, <2>3, <2>4 DEF Track
<1>14. MemoryAt(run[q + 1])'
  <2> DEFINE c == run[q].c
             n == run[q + 1].c
  <2>1. /\ Len(n) = Len(c) - 1 /\ Len(c) \in Nat \ {0}
        /\ FirstOf(n) = IF PrevIn(c, Victim) = NULL_FRAME THEN NextIn(c, Victim) ELSE FirstOf(c)
        /\ LastOf(n) = IF NextIn(c, Victim) = NULL_FRAME THEN PrevIn(c, Victim) ELSE LastOf(c)
    BY <1>10, <1>11, UnlinkedList
  <2>2. /\ sqbase'.begin_frame = sqbase.begin_frame
        /\ sqbase'.last_frame = sqbase.last_frame
        /\ sqbase'.num_msg = Dec(sqbase.num_msg)
        /\ sqbase'.high_msg = Dec(sqbase.high_msg)
    BY DEF MarkFree, TypeOK, SQBASE
  <2>3. Succ = NextIn(c, Victim) /\ Prev = PrevIn(c, Victim)
    BY <1>3 DEF LinkIn
  <2>4. /\ sqidx = run[q].idx /\ i = run[q].i /\ lastread = 0
        /\ sqbase.num_msg = Len(c) /\ sqbase.high_msg = Len(c)
        /\ sqbase.begin_frame = IF Prev = NULL_FRAME THEN Succ ELSE FirstOf(c)
        /\ sqbase.last_frame = IF Succ = NULL_FRAME THEN Prev ELSE LastOf(c)
    BY <1>1, <1>3 DEF MemoryAt
  <2>5. /\ sqidx' = run[q + 1].idx /\ i' = run[q + 1].i /\ lastread' = 0
    BY <1>1, <1>10, <2>4
  <2> HIDE DEF c, n
  <2>6. Dec(Len(c)) = Len(n)
    BY <2>1 DEF Dec
  <2> QED
    BY <1>1, <2>1, <2>2, <2>3, <2>4, <2>5, <2>6 DEF MemoryAt, n
<1>15. IsCourse(run, K)'
  BY <1>1, <1>3, SameCourse
<1>16. Track(run, K, q + 1, e)'
  BY <1>1, <1>2, <1>3, <1>9, <1>12, <1>13, <1>14, <1>15 DEF Track, Deleting
<1> QED
  BY <1>16 DEF OnTrack

\* After a crash the next run is at the first moment, the deletions are ahead of it.
LEMMA CrashTrack ==
  ASSUME TypeOK, OnTrack, Crash, pc = "examine" \/ Deleting
  PROVE  OnTrack'
<1>1. /\ pc # "idle" /\ pc' = "idle"
      /\ UNCHANGED << hdrs, base, sqi, chain, xmsg, damaged, area, curtime >>
  BY DEF Crash, files
<1>2. PICK run, K, q, d : Track(run, K, q, d)
  BY DEF OnTrack
<1>3. K \in Nat /\ q \in 0 .. K /\ d \in q .. K /\ IsCourse(run, K)
  BY <1>2 DEF Track
<1>4. LinksOn("next", hdrs, run, K, 0, FALSE) /\ LinksOn("prev", hdrs, run, K, 0, FALSE)
  <2>1. /\ \E done \in BOOLEAN : LinksOn("next", hdrs, run, K, q, done)
        /\ \E done \in BOOLEAN : LinksOn("prev", hdrs, run, K, q, done)
    BY <1>2 DEF Track, LinksNow
  <2> QED
    BY <1>3, <2>1, RestartLinks
<1>5. LinksNow(run, K, 0)'
  BY <1>1, <1>4 DEF LinksNow
<1>6. IsCourse(run, K)'
  BY <1>1, <1>3, SameCourse
<1>7. 0 \in 0 .. K /\ d \in 0 .. K
  BY <1>3
<1>8. Track(run, K, 0, d)'
  BY <1>1, <1>2, <1>3, <1>5, <1>6, <1>7 DEF Track, Deleting
<1> QED
  BY <1>8 DEF OnTrack

\* Links, ends, counters and index agree on the list.
Sound(b, idx) == Linked(hdrs, chain, "normal") /\ Distinct(chain) /\ Describes(b, idx)

\* When the loop ends, the run has caught up with all that were cut short.
LEMMA CourseEnds ==
  ASSUME TypeOK, OnTrack, pc = "examine", i > Len(sqidx)
  PROVE  Sound(sqbase, sqidx)
<1>1. PICK run, K, q, d : Track(run, K, q, d)
  BY DEF OnTrack
<1>2. /\ K \in Nat /\ q \in 0 .. K /\ d \in q .. K /\ IsCourse(run, K) /\ MemoryAt(run[q])
      /\ chain = run[d].c
  BY <1>1 DEF Track
<1>3. q = K
  <2>1. Len(sqidx) \in Nat /\ i \in Nat
    BY LenProperties DEF TypeOK
  <2>2. ~(run[q].i <= Len(run[q].idx))
    BY <1>2, <2>1 DEF MemoryAt
  <2> QED
    BY <1>2, <2>2 DEF IsCourse
<1>4. d = K
  BY <1>2, <1>3
<1>5. /\ chain = run[K].c /\ MemoryAt(run[K])
      /\ LinksOn("next", hdrs, run, K, K, FALSE) /\ LinksOn("prev", hdrs, run, K, K, FALSE)
  BY <1>1, <1>2, <1>3, <1>4 DEF Track, LinksNow
<1> DEFINE c == run[K].c
<1>7. \A f \in ToSet(c) : /\ LinkOf(hdrs, "next", f) = LinkIn("next", c, f)
                          /\ LinkOf(hdrs, "prev", f) = LinkIn("prev", c, f)
  <2>1. /\ K \in Nat /\ IsCourse(run, K)
        /\ LinksOn("next", hdrs, run, K, K, FALSE) /\ LinksOn("prev", hdrs, run, K, K, FALSE)
    BY <1>2, <1>5
  <2> QED
    BY ONLY <2>1, LastLinks
<1>8. ASSUME NEW f \in ToSet(chain)
      PROVE  /\ hdrs[f].next_frame = NextIn(chain, f)
             /\ hdrs[f].prev_frame = PrevIn(chain, f)
             /\ hdrs[f].frame_type = "normal"
  BY <1>1, <1>5, <1>7, <1>8 DEF LinkOf, LinkIn, Track
<1>9. Distinct(chain) /\ chain \in Seq(Frames) /\ hdrs \in [Frames -> SQHDR]
  BY <1>2, <1>4, CourseFacts DEF TypeOK
<1>10. Linked(hdrs, chain, "normal")
  BY <1>8, <1>9, LinkedMembers
<1>11. NoDuplicates(run[K].idx) /\ Offsets(run[K].idx) = ToSet(run[K].c)
  <2>1. Good(run[K])
    BY <1>2 DEF IsCourse
  <2> QED
    BY <2>1 DEF Good
<1>12. Describes(sqbase, sqidx)
  BY <1>5, <1>11 DEF Describes, MemoryAt
<1> QED
  BY <1>9, <1>10, <1>12 DEF Sound

\* A sound base is the start of a course.
LEMMA SoundTrack == TypeOK /\ pc = "idle" /\ Sound(base, sqi) => OnTrack
<1> SUFFICES ASSUME TypeOK, pc = "idle", Sound(base, sqi) PROVE OnTrack
  OBVIOUS
<1> DEFINE m == [idx |-> sqi, i |-> 1, c |-> chain]
           run == [t \in 0 .. 0 |-> m]
<1>1. run[0] = m
  OBVIOUS
<1>2. m \in Moments /\ m.idx = sqi /\ m.i = 1 /\ m.c = chain
  BY DEF TypeOK, Moments
<1> HIDE DEF m, run
<1>3. Good(run[0])
  BY <1>1, <1>2, LenProperties DEF Sound, Describes, Good, TypeOK
<1>4. IsCourse(run, 0)
  <2>1. \A t \in 0 .. 0 : t = 0
    OBVIOUS
  <2>2. 0 .. 0 - 1 = {}
    OBVIOUS
  <2> QED
    BY <1>3, <2>1, <2>2 DEF IsCourse
<1>5. hdrs \in [Frames -> SQHDR] /\ chain \in Seq(Frames) /\ Distinct(chain)
      /\ Linked(hdrs, chain, "normal")
  BY DEF TypeOK, Sound
<1>6. LinksOn("next", hdrs, run, 0, 0, FALSE) /\ LinksOn("prev", hdrs, run, 0, 0, FALSE)
  BY <1>1, <1>2, <1>5, FirstLinks
<1>7. LinksNow(run, 0, 0)
  BY <1>6 DEF LinksNow
<1>8. \A f \in ToSet(chain) : hdrs[f].frame_type = "normal"
  BY <1>5, LinkedMembers
<1>9. BaseOf(base, run[0].c)
  BY <1>1, <1>2 DEF Sound, Describes, BaseOf
<1>10. Track(run, 0, 0, 0)
  BY <1>1, <1>2, <1>4, <1>7, <1>8, <1>9 DEF Track, Deleting
<1> QED
  BY <1>10 DEF OnTrack

\* The inductive invariant of a program that crashes: until a crash falls between
\* the write of SQBASE and the end, every run is on the course of the first one;
\* behind the loop the list is sound again, and the index to be written is that of
\* the list (purgearea.c:303-307).
RecoveryInv ==
  crash.left # "torn" =>
    /\ pc \in {"idle", "examine"} \/ Deleting => OnTrack
    /\ pc = "idle" /\ crash.left = "sound" => Sound(base, sqi)
    /\ pc \in {"writeSqi", "truncate"} => Sound(base, sqidx)
    /\ pc = "truncate" => SubSeq(sqi, 1, Len(sqidx)) = sqidx

LEMMA InitRecoveryInv == Init => RecoveryInv
<1> SUFFICES ASSUME Init PROVE RecoveryInv
  OBVIOUS
<1>1. TypeOK /\ ListInv /\ pc = "idle"
  BY InitType, InitListInv DEF Init
<1>2. Sound(base, sqi)
  BY <1>1 DEF ListInv, LinksInv, EndsInv, IndexInv, CurrentBase, CurrentSqi, Sound,
              Describes, Linked, LinkAt
<1> QED
  BY <1>1, <1>2, SoundTrack DEF RecoveryInv

LEMMA StepRecoveryInv ==
  ASSUME TypeOK, RecoveryInv, [CrashNext]_vars, TypeOK'
  PROVE  RecoveryInv'
<1> SUFFICES ASSUME crash'.left # "torn" PROVE RecoveryInv'
  BY DEF RecoveryInv
<1>1. CASE ReadBase \/ KeepMsg \/ DelMsg \/ RelinkPrev \/ RelinkNext \/ MarkFree
  <2>1. /\ pc \in {"idle", "examine"} \/ Deleting
        /\ pc' = "examine" \/ Deleting'
        /\ crash' = crash
    BY <1>1 DEF ReadBase, KeepMsg, DelMsg, RelinkPrev, RelinkNext, MarkFree, Deleting,
                history
  <2>2. OnTrack
    BY <2>1 DEF RecoveryInv
  <2>3. OnTrack'
    BY <1>1, <2>2, ReadBaseTrack, KeepMsgTrack, DelMsgTrack, RelinkPrevTrack,
       RelinkNextTrack, MarkFreeTrack
  <2> QED
    BY <2>1, <2>3 DEF RecoveryInv, Deleting
<1>2. CASE WriteBase
  <2>1. /\ pc = "examine" /\ pc' = "writeSqi" /\ base' = sqbase /\ i > Len(sqidx)
        /\ UNCHANGED << hdrs, chain, sqidx, crash >>
    BY <1>2 DEF WriteBase, memory, history
  <2>2. Sound(sqbase, sqidx)
    BY <2>1, CourseEnds DEF RecoveryInv
  <2>3. Sound(base, sqidx)'
    BY <2>1, <2>2 DEF Sound, Describes
  <2> QED
    BY <2>1, <2>3 DEF RecoveryInv, Deleting
<1>3. CASE WriteSqi
  <2>1. /\ pc = "writeSqi" /\ pc' = "truncate"
        /\ sqi' = sqidx \o SubSeq(sqi, Len(sqidx) + 1, Len(sqi))
        /\ UNCHANGED << hdrs, chain, base, sqidx, crash >>
    BY <1>3 DEF WriteSqi, memory, history
  <2>2. Sound(base, sqidx)
    BY <2>1 DEF RecoveryInv
  <2>3. Sound(base, sqidx)'
    BY <2>1, <2>2 DEF Sound, Describes
  <2>4. SubSeq(sqi', 1, Len(sqidx)) = sqidx
    BY <2>1, OverwrittenFront DEF TypeOK
  <2> QED
    BY <2>1, <2>3, <2>4 DEF RecoveryInv, Deleting
<1>4. CASE Truncate
  <2>1. /\ pc = "truncate" /\ pc' = "idle" /\ sqi' = SubSeq(sqi, 1, Len(sqidx))
        /\ UNCHANGED << hdrs, chain, base >>
        /\ crash.left # "torn"
    BY <1>4 DEF Truncate, TypeOK
  <2>2. Sound(base, sqidx) /\ sqi' = sqidx
    BY <2>1 DEF RecoveryInv
  <2>3. Sound(base, sqi)'
    BY <2>1, <2>2 DEF Sound, Describes
  <2>4. OnTrack'
    <3>1. (TypeOK /\ pc = "idle" /\ Sound(base, sqi) => OnTrack)'
      BY SoundTrack, PTL
    <3> QED
      BY <2>1, <2>3, <3>1
  <2> QED
    BY <2>1, <2>3, <2>4 DEF RecoveryInv
<1>5. CASE Crash
  <2>1. /\ pc' = "idle" /\ pc # "idle"
        /\ crash' = [count |-> crash.count + 1,
                     left |-> IF crash.left = "torn" \/ pc \in {"writeSqi", "truncate"}
                              THEN "torn" ELSE "dirty"]
    BY <1>5 DEF Crash
  <2>2. crash.left # "torn" /\ pc \notin {"writeSqi", "truncate"} /\ crash'.left = "dirty"
    BY <2>1
  <2>3. pc = "examine" \/ Deleting
    BY <2>1, <2>2 DEF TypeOK, Deleting
  <2>4. OnTrack'
    BY <1>5, <2>2, <2>3, CrashTrack DEF RecoveryInv
  <2> QED
    BY <2>1, <2>2, <2>4 DEF RecoveryInv
<1>6. CASE UNCHANGED vars
  <2>1. /\ UNCHANGED << hdrs, base, sqi, chain, xmsg, damaged, area, curtime, pc >>
        /\ UNCHANGED << sqbase, sqidx, sqhdr, i, lastread, crash >>
    BY <1>6 DEF vars, files, memory, history
  <2>2. /\ Sound(base, sqi)' <=> Sound(base, sqi)
        /\ Sound(base, sqidx)' <=> Sound(base, sqidx)
        /\ Deleting' <=> Deleting
    BY <2>1 DEF Sound, Describes, Deleting
  <2>3. ASSUME OnTrack PROVE OnTrack'
    <3>1. PICK run, K, q, d : Track(run, K, q, d)
      BY <2>3 DEF OnTrack
    <3>2. /\ IsCourse(run, K)' <=> IsCourse(run, K)
          /\ \A m : Goes(m)' <=> Goes(m)
      BY <2>1, SameCourse
    <3>3. \A m : MemoryAt(m)' <=> MemoryAt(m)
      BY <2>1 DEF MemoryAt, Prev, Succ
    <3>4. LinksNow(run, K, q)' <=> LinksNow(run, K, q)
      BY <2>1 DEF LinksNow
    <3>5. Track(run, K, q, d)'
      BY <2>1, <2>2, <3>1, <3>2, <3>3, <3>4 DEF Track, Victim, Succ, Prev
    <3> QED
      BY <3>5 DEF OnTrack
  <2> QED
    BY <2>1, <2>2, <2>3 DEF RecoveryInv
<1> QED
  BY <1>1, <1>2, <1>3, <1>4, <1>5, <1>6 DEF CrashNext, Run

\* Wherever crashes fall between the deletions, however often, and whatever the
\* order of the index: the run that gets to its end leaves a sound base.
THEOREM RecoveredAfterCrash == CrashSpec => []CrashRecovers
<1>1. TypeOK /\ RecoveryInv /\ [CrashNext]_vars => TypeOK' /\ RecoveryInv'
  <2>1. TypeOK /\ [CrashNext]_vars => TypeOK'
    BY StepType DEF CrashNext, Next
  <2> QED
    BY <2>1, StepRecoveryInv
<1>2. RecoveryInv => CrashRecovers
  BY DEF RecoveryInv, Sound, CrashRecovers
<1> QED
  BY InitType, InitRecoveryInv, <1>1, <1>2, PTL DEF CrashSpec
=============================================================================
