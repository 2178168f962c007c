----------------------------- MODULE PackFix_proofs -----------------------------
(***************************************************************************)
(* Proofs about pack and fix.  The first part is about SquishRepair: for   *)
(* any messages with texts of any length, any index, and every             *)
(* interleaving of pack and fix with the tosser.  The second one is about  *)
(* PackFiles: for any number of parts, of packers, of files and of         *)
(* messages, and for every interleaving with the tosser and with crashes.  *)
(***************************************************************************)
EXTENDS PackFiles, SquishRepair, DateSort_proofs

-----------------------------------------------------------------------------
(* The inductive invariant of SquishRepair: the file and its index. *)

\* No XMSG is twice in a file.
OnceIn(file) ==
  \A p, q \in 1 .. Len(file) : file[p].part = "xmsg" /\ file[p] = file[q] => p = q

\* The last cell of a frame.
LastCell(file, p) == p + file[p].frame_length

\* The frame of an entry, unless it is an entry without one, is in front of the end, and
\* apart from those of the other entries.
EntrySound(file, idx, end, k) ==
  /\ idx[k].ofs >= FIRST /\ IsHdr(file, idx[k].ofs) /\ LastCell(file, idx[k].ofs) < end
  /\ \A j \in 1 .. Len(idx) :
       j # k /\ idx[j].ofs # 0
         => \/ LastCell(file, idx[j].ofs) < idx[k].ofs
            \/ LastCell(file, idx[k].ofs) < idx[j].ofs

IndexSound(file, idx, end) ==
  \A k \in 1 .. Len(idx) : idx[k].ofs # 0 => EntrySound(file, idx, end, k)

\* No message is behind the end,
NoneBehind(file, end) ==
  \A p \in 1 .. Len(file) : file[p].part \in {"xmsg", "text"} => p < end

\* and nothing is missing in front of it.
EndSound(file, end) == end >= FIRST /\ end <= Len(file) + 1 /\ NoneBehind(file, end)

\* How much of a frame the tosser has written, and where it goes on.
Tossed == IF tossing = << >> THEN 0 ELSE tossing[2]

TossEnd == end_frame + Tossed

TossingSound ==
  tossing # << >> =>
    LET cells == Frame(tossing[1], "normal")
    IN  /\ doing \in {"idle", "fix", "fixed"} /\ TossEnd <= Len(sqd) + 1
        /\ tossing[1] \notin gone
        /\ tossing[2] \in 1 .. Len(cells)
        /\ \A d \in 1 .. tossing[2] : sqd[end_frame + d - 1] = cells[d]
        /\ tossing[2] = 1 => tossing[1] \notin Stored(sqd)

FileSound ==
  /\ OnceIn(sqd) /\ IndexSound(sqd, sqi, end_frame) /\ end_frame >= FIRST
  /\ NoneBehind(sqd, TossEnd)
  /\ damaged = 0 => EndSound(sqd, TossEnd)
  /\ TossingSound

Idle ==
  /\ doing \notin {"pack", "packed"} => NoPack
  /\ doing \notin {"fix", "fixed"} => NoFix
  /\ doing \in {"pack", "packed"} => tossing = << >> /\ damaged = 0

GoneSound ==
  /\ gone \cap Stored(sqd) = {}
  /\ \A k \in 1 .. Len(newbase), m \in gone : newbase[k].xmsg # XMSG(m)

-----------------------------------------------------------------------------
(* Pack. *)

NewOfs(k) == newsqi[k].ofs

EntryCopied(k) ==
  LET made == NewOfs(Place(k))
      src == sqi[k].ofs
  IN  /\ newsqi[Place(k)].umsgid = sqi[k].umsgid
      /\ newsqd[made].msg = sqd[src].msg
      /\ newsqd[made].frame_length = sqd[src].frame_length
      /\ \A d \in 1 .. sqd[src].frame_length : newsqd[made + d] = sqd[src + d]

Copied ==
  /\ Len(newsqi) = Place(i) /\ sqbase.num_msg = Place(i)
  /\ \A k \in 1 .. i : IsLive(k) => EntryCopied(k)

\* The new frames are one behind the other, and linked.
Chained ==
  LET n == Len(newsqi)
  IN  /\ \A k \in 1 .. n :
           /\ NewOfs(k) >= FIRST /\ IsHdr(newsqd, NewOfs(k))
           /\ newsqd[NewOfs(k)].prev_frame = IF k = 1 THEN 0 ELSE NewOfs(k - 1)
           /\ newsqd[NewOfs(k)].next_frame = LastCell(newsqd, NewOfs(k)) + 1
           /\ LastCell(newsqd, NewOfs(k)) + 1 = IF k = n THEN Len(newsqd) + 1 ELSE NewOfs(k + 1)
           /\ \A j \in 1 .. k - 1 : LastCell(newsqd, NewOfs(j)) < NewOfs(k)
      /\ IF n = 0 THEN Len(newsqd) = SQBASE_SIZE ELSE NewOfs(1) = FIRST
      /\ sqbase.begin_frame = FIRST /\ sqbase.end_frame = Len(newsqd) + 1
      /\ n # 0 => sqbase.last_frame = NewOfs(n)

\* Where each new XMSG is from.
Origins(n) ==
  \A q \in 1 .. Len(newsqd) :
    newsqd[q].part = "xmsg" =>
      \E k \in 1 .. n :
         /\ IsLive(k)
         /\ \E d \in 1 .. sqd[sqi[k].ofs].frame_length :
              q = NewOfs(Place(k)) + d /\ newsqd[q] = sqd[sqi[k].ofs + d]

InOrder == \A j, k \in 1 .. Len(sqi) : j < k => sqi[j].ofs < sqi[k].ofs \/ sqi[k].ofs = 0

NotReached ==
  InOrder => \A k \in i + 1 .. Len(sqi) : sqi[k].ofs # 0 => Len(newsqd) < sqi[k].ofs

\* What is in sqidx.
LastRead ==
  IF i = 0 THEN sqi # << >> => sqidx = 0
  ELSE /\ sqidx = IF IsLive(i) THEN sqbase.last_frame ELSE sqi[i].ofs
       /\ ~IsLive(i) /\ InOrder /\ sqidx # 0 => Len(newsqd) < sqidx

PackLoop == Copied /\ Chained /\ Origins(i) /\ NotReached /\ LastRead

NewSound ==
  /\ OnceIn(newsqd) /\ IndexSound(newsqd, newsqi, sqbase.end_frame)
  /\ EndSound(newsqd, sqbase.end_frame)
  /\ Stored(newsqd) \subseteq Stored(sqd)

PackSound ==
  /\ doing = "pack" => PackLoop
  /\ doing = "packed" => Packed /\ NewSound

-----------------------------------------------------------------------------
(* Fix. *)

StillWhole(p) ==
  /\ p < EndPos /\ IsWhole(p) /\ sqd[p].msg = whole[p].msg
  /\ whole[p].clean => IsClean(p)
  /\ p + 1 # pos

Refused(p) == XMSG(whole[p].msg) \in ToSet(refused)

Stands(p) ==
  IF p < pos THEN IF Refused(p) THEN FixedAt(p) = {}
                  ELSE \E k \in 1 .. Len(newbase) : FixedAt(p) = {k}
  ELSE FixedAt(p) = {} /\ ~Refused(p)

TextsOwn(p) ==
  whole[p].clean /\ OneLine(whole[p].msg) =>
    \A k \in FixedAt(p) : IsOwn(newbase[k], whole[p].msg)

FixLoop ==
  /\ pos >= 1
  /\ \A p \in DOMAIN whole :
       /\ StillWhole(p) /\ Stands(p)
       /\ TextsOwn(p)
  /\ \A p, q \in DOMAIN whole : \A j \in FixedAt(p), k \in FixedAt(q) : p < q => j < k

FixSound ==
  /\ doing = "fix" => FixLoop
  /\ Fixed

RepairInv == RepairTypeOK /\ FileSound /\ Idle /\ GoneSound /\ PackSound /\ FixSound

-----------------------------------------------------------------------------
(* Cells, frames and files. *)

LEMMA CellFacts ==
  ASSUME NEW c \in Cell
  PROVE  /\ c.part \in {"base", "junk", "hole", "hdr", "xmsg", "text"}
         /\ c.part = "hdr" => c \in Header
         /\ c.part = "xmsg" => c.msg \in Msgs /\ c = XMSG(c.msg)
         /\ c.part = "text" => c.msg \in Msgs
         /\ \A m : c = XMSG(m) => c.part = "xmsg" /\ m = c.msg
         /\ \A m, k : c = Text(m, k) => c.part = "text" /\ m = c.msg /\ k = c.at
         /\ c = Hole => c.part = "hole"
         /\ c = Junk => c.part = "junk"
<1>1. CASE c \in {BaseCell, Junk, Hole}
  BY <1>1 DEF BaseCell, Junk, Hole, XMSG, Text
<1>2. CASE c \in Header
  BY <1>2 DEF Header, BaseCell, Junk, Hole, XMSG, Text
<1>3. CASE c \in [part : {"xmsg"}, msg : Msgs]
  BY <1>3 DEF BaseCell, Junk, Hole, XMSG, Text
<1>4. CASE c \in [part : {"text"}, msg : Msgs, at : Nat]
  BY <1>4 DEF BaseCell, Junk, Hole, XMSG, Text
<1> QED
  BY <1>1, <1>2, <1>3, <1>4 DEF Cell

LEMMA CellsAre ==
  /\ BaseCell \in Cell /\ Junk \in Cell /\ Hole \in Cell
  /\ BaseCell.part = "base" /\ Junk.part = "junk" /\ Hole.part = "hole"
  /\ \A m \in Msgs : XMSG(m) \in Cell /\ XMSG(m).part = "xmsg" /\ XMSG(m).msg = m
  /\ \A m \in Msgs, k \in Nat : /\ Text(m, k) \in Cell /\ Text(m, k).part = "text"
                                /\ Text(m, k).msg = m /\ Text(m, k).at = k
  /\ \A h \in Header : h \in Cell /\ h.part = "hdr"
BY DEF Cell, Header, BaseCell, Junk, Hole, XMSG, Text

LEMMA HeaderFacts ==
  ASSUME NEW h \in Header
  PROVE  /\ h.msg \in Msgs /\ h.frame_length \in Nat
         /\ h.prev_frame \in Nat /\ h.next_frame \in Nat
         /\ h.frame_type \in {"normal", "free"}
         /\ LET made == [h EXCEPT !.next_frame = 0]
            IN  /\ made \in Header /\ made.msg = h.msg
                /\ made.frame_length = h.frame_length
                /\ made.prev_frame = h.prev_frame /\ made.next_frame = 0
BY DEF Header

Relinked(c, prev, to) == [c EXCEPT !.prev_frame = prev, !.next_frame = to]

LEMMA RelinkedFacts ==
  ASSUME NEW c \in Header, NEW prev \in Nat, NEW to \in Nat
  PROVE  /\ Relinked(c, prev, to) \in Header
         /\ Relinked(c, prev, to).msg = c.msg
         /\ Relinked(c, prev, to).frame_length = c.frame_length
         /\ Relinked(c, prev, to).prev_frame = prev
         /\ Relinked(c, prev, to).next_frame = to
BY DEF Header, Relinked

\* A header in a file.
LEMMA HdrAt ==
  ASSUME NEW file \in Seq(Cell), NEW p, IsHdr(file, p)
  PROVE  /\ p \in 1 .. Len(file) /\ file[p] \in Header
         /\ file[p].frame_length \in Nat /\ file[p].msg \in Msgs
         /\ file[p].prev_frame \in Nat /\ file[p].next_frame \in Nat
         /\ file[p].frame_type \in {"normal", "free"}
<1>1. p \in 1 .. Len(file) /\ file[p] \in Cell /\ file[p].part = "hdr"
  BY ElementOfSeq DEF IsHdr
<1>2. file[p] \in Header
  BY <1>1, CellFacts
<1> QED
  BY <1>1, <1>2, HeaderFacts

LEMMA LastIs ==
  ASSUME NEW file \in Seq(Cell), NEW p, IsHdr(file, p)
  PROVE  LastCell(file, p) \in Nat /\ LastCell(file, p) >= p /\ p \in Nat \ {0}
<1>1. p \in 1 .. Len(file) /\ file[p].frame_length \in Nat /\ Len(file) \in Nat
  BY HdrAt
<1>2. p \in Nat /\ p >= 1
  BY <1>1
<1> QED
  BY <1>1, <1>2 DEF LastCell

\* The cells of a frame: its SQHDR, its XMSG, its text.
LEMMA FrameFacts ==
  ASSUME NEW m \in Msgs, NEW type \in {"normal", "free"}
  PROVE  /\ TextLen[m] \in Nat /\ Frame(m, type) \in Seq(Cell)
         /\ Len(Frame(m, type)) = 2 + TextLen[m]
         /\ Frame(m, type)[1] = SQHDR(m, 0, 0, type)
         /\ Frame(m, type)[2] = XMSG(m)
         /\ \A k \in 1 .. TextLen[m] : Frame(m, type)[k + 2] = Text(m, k)
         /\ SQHDR(m, 0, 0, type) \in Header
         /\ SQHDR(m, 0, 0, type).msg = m
         /\ SQHDR(m, 0, 0, type).frame_type = type
         /\ SQHDR(m, 0, 0, type).frame_length = 1 + TextLen[m]
<1> DEFINE front == << SQHDR(m, 0, 0, type), XMSG(m) >>
<1>1. TextLen[m] \in Nat
  BY SquishFileAssumption
<1>2. /\ SQHDR(m, 0, 0, type) \in Header
      /\ SQHDR(m, 0, 0, type).msg = m
      /\ SQHDR(m, 0, 0, type).frame_type = type
      /\ SQHDR(m, 0, 0, type).frame_length = 1 + TextLen[m]
  BY <1>1 DEF SQHDR, Header, XMSG_SIZE
<1>3. Texts(m) \in Seq(Cell) /\ Len(Texts(m)) = TextLen[m]
      /\ \A k \in 1 .. TextLen[m] : Texts(m)[k] = Text(m, k)
  BY <1>1, CellsAre DEF Texts
<1>4. front \in Seq(Cell) /\ Len(front) = 2 /\ front[1] = SQHDR(m, 0, 0, type)
      /\ front[2] = XMSG(m)
  BY <1>2, CellsAre
<1> HIDE DEF front
<1>5. /\ front \o Texts(m) \in Seq(Cell)
      /\ Len(front \o Texts(m)) = Len(front) + Len(Texts(m))
      /\ \A j \in 1 .. Len(front) + Len(Texts(m)) :
           (front \o Texts(m))[j] = IF j <= Len(front) THEN front[j]
                                    ELSE Texts(m)[j - Len(front)]
  BY <1>3, <1>4, ConcatProperties
<1> DEFINE all == front \o Texts(m)
<1>6. Frame(m, type) = all
  BY DEF Frame, front
<1> HIDE DEF all
<1>7. all[1] = front[1] /\ all[2] = front[2]
  BY <1>1, <1>3, <1>4, <1>5 DEF all
<1>8. \A k \in 1 .. TextLen[m] : all[k + 2] = Text(m, k)
  BY <1>1, <1>3, <1>4, <1>5 DEF all
<1> QED
  BY <1>1, <1>2, <1>3, <1>4, <1>5, <1>6, <1>7, <1>8 DEF all

\* A cell written to a file, with a hole in front of it if it is behind the end.
IsWritten(made, file, p, c) ==
  /\ Len(made) \in Nat /\ Len(made) >= p /\ Len(made) >= Len(file)
  /\ Len(made) = IF p > Len(file) THEN p ELSE Len(file)
  /\ made[p] = c
  /\ \A q \in 1 .. Len(file) : q # p => made[q] = file[q]
  /\ \A q \in 1 .. Len(made) : q # p /\ q > Len(file) => made[q] = Hole

LEMMA WrittenCell ==
  ASSUME NEW file \in Seq(Cell), NEW p \in Nat \ {0}, NEW c \in Cell
  PROVE  /\ Written(file, p, << c >>) \in Seq(Cell)
         /\ IsWritten(Written(file, p, << c >>), file, p, c)
<1> DEFINE cells == << c >>
           made == Written(file, p, << c >>)
           n == IF p > Len(file) THEN p ELSE Len(file)
<1>1. Len(cells) = 1 /\ cells[1] = c
  OBVIOUS
<1>2. Len(file) \in Nat /\ \A q \in 1 .. Len(file) : file[q] \in Cell
  BY LenProperties, ElementOfSeq
<1> HIDE DEF cells
<1>3. (IF p + Len(cells) - 1 > Len(file) THEN p + Len(cells) - 1 ELSE Len(file)) = n
      /\ p + Len(cells) - 1 = p
  BY <1>1, <1>2
<1>4. made = [q \in 1 .. n |-> IF q \in p .. p THEN cells[q - p + 1]
                               ELSE IF q <= Len(file) THEN file[q] ELSE Hole]
  BY <1>3 DEF Written, cells
<1> HIDE DEF made
<1>5. n \in Nat
  BY <1>2
<1>6. \A q \in 1 .. n : made[q] = IF q = p THEN c
                                  ELSE IF q <= Len(file) THEN file[q] ELSE Hole
  BY <1>1, <1>2, <1>4, <1>5
<1>7. \A q \in 1 .. n : made[q] \in Cell
  BY <1>2, <1>6, CellsAre
<1>8. made \in Seq(Cell) /\ Len(made) = n
  <2>1. made \in [1 .. n -> Cell]
    <3>1. DOMAIN made = 1 .. n /\ made = [q \in DOMAIN made |-> made[q]]
      BY <1>4
    <3> HIDE DEF n
    <3> QED
      BY <3>1, <1>7
  <2> HIDE DEF n
  <2> QED
    BY <2>1, <1>5
<1>9. IsWritten(made, file, p, c)
  <2>1. made[p] = c
    BY <1>2, <1>6
  <2>2. \A q \in 1 .. Len(file) : q # p => made[q] = file[q]
    BY <1>2, <1>6
  <2>3. \A q \in 1 .. n : q # p /\ q > Len(file) => made[q] = Hole
    BY <1>2, <1>6
  <2> QED
    BY <2>1, <2>2, <2>3, <1>2, <1>8 DEF IsWritten
<1> QED
  BY <1>8, <1>9 DEF made

-----------------------------------------------------------------------------
(* The tosser and disasters. *)

LEMMA FileFacts ==
  ASSUME RepairTypeOK
  PROVE  /\ Len(sqd) \in Nat /\ \A p \in 1 .. Len(sqd) : sqd[p] \in Cell
         /\ Len(sqi) \in Nat /\ end_frame \in Nat /\ damaged \in Nat
         /\ \A k \in 1 .. Len(sqi) : /\ sqi[k] \in [ofs : Nat, umsgid : Nat]
                                     /\ sqi[k].ofs \in Nat /\ sqi[k].umsgid \in Nat
         /\ \A p \in 1 .. Len(sqd) : IsHdr(sqd, p) => sqd[p] \in Header
<1>1. sqd \in Seq(Cell) /\ sqi \in Seq([ofs : Nat, umsgid : Nat])
  BY DEF RepairTypeOK, FileType
<1>2. Len(sqd) \in Nat /\ Len(sqi) \in Nat /\ \A p \in 1 .. Len(sqd) : sqd[p] \in Cell
  BY <1>1, LenProperties, ElementOfSeq
<1>3. \A k \in 1 .. Len(sqi) : sqi[k] \in [ofs : Nat, umsgid : Nat]
  BY <1>1, ElementOfSeq
<1>4. end_frame \in Nat /\ damaged \in Nat
  BY SquishFileAssumption DEF RepairTypeOK, FileType
<1>5. \A p \in 1 .. Len(sqd) : IsHdr(sqd, p) => sqd[p] \in Header
  BY <1>2, CellFacts DEF IsHdr
<1> QED
  BY <1>2, <1>3, <1>4, <1>5

\* A cell that the tosser does not write.
IsKept(q) ==
  IF q <= Len(sqd) THEN q \in 1 .. Len(sqd) /\ sqd'[q] = sqd[q]
  ELSE sqd'[q] = Hole

\* The cell that the tosser writes is the next one of its frame, at the end of what
\* there is of messages.
LEMMA TossFacts ==
  ASSUME RepairTypeOK, FileSound, NEW m \in Msgs, TossCell(m)
  PROVE  /\ doing \in {"idle", "fix"} /\ damaged' = damaged
         /\ end_frame' = end_frame /\ sqi' = sqi
         /\ Tossed \in 0 .. 1 + TextLen[m] /\ TextLen[m] \in Nat
         /\ TossEnd \in Nat /\ TossEnd >= 2 /\ end_frame <= TossEnd
         /\ tossing # << >> \/ damaged = 0 => TossEnd <= Len(sqd) + 1
         /\ tossing = << >> \/ tossing = << m, Tossed >>
         /\ tossing = << >> <=> Tossed = 0
         /\ tossing' = << m, Tossed + 1 >> /\ Tossed' = Tossed + 1
         /\ TossEnd' = TossEnd + 1
         /\ sqd' \in Seq(Cell) /\ Len(sqd') \in Nat
         /\ Len(sqd') >= Len(sqd) /\ Len(sqd') >= TossEnd
         /\ \A q \in 1 .. Len(sqd') : q # TossEnd => IsKept(q)
         /\ sqd'[TossEnd] = Frame(m, "normal")[Tossed + 1]
         /\ sqd'[TossEnd] \in Cell
         /\ Len(sqd') = IF TossEnd > Len(sqd) THEN TossEnd ELSE Len(sqd)
         /\ tossing = << >> => m \notin Stored(sqd)
<1> DEFINE cells == Frame(m, "normal")
           c == cells[Tossed + 1]
<1>0. /\ Len(sqd) \in Nat /\ end_frame \in Nat /\ sqd \in Seq(Cell)
      /\ tossing = << >> \/ tossing \in Msgs \X Nat
  BY FileFacts DEF RepairTypeOK, FileType
<1>1. /\ doing \in {"idle", "fix"}
      /\ IF tossing = << >> THEN m \notin Stored(sqd) ELSE m = tossing[1]
      /\ Tossed < Len(cells)
      /\ sqd' = Written(sqd, end_frame + Tossed, << c >>)
      /\ tossing' = << m, Tossed + 1 >>
      /\ end_frame' = end_frame /\ sqi' = sqi /\ damaged' = damaged
  BY DEF TossCell, Tossed
<1>2. /\ TextLen[m] \in Nat /\ cells \in Seq(Cell) /\ Len(cells) = 2 + TextLen[m]
  BY FrameFacts
<1>3. tossing # << >> => tossing[2] \in 1 .. Len(cells) /\ tossing = << m, tossing[2] >>
  <2> SUFFICES ASSUME tossing # << >>
               PROVE  tossing[2] \in 1 .. Len(cells) /\ tossing = << m, tossing[2] >>
    OBVIOUS
  <2>1. m = tossing[1] /\ tossing \in Msgs \X Nat
    BY <1>0, <1>1
  <2>2. tossing[2] \in 1 .. Len(Frame(tossing[1], "normal"))
    BY DEF FileSound, TossingSound
  <2> QED
    BY <2>1, <2>2
<1>4. /\ Tossed \in 0 .. 1 + TextLen[m] /\ (tossing = << >> <=> Tossed = 0)
      /\ tossing = << >> \/ tossing = << m, Tossed >>
  BY <1>1, <1>2, <1>3 DEF Tossed
<1>5. /\ TossEnd \in Nat /\ TossEnd >= 2 /\ TossEnd = end_frame + Tossed
      /\ end_frame <= TossEnd
  BY <1>0, <1>4 DEF FileSound, TossEnd, FIRST, SQBASE_SIZE
<1>12. tossing # << >> \/ damaged = 0 => TossEnd <= Len(sqd) + 1
  BY DEF FileSound, EndSound, TossingSound
<1>6. c \in Cell
  BY <1>2, <1>4, ElementOfSeq
<1>7. sqd' \in Seq(Cell) /\ IsWritten(sqd', sqd, TossEnd, c)
  <2>1. sqd' = Written(sqd, TossEnd, << c >>) /\ TossEnd \in Nat \ {0}
    BY <1>0, <1>1, <1>5
  <2> HIDE DEF c
  <2> QED
    BY <2>1, <1>0, <1>6, WrittenCell
<1>10. /\ Len(sqd') \in Nat /\ Len(sqd') >= Len(sqd) /\ Len(sqd') >= TossEnd
       /\ Len(sqd') = IF TossEnd > Len(sqd) THEN TossEnd ELSE Len(sqd)
       /\ sqd'[TossEnd] = c
  BY <1>0, <1>5, <1>7 DEF IsWritten
<1>11. ASSUME NEW q \in 1 .. Len(sqd'), q # TossEnd
       PROVE  IsKept(q)
  <2>1. CASE q <= Len(sqd)
    <3>1. q \in 1 .. Len(sqd)
      BY <1>0, <1>10, <2>1
    <3> QED
      BY <3>1, <2>1, <1>7, <1>11 DEF IsWritten, IsKept
  <2>2. CASE ~(q <= Len(sqd))
    <3>1. q > Len(sqd)
      BY <1>0, <1>10, <2>2
    <3> QED
      BY <3>1, <2>2, <1>7, <1>11 DEF IsWritten, IsKept
  <2> QED
    BY <2>1, <2>2
<1>8. Tossed' = Tossed + 1
  BY <1>1, <1>4 DEF Tossed
<1>9. TossEnd' = TossEnd + 1
  BY <1>0, <1>1, <1>4, <1>8 DEF TossEnd
<1> QED
  BY <1>0, <1>1, <1>2, <1>4, <1>5, <1>6, <1>7, <1>8, <1>9, <1>10, <1>11, <1>12

LEMMA TossFileSound ==
  ASSUME RepairTypeOK, FileSound, NEW m \in Msgs \ gone, TossCell(m), doing' = doing, gone' = gone
  PROVE  FileSound'
<1>0. RepairTypeOK /\ FileSound /\ m \in Msgs /\ TossCell(m)
  OBVIOUS
<1>1. /\ doing \in {"idle", "fix"} /\ damaged' = damaged
      /\ end_frame' = end_frame /\ sqi' = sqi
      /\ Tossed \in 0 .. 1 + TextLen[m] /\ TextLen[m] \in Nat
      /\ TossEnd \in Nat /\ TossEnd >= 2 /\ end_frame <= TossEnd
      /\ tossing = << >> \/ tossing = << m, Tossed >>
      /\ tossing = << >> <=> Tossed = 0
      /\ tossing' = << m, Tossed + 1 >> /\ TossEnd' = TossEnd + 1
      /\ tossing = << >> => m \notin Stored(sqd)
  BY <1>0, TossFacts
<1>2. /\ sqd' \in Seq(Cell) /\ Len(sqd') \in Nat
      /\ Len(sqd') >= Len(sqd) /\ Len(sqd') >= TossEnd
      /\ Len(sqd) \in Nat /\ \A q \in 1 .. Len(sqd) : q # TossEnd => sqd'[q] = sqd[q]
      /\ \A q \in 1 .. Len(sqd') : q # TossEnd =>
           (q \in 1 .. Len(sqd) /\ sqd'[q] = sqd[q]) \/ sqd'[q].part = "hole"
      /\ sqd'[TossEnd] = Frame(m, "normal")[Tossed + 1] /\ sqd'[TossEnd] \in Cell
  <2>1. /\ \A q \in 1 .. Len(sqd') : q # TossEnd => IsKept(q)
        /\ sqd' \in Seq(Cell) /\ Len(sqd') \in Nat
        /\ Len(sqd') >= Len(sqd) /\ Len(sqd') >= TossEnd
        /\ sqd'[TossEnd] = Frame(m, "normal")[Tossed + 1] /\ sqd'[TossEnd] \in Cell
    BY <1>0, TossFacts
  <2>2. Len(sqd) \in Nat
    BY <1>0, FileFacts
  <2>3. \A q \in 1 .. Len(sqd) : q # TossEnd => sqd'[q] = sqd[q]
    BY <2>1, <2>2 DEF IsKept
  <2>4. \A q \in 1 .. Len(sqd') : q # TossEnd =>
          (q \in 1 .. Len(sqd) /\ sqd'[q] = sqd[q]) \/ sqd'[q].part = "hole"
    BY <2>1, CellsAre DEF IsKept
  <2> QED
    BY <2>1, <2>2, <2>3, <2>4
<1> DEFINE c == Frame(m, "normal")[Tossed + 1]
<1>3. /\ Tossed = 0 => c.part = "hdr" /\ c = SQHDR(m, 0, 0, "normal")
      /\ Tossed = 1 => c = XMSG(m)
      /\ Tossed > 1 => c = Text(m, Tossed - 1)
  BY <1>1, FrameFacts, CellsAre
<1>4. /\ Tossed = 0 => c.part = "hdr"
      /\ Tossed = 1 => c.part = "xmsg"
      /\ Tossed > 1 => c.part = "text"
  BY <1>1, <1>3, CellsAre
<1>5. Tossed = 1 => m \notin Stored(sqd)
  BY <1>1 DEF FileSound, TossingSound
<1>6. /\ OnceIn(sqd) /\ IndexSound(sqd, sqi, end_frame) /\ NoneBehind(sqd, TossEnd)
      /\ Len(sqd) \in Nat /\ end_frame \in Nat
      /\ Len(sqi) \in Nat /\ \A k \in 1 .. Len(sqi) : sqi[k].ofs \in Nat
  BY <1>1, FileFacts DEF FileSound
<1>10. sqd'[TossEnd] = c
  BY <1>2
<1> HIDE DEF c
<1>7. OnceIn(sqd')
  <2> SUFFICES ASSUME NEW p \in 1 .. Len(sqd'), NEW q \in 1 .. Len(sqd'),
                      sqd'[p].part = "xmsg", sqd'[p] = sqd'[q], p # q
               PROVE  FALSE
    BY DEF OnceIn
  <2>1. ASSUME NEW r \in 1 .. Len(sqd'), r # TossEnd, sqd'[r] = c, c.part = "xmsg"
        PROVE  FALSE
    <3>1. Tossed = 1 /\ c = XMSG(m)
      BY <1>1, <1>3, <1>4, <2>1
    <3>2. r \in 1 .. Len(sqd) /\ sqd[r] = XMSG(m)
      BY <1>2, <1>4, <2>1, <3>1
    <3> QED
      BY <1>5, <3>1, <3>2 DEF Stored
  <2>2. CASE p = TossEnd
    BY <1>10, <2>1, <2>2
  <2>3. CASE q = TossEnd
    BY <1>10, <2>1, <2>3
  <2>4. CASE p # TossEnd /\ q # TossEnd
    <3>1. /\ p \in 1 .. Len(sqd) /\ sqd'[p] = sqd[p]
          /\ q \in 1 .. Len(sqd) /\ sqd'[q] = sqd[q]
      BY <1>2, <2>4
    <3> QED
      BY <3>1, <1>6 DEF OnceIn
  <2> QED
    BY <2>2, <2>3, <2>4
<1>8. IndexSound(sqd', sqi, end_frame)
  <2>1. ASSUME NEW k \in 1 .. Len(sqi), sqi[k].ofs # 0
        PROVE  /\ IsHdr(sqd', sqi[k].ofs) /\ sqd'[sqi[k].ofs] = sqd[sqi[k].ofs]
               /\ sqi[k].ofs >= FIRST /\ LastCell(sqd, sqi[k].ofs) < end_frame
    <3>1. /\ sqi[k].ofs >= FIRST /\ IsHdr(sqd, sqi[k].ofs) /\ sqi[k].ofs \in Nat
          /\ sqi[k].ofs + sqd[sqi[k].ofs].frame_length < end_frame
      BY <1>6, <2>1 DEF IndexSound, EntrySound, LastCell
    <3>2. sqi[k].ofs \in 1 .. Len(sqd) /\ sqd[sqi[k].ofs].frame_length \in Nat
      BY <3>1, HdrAt DEF RepairTypeOK, FileType
    <3> DEFINE ofs == sqi[k].ofs
               length == sqd[sqi[k].ofs].frame_length
    <3>3. /\ ofs \in 1 .. Len(sqd) /\ length \in Nat /\ ofs + length < end_frame
          /\ end_frame \in Nat /\ end_frame <= TossEnd /\ TossEnd \in Nat
          /\ Len(sqd) \in Nat /\ Len(sqd') \in Nat /\ Len(sqd') >= Len(sqd)
      BY <1>1, <1>2, <1>6, <3>1, <3>2
    <3> HIDE DEF ofs, length
    <3>4. ofs \in 1 .. Len(sqd') /\ ofs # TossEnd
      BY <3>3
    <3> QED
      BY <1>2, <3>1, <3>4 DEF IsHdr, LastCell, ofs
  <2> QED
    BY <2>1, <1>6 DEF IndexSound, EntrySound, LastCell
<1>9. NoneBehind(sqd', TossEnd + 1) /\ EndSound(sqd', TossEnd + 1)
  <2>1. TossEnd + 1 >= FIRST /\ TossEnd + 1 <= Len(sqd') + 1
    BY <1>1, <1>2 DEF FIRST, SQBASE_SIZE
  <2>2. ASSUME NEW p \in 1 .. Len(sqd'), sqd'[p].part \in {"xmsg", "text"}
        PROVE  p < TossEnd + 1
    <3>1. CASE p = TossEnd
      BY <3>1, <1>1
    <3>2. CASE p # TossEnd
      <4>1. p \in 1 .. Len(sqd) /\ sqd'[p] = sqd[p]
        BY <1>2, <2>2, <3>2
      <4>2. p < TossEnd
        BY <1>6, <2>2, <4>1 DEF NoneBehind
      <4> QED
        BY <4>1, <4>2, <1>1, <1>6
    <3> QED
      BY <3>1, <3>2
  <2> QED
    BY <2>1, <2>2 DEF EndSound, NoneBehind
<1>11. TossingSound'
  <2>1. tossing'[1] = m /\ tossing'[2] = Tossed + 1
    BY <1>1
  <2>2. /\ doing' \in {"idle", "fix", "fixed"} /\ TossEnd' <= Len(sqd') + 1
        /\ m \notin gone' /\ Tossed + 1 \in 1 .. Len(Frame(m, "normal"))
    BY <1>1, <1>2, FrameFacts
  <2>3. ASSUME NEW d \in 1 .. Tossed + 1
        PROVE  sqd'[end_frame' + d - 1] = Frame(m, "normal")[d]
    <3>1. CASE d = Tossed + 1
      <4>1. end_frame' + d - 1 = TossEnd
        BY <3>1, <1>1, <1>6 DEF TossEnd
      <4> QED
        BY <4>1, <3>1, <1>2
    <3>2. CASE d # Tossed + 1
      <4>1. d \in 1 .. Tossed /\ tossing # << >> /\ tossing[1] = m /\ tossing[2] = Tossed
        BY <1>1, <3>2
      <4>2. sqd[end_frame + d - 1] = Frame(m, "normal")[d]
        BY <4>1 DEF FileSound, TossingSound
      <4>3. /\ end_frame' + d - 1 = end_frame + d - 1
            /\ end_frame + d - 1 \in 1 .. Len(sqd') /\ end_frame + d - 1 # TossEnd
        <5>1. end_frame >= 2
          BY DEF FileSound, FIRST, SQBASE_SIZE
        <5>2. /\ TossEnd = end_frame + Tossed /\ TossEnd \in Nat /\ end_frame \in Nat
              /\ Tossed \in Nat /\ Len(sqd') \in Nat /\ Len(sqd') >= TossEnd
              /\ d \in Nat /\ d >= 1 /\ d <= Tossed
          BY <1>1, <1>2, <1>6, <4>1 DEF TossEnd
        <5>3. end_frame + d - 1 \in 1 .. Len(sqd') /\ end_frame + d - 1 # TossEnd
          BY <5>1, <5>2
        <5> QED
          BY <5>3, <1>1
      <4> QED
        <5>1. end_frame + d - 1 \in 1 .. Len(sqd)
          <6>1. TossEnd <= Len(sqd) + 1
            BY <4>1 DEF FileSound, TossingSound
          <6> QED
            BY <6>1, <4>1, <4>3, <1>1, <1>2, <1>6 DEF TossEnd
        <5> QED
          BY <5>1, <4>2, <4>3, <1>2
    <3> QED
      BY <3>1, <3>2
  <2>4. ASSUME Tossed + 1 = 1 PROVE m \notin Stored(sqd')
    <3>1. Tossed = 0 /\ m \notin Stored(sqd)
      BY <1>1, <2>4
    <3>2. sqd'[TossEnd].part = "hdr"
      BY <1>10, <1>4, <3>1
    <3>3. \A p \in 1 .. Len(sqd') : sqd'[p] # XMSG(m)
      BY <1>2, <3>1, <3>2, CellsAre DEF Stored
    <3> QED
      BY <3>3 DEF Stored
  <2> QED
    BY <2>1, <2>2, <2>3, <2>4 DEF TossingSound
<1> QED
  BY <1>1, <1>7, <1>8, <1>9, <1>11 DEF FileSound
\* What the tosser writes leaves a whole message whole, and a clean one clean: behind its
\* text the tosser writes nothing but the header of its frame.
LEMMA TossStillWhole ==
  ASSUME RepairTypeOK, FileSound, NEW m \in Msgs, TossCell(m),
         NEW p \in 1 .. Len(sqd), IsWhole(p)
  PROVE  /\ IsWhole(p)' /\ sqd'[p] = sqd[p]
         /\ IsClean(p) => IsClean(p)'
<1> DEFINE w == TossEnd
           msg == sqd[p].msg
           n == TextLen[msg]
<1>0. RepairTypeOK /\ FileSound /\ m \in Msgs /\ TossCell(m)
  OBVIOUS
<1>1. /\ w \in Nat /\ w >= 2 /\ Len(sqd) \in Nat /\ Len(sqd') \in Nat
      /\ tossing # << >> => w <= Len(sqd) + 1
      /\ Len(sqd') >= Len(sqd) /\ Len(sqd') >= w
      /\ Len(sqd') = IF w > Len(sqd) THEN w ELSE Len(sqd)
      /\ \A q \in 1 .. Len(sqd') : q # w => IsKept(q)
      /\ sqd'[w] = Frame(m, "normal")[Tossed + 1]
  BY <1>0, TossFacts, FileFacts
<1>10. /\ \A q \in 1 .. Len(sqd) : q # w => sqd'[q] = sqd[q]
       /\ \A q \in 1 .. Len(sqd') : q # w /\ q > Len(sqd) => sqd'[q] = Hole
  BY <1>1 DEF IsKept
<1>2. /\ OnceIn(sqd) /\ NoneBehind(sqd, w) /\ end_frame \in Nat /\ end_frame >= 2
  BY <1>0, <1>1, FileFacts DEF FileSound, FIRST, SQBASE_SIZE
<1>3. /\ Tossed \in 0 .. 1 + TextLen[m] /\ TextLen[m] \in Nat
      /\ tossing = << >> \/ tossing = << m, Tossed >>
      /\ tossing = << >> <=> Tossed = 0
  BY <1>0, TossFacts
<1>4. /\ IsHdr(sqd, p) /\ ~IsHdr(sqd, p - 1) /\ p < Len(sqd) /\ sqd[p + 1] = XMSG(msg)
      /\ p \in Nat /\ p >= 1
  BY <1>1 DEF IsWhole
<1>5. msg \in Msgs /\ n \in Nat /\ XMSG(msg).part = "xmsg" /\ XMSG(msg).msg = msg
  <2>1. msg \in Msgs
    BY <1>4, HdrAt DEF RepairTypeOK, FileType
  <2> QED
    BY <2>1, SquishFileAssumption, CellsAre
<1>6. p + 1 < w
  <2>1. p + 1 \in 1 .. Len(sqd) /\ sqd[p + 1].part = "xmsg"
    BY <1>1, <1>4, <1>5
  <2> QED
    BY <2>1, <1>2 DEF NoneBehind
<1> HIDE DEF w, msg, n
<1>7. sqd'[p] = sqd[p] /\ sqd'[p + 1] = sqd[p + 1]
  <2>1. p \in 1 .. Len(sqd) /\ p + 1 \in 1 .. Len(sqd) /\ p # w /\ p + 1 # w
    BY <1>1, <1>4, <1>6
  <2> QED
    BY <2>1, <1>10
<1>8. IsWhole(p)'
  <2>1. IsHdr(sqd', p) /\ p < Len(sqd') /\ sqd'[p + 1] = XMSG(sqd'[p].msg)
    BY <1>1, <1>4, <1>7 DEF IsHdr, msg
  <2>2. ~IsHdr(sqd', p - 1)
    <3> SUFFICES ASSUME IsHdr(sqd', p - 1) PROVE FALSE
      OBVIOUS
    <3>1. p - 1 \in 1 .. Len(sqd) /\ p - 1 # w /\ sqd'[p - 1].part = "hdr"
      BY <1>1, <1>4, <1>6 DEF IsHdr
    <3>2. p - 1 \in 1 .. Len(sqd) /\ sqd[p - 1].part = "hdr"
      BY <1>10, <3>1
    <3> QED
      BY <3>2, <1>4 DEF IsHdr
  <2> QED
    BY <2>1, <2>2 DEF IsWhole
<1>9. ASSUME IsClean(p) PROVE IsClean(p)'
  <2> DEFINE end == p + 2 + n
  <2>1. /\ end <= Len(sqd) + 1 /\ \A k \in 1 .. n : sqd[p + 1 + k] = Text(msg, k)
        /\ \/ end = Len(sqd) + 1 \/ IsHdr(sqd, end) \/ sqd[end] = Hole
           \/ HasBody(msg) /\ Text(msg, n) \in NUL
    BY <1>9 DEF IsClean, msg, n
  <2>2. end \in Nat /\ end >= 3
    BY <1>4, <1>5
  \* The cell in front of the end is one of this message, and in front of w.
  <2>3. /\ end - 1 \in 1 .. Len(sqd) /\ end - 1 < w
        /\ sqd[end - 1].part \in {"xmsg", "text"} /\ sqd[end - 1].msg = msg
    <3>1. CASE n = 0
      <4>1. end - 1 = p + 1
        BY <3>1, <1>4
      <4> QED
        BY <4>1, <1>1, <1>4, <1>5, <1>6
    <3>2. CASE n > 0
      <4>1. end - 1 = p + 1 + n /\ n \in 1 .. n /\ end - 1 \in 1 .. Len(sqd)
        BY <3>2, <1>1, <1>4, <1>5, <2>1
      <4>2. sqd[end - 1] = Text(msg, n)
        BY <4>1, <2>1
      <4>3. sqd[end - 1].part = "text" /\ sqd[end - 1].msg = msg
        BY <4>2, <1>5, CellsAre
      <4> QED
        BY <4>1, <4>3, <1>2 DEF NoneBehind
    <3> QED
      BY <3>1, <3>2, <1>5
  <2>5. end <= Len(sqd') + 1
    BY <1>1, <2>1, <2>2
  <2>6. end <= w
    BY <1>1, <2>2, <2>3
  <2>4. \A k \in 1 .. n : sqd'[p + 1 + k] = Text(msg, k)
    <3> SUFFICES ASSUME NEW k \in 1 .. n PROVE sqd'[p + 1 + k] = Text(msg, k)
      OBVIOUS
    <3>1. p + 1 + k \in 1 .. Len(sqd) /\ p + 1 + k # w
      BY <1>1, <1>4, <1>5, <2>1, <2>6
    <3> QED
      BY <3>1, <1>10, <2>1
  <2>7. end = w => Tossed = 0
    <3> SUFFICES ASSUME end = w, Tossed # 0 PROVE FALSE
      OBVIOUS
    <3>1. /\ tossing = << m, Tossed >> /\ Tossed \in Nat /\ Tossed >= 1
          /\ w = end_frame + Tossed
      BY <1>3 DEF w, TossEnd
    <3>2. /\ \A d \in 1 .. Tossed : sqd[end_frame + d - 1] = Frame(m, "normal")[d]
      BY <3>1 DEF FileSound, TossingSound
    <3>3. sqd[end - 1] = Frame(m, "normal")[Tossed]
      <4>1. end - 1 = end_frame + Tossed - 1 /\ Tossed \in 1 .. Tossed
        BY <3>1, <1>2
      <4> QED
        BY <4>1, <3>2
    <3>4. Tossed # 1
      <4> SUFFICES ASSUME Tossed = 1 PROVE FALSE
        OBVIOUS
      <4>1. sqd[end - 1] = SQHDR(m, 0, 0, "normal")
        BY <3>3, FrameFacts
      <4>2. sqd[end - 1].part = "hdr"
        BY <4>1, FrameFacts, CellsAre
      <4> QED
        BY <4>2, <2>3
    <3>5. m = msg
      <4>1. CASE Tossed = 2
        <5>1. Frame(m, "normal")[2] = XMSG(m) /\ XMSG(m).msg = m
          BY FrameFacts, CellsAre
        <5> QED
          BY <4>1, <5>1, <3>3, <2>3
      <4>2. CASE Tossed # 2
        <5>1. Tossed - 2 \in 1 .. TextLen[m] /\ Tossed - 2 + 2 = Tossed /\ Tossed - 2 \in Nat
          BY <4>2, <3>1, <3>4, <1>3
        <5>2. \A k \in 1 .. TextLen[m] : Frame(m, "normal")[k + 2] = Text(m, k)
          BY FrameFacts
        <5>3. sqd[end - 1] = Text(m, Tossed - 2)
          BY <3>3, <5>1, <5>2
        <5>4. Text(m, Tossed - 2).msg = m
          BY <5>1, CellsAre
        <5> QED
          BY <5>3, <5>4, <2>3
      <4> QED
        BY <4>1, <4>2
    <3>6. sqd[end_frame + 1] = XMSG(m) /\ end_frame + 1 \in 1 .. Len(sqd)
      <4>1. 2 \in 1 .. Tossed /\ end_frame + 2 - 1 = end_frame + 1
        BY <3>1, <3>4, <1>2
      <4>2. Frame(m, "normal")[2] = XMSG(m)
        BY FrameFacts
      <4>3. sqd[end_frame + 1] = XMSG(m)
        BY <4>1, <4>2, <3>2
      <4>4. end_frame + 1 \in 1 .. Len(sqd)
        BY <3>1, <3>4, <1>1, <1>2
      <4> QED
        BY <4>3, <4>4
    <3>7. p + 1 = end_frame + 1
      <4>1. p + 1 \in 1 .. Len(sqd) /\ sqd[p + 1] = sqd[end_frame + 1]
            /\ sqd[p + 1].part = "xmsg"
        BY <1>1, <1>4, <1>5, <3>5, <3>6
      <4> QED
        BY <4>1, <3>6, <1>2 DEF OnceIn
    <3>8. n = TextLen[m]
      BY <3>5 DEF n
    <3> QED
      BY <3>1, <3>7, <3>8, <1>2, <1>3, <1>4, <1>5
  <2>8. \/ end = Len(sqd') + 1 \/ IsHdr(sqd', end) \/ sqd'[end] = Hole
        \/ HasBody(msg) /\ Text(msg, n) \in NUL
    <3>1. CASE end = w
      <4>1. sqd'[end] = SQHDR(m, 0, 0, "normal")
        <5>1. Tossed + 1 = 1
          BY <3>1, <2>7
        <5> QED
          BY <5>1, <3>1, <1>1, FrameFacts
      <4>2. sqd'[end].part = "hdr" /\ end \in 1 .. Len(sqd')
        BY <4>1, <3>1, <1>1, FrameFacts, CellsAre
      <4> QED
        BY <4>2 DEF IsHdr
    <3>2. CASE end # w
      <4>1. CASE end = Len(sqd) + 1
        <5>1. end \in 1 .. Len(sqd') /\ end > Len(sqd)
          BY <4>1, <3>2, <2>6, <2>2, <1>1
        <5> QED
          BY <5>1, <3>2, <1>10
      <4>2. CASE end # Len(sqd) + 1
        <5>1. end \in 1 .. Len(sqd) /\ end \in 1 .. Len(sqd')
          BY <4>2, <2>1, <2>2, <1>1
        <5>2. sqd'[end] = sqd[end]
          BY <5>1, <3>2, <1>10
        <5> QED
          BY <5>1, <5>2, <4>2, <2>1 DEF IsHdr
      <4> QED
        BY <4>1, <4>2
    <3> QED
      BY <3>1, <3>2
  <2>9. sqd'[p].msg = msg
    BY <1>7 DEF msg
  <2> QED
    BY <2>4, <2>5, <2>8, <2>9 DEF IsClean, n
<1> QED
  BY <1>7, <1>8, <1>9

LEMMA TossTypes ==
  ASSUME RepairTypeOK, FileSound, NEW m \in Msgs, TossCell(m),
         UNCHANGED << doing, packMemory, fixMemory, gone >>
  PROVE  RepairTypeOK'
<1>0. RepairTypeOK /\ FileSound /\ m \in Msgs /\ TossCell(m)
  OBVIOUS
<1>1. /\ end_frame' = end_frame /\ sqi' = sqi /\ damaged' = damaged
      /\ tossing' = << m, Tossed + 1 >> /\ Tossed \in 0 .. 1 + TextLen[m] /\ TextLen[m] \in Nat
      /\ sqd' \in Seq(Cell) /\ Len(sqd') \in Nat /\ Len(sqd') >= Len(sqd) /\ Len(sqd) \in Nat
  BY <1>0, TossFacts, FileFacts
<1>2. FileType'
  <2>1. tossing' \in Msgs \X Nat
    BY <1>1
  <2>2. doing' = doing
    OBVIOUS
  <2> QED
    BY <1>1, <2>1, <2>2 DEF RepairTypeOK, FileType
<1>3. UNCHANGED packMemory /\ UNCHANGED fixMemory /\ gone' = gone
  OBVIOUS
<1>4. /\ newsqd' \in Seq(Cell) /\ newsqi' \in Seq([ofs : Nat, umsgid : Nat])
      /\ sqbase' \in [begin_frame : Nat, last_frame : Nat, end_frame : Nat,
                      num_msg : 0 .. Len(newsqi')]
      /\ sqidx' \in Nat /\ i' \in 0 .. Len(sqi') /\ sqhdr' \in Header \cup {Junk}
  BY <1>1, <1>3 DEF packMemory, RepairTypeOK
<1>5. /\ newbase' \in Seq([xmsg : Cell, ctrl : Seq(Cell), text : Seq(Cell)]) /\ fixmsg' \in 0 .. pos'
      /\ refused' \in Seq(Cell) /\ Len(refused') <= MaxRefused
      /\ \A p \in DOMAIN whole' : whole'[p] \in [msg : Msgs, clean : BOOLEAN]
      /\ gone' \subseteq Msgs
  BY <1>3 DEF fixMemory, RepairTypeOK
<1>6. /\ pos' \in 0 .. Len(sqd') + 1 /\ EndPos' \in 0 .. Len(sqd') + 1
      /\ DOMAIN whole' \subseteq 1 .. Len(sqd')
  <2>1. pos' = pos /\ EndPos' = EndPos /\ whole' = whole
    BY <1>3 DEF fixMemory
  <2>2. /\ pos \in 0 .. Len(sqd) + 1 /\ EndPos \in 0 .. Len(sqd) + 1
        /\ DOMAIN whole \subseteq 1 .. Len(sqd)
    BY DEF RepairTypeOK
  <2>3. 1 .. Len(sqd) \subseteq 1 .. Len(sqd')
    BY <1>1
  <2>4. DOMAIN whole' \subseteq 1 .. Len(sqd')
    BY <2>1, <2>2, <2>3
  <2>5. pos' \in 0 .. Len(sqd') + 1 /\ EndPos' \in 0 .. Len(sqd') + 1
    BY <1>1, <2>1, <2>2
  <2> QED
    BY <2>4, <2>5
<1> QED
  BY <1>2, <1>4, <1>5, <1>6 DEF RepairTypeOK

\* The tosser stores no message that pack has left out, and disturbs no whole one.
LEMMA TossStep ==
  ASSUME RepairInv, NEW m \in Msgs \ gone, TossCell(m),
         UNCHANGED << doing, packMemory, fixMemory, gone >>
  PROVE  RepairInv'
<1>0. RepairTypeOK /\ FileSound /\ m \in Msgs /\ TossCell(m) /\ doing' = doing /\ gone' = gone
  BY DEF RepairInv
<1>1. UNCHANGED packMemory /\ UNCHANGED fixMemory
  OBVIOUS
<1>2. RepairTypeOK'
  BY <1>0, <1>1, TossTypes
<1>3. FileSound'
  BY <1>0, TossFileSound
<1>4. doing \in {"idle", "fix"}
  BY <1>0, TossFacts
<1>5. Idle'
  BY <1>0, <1>1, <1>4 DEF RepairInv, Idle, NoPack, NoFix, packMemory, fixMemory
<1>6. GoneSound'
  <2>1. ASSUME NEW n \in gone, n \in Stored(sqd') PROVE FALSE
    <3>1. PICK p \in 1 .. Len(sqd') : sqd'[p] = XMSG(n)
      BY <2>1 DEF Stored
    <3>2. n \in Msgs /\ n # m /\ XMSG(n).part = "xmsg" /\ XMSG(n).msg = n
      BY <2>1, CellsAre DEF RepairInv, RepairTypeOK
    <3>3. CASE p = TossEnd
      <4>1. Frame(m, "normal")[Tossed + 1] = XMSG(n)
        BY <1>0, <3>1, <3>3, TossFacts
      <4>2. Tossed \in 0 .. 1 + TextLen[m] /\ TextLen[m] \in Nat
        BY <1>0, TossFacts
      <4>3. /\ Frame(m, "normal")[1].part = "hdr" /\ Frame(m, "normal")[2].msg = m
        BY FrameFacts, CellsAre
      <4>4. Tossed \notin {0, 1}
        BY <4>1, <4>3, <3>2
      <4>5. Tossed - 1 \in 1 .. TextLen[m] /\ Tossed - 1 + 2 = Tossed + 1 /\ Tossed - 1 \in Nat
        BY <4>2, <4>4
      <4>6. \A k \in 1 .. TextLen[m] : Frame(m, "normal")[k + 2] = Text(m, k)
        BY FrameFacts
      <4>7. Frame(m, "normal")[Tossed + 1] = Text(m, Tossed - 1)
        BY <4>5, <4>6
      <4>8. Text(m, Tossed - 1).part = "text"
        BY <4>5, CellsAre
      <4> QED
        BY <4>1, <4>7, <4>8, <3>2
    <3>4. CASE p # TossEnd
      <4>1. p \in 1 .. Len(sqd) /\ sqd[p] = XMSG(n)
        <5>1. IsKept(p)
          BY <1>0, <3>4, TossFacts
        <5> QED
          BY <5>1, <3>1, <3>2, CellsAre DEF IsKept
      <4> QED
        BY <4>1, <2>1, <3>2 DEF RepairInv, GoneSound, Stored
    <3> QED
      BY <3>3, <3>4
  <2>2. newbase' = newbase
    BY <1>1 DEF fixMemory
  <2> QED
    BY <2>1, <2>2, <1>0 DEF RepairInv, GoneSound
<1>7. PackSound'
  BY <1>0, <1>4 DEF PackSound
<1>8. FixSound'
  <2>1. Fixed'
    BY <1>0, <1>4 DEF Fixed, WholeRecovered, TextWhole
  <2>2. ASSUME doing = "fix" PROVE FixLoop'
    <3>1. FixLoop
      BY <2>2 DEF RepairInv, FixSound
    <3>2. /\ pos' = pos /\ EndPos' = EndPos /\ newbase' = newbase /\ refused' = refused
          /\ whole' = whole
      BY <1>1 DEF fixMemory
    <3>3. ASSUME NEW p \in DOMAIN whole PROVE StillWhole(p)' /\ Stands(p)'
      <4>1. StillWhole(p) /\ Stands(p)
        BY <3>1 DEF FixLoop
      <4>2. p \in 1 .. Len(sqd)
        BY DEF RepairInv, RepairTypeOK
      <4>3. IsWhole(p)' /\ sqd'[p] = sqd[p] /\ (IsClean(p) => IsClean(p)')
        BY <1>0, <4>1, <4>2, TossStillWhole DEF StillWhole
      <4>4. StillWhole(p)'
        BY <3>2, <4>1, <4>3 DEF StillWhole
      <4>5. Stands(p)'
        BY <3>2, <4>1 DEF Stands, FixedAt, Refused
      <4> QED
        BY <4>4, <4>5
    <3>4. ASSUME NEW p \in DOMAIN whole
          PROVE  /\ FixedAt(p)' = FixedAt(p)
                 /\ TextsOwn(p)' <=> TextsOwn(p)
      BY <3>2 DEF TextsOwn, FixedAt
    <3> QED
      BY <3>1, <3>2, <3>3, <3>4 DEF FixLoop
  <2> QED
    BY <2>1, <2>2, <1>0 DEF FixSound
<1> QED
  BY <1>2, <1>3, <1>5, <1>6, <1>7, <1>8 DEF RepairInv

\* What fix has read stays true while neither its memory nor the file changes.
LEMMA FixFramed ==
  ASSUME FixSound, UNCHANGED << sqd, doing, fixMemory >>
  PROVE  FixSound'
<1>1. /\ sqd' = sqd /\ doing' = doing
      /\ pos' = pos /\ EndPos' = EndPos /\ newbase' = newbase /\ refused' = refused
      /\ whole' = whole
  BY DEF fixMemory
<1>2. Fixed'
  BY <1>1 DEF FixSound, Fixed, WholeRecovered, TextWhole, FixedAt
<1>3. ASSUME doing = "fix" PROVE FixLoop'
  <2>1. FixLoop
    BY <1>3 DEF FixSound
  <2>2. ASSUME NEW p
        PROVE  /\ StillWhole(p)' <=> StillWhole(p)
               /\ Stands(p)' <=> Stands(p)
               /\ FixedAt(p)' = FixedAt(p) /\ (TextsOwn(p)' <=> TextsOwn(p))
    BY <1>1 DEF StillWhole, Stands, FixedAt, Refused, IsWhole, IsClean, TextsOwn
  <2> QED
    BY <1>1, <2>1, <2>2 DEF FixLoop
<1> QED
  BY <1>1, <1>2, <1>3 DEF FixSound

\* An entry more.
LEMMA IndexAppended ==
  ASSUME NEW file \in Seq(Cell), NEW idx \in Seq([ofs : Nat, umsgid : Nat]), NEW end \in Nat,
         NEW next \in Nat, NEW e \in [ofs : Nat, umsgid : Nat],
         IndexSound(file, idx, end), e.ofs >= FIRST, end <= e.ofs,
         IsHdr(file, e.ofs), LastCell(file, e.ofs) < next, end <= next
  PROVE  IndexSound(file, Append(idx, e), next)
<1> DEFINE n == Len(idx)
           all == Append(idx, e)
<1>1. /\ n \in Nat /\ Len(all) = n + 1 /\ all[n + 1] = e
      /\ \A k \in 1 .. n : all[k] = idx[k]
      /\ \A k \in 1 .. n : idx[k].ofs \in Nat
      /\ e.ofs \in Nat
  <2>1. /\ n \in Nat /\ Len(all) = n + 1 /\ all[n + 1] = e
        /\ \A k \in 1 .. n : all[k] = idx[k]
    BY AppendProperties
  <2>2. \A k \in 1 .. n : idx[k] \in [ofs : Nat, umsgid : Nat]
    BY ElementOfSeq
  <2> QED
    BY <2>1, <2>2
<1>0. n \in Nat /\ \A j \in 1 .. n + 1 : j # n + 1 => j \in 1 .. n
  BY <1>1
<1> HIDE DEF all, n
<1>2. ASSUME NEW k \in 1 .. n, idx[k].ofs # 0
      PROVE  /\ idx[k].ofs >= FIRST /\ IsHdr(file, idx[k].ofs)
             /\ LastCell(file, idx[k].ofs) < end
             /\ LastCell(file, idx[k].ofs) < e.ofs /\ LastCell(file, idx[k].ofs) < next
  <2>1. /\ idx[k].ofs >= FIRST /\ IsHdr(file, idx[k].ofs)
        /\ LastCell(file, idx[k].ofs) < end
    BY <1>2 DEF IndexSound, EntrySound, n
  <2>2. LastCell(file, idx[k].ofs) \in Nat
    BY <2>1, LastIs
  <2> QED
    BY <2>1, <2>2, <1>1
<1>3. LastCell(file, e.ofs) \in Nat
  <2>1. file[e.ofs].frame_length \in Nat
    BY HdrAt
  <2> QED
    BY <2>1, <1>1 DEF LastCell
<1>4. ASSUME NEW k \in 1 .. n + 1, all[k].ofs # 0
      PROVE  EntrySound(file, all, next, k)
  <2>1. CASE k = n + 1
    <3>1. /\ all[k].ofs >= FIRST /\ IsHdr(file, all[k].ofs)
          /\ LastCell(file, all[k].ofs) < next
      BY <2>1, <1>1
    <3>2. ASSUME NEW j \in 1 .. n + 1, j # k, all[j].ofs # 0
          PROVE  LastCell(file, all[j].ofs) < all[k].ofs
      <4>1. j \in 1 .. n /\ all[j] = idx[j]
        BY <1>0, <1>1, <2>1, <3>2
      <4> QED
        BY <4>1, <1>1, <1>2, <2>1, <3>2
    <3> QED
      BY <3>1, <3>2, <1>1 DEF EntrySound
  <2>2. CASE k # n + 1
    <3>1. k \in 1 .. n /\ all[k] = idx[k]
      BY <1>0, <1>1, <2>2
    <3>2. EntrySound(file, idx, end, k)
      BY <3>1, <1>4 DEF IndexSound, n
    <3>3. /\ all[k].ofs >= FIRST /\ IsHdr(file, all[k].ofs)
          /\ LastCell(file, all[k].ofs) < next
      BY <3>1, <1>2, <1>4
    <3>4. ASSUME NEW j \in 1 .. n + 1, j # k, all[j].ofs # 0
          PROVE  \/ LastCell(file, all[j].ofs) < all[k].ofs
                 \/ LastCell(file, all[k].ofs) < all[j].ofs
      <4>1. CASE j = n + 1
        <5>1. LastCell(file, idx[k].ofs) < e.ofs
          BY <3>1, <1>2, <1>4
        <5> QED
          BY <5>1, <4>1, <1>1, <3>1
      <4>2. CASE j # n + 1
        <5>1. j \in 1 .. n /\ all[j] = idx[j]
          BY <1>0, <1>1, <4>2
        <5> QED
          BY <5>1, <3>1, <3>2, <3>4 DEF EntrySound, n
      <4> QED
        BY <4>1, <4>2
    <3> QED
      BY <3>3, <3>4, <1>1 DEF EntrySound
  <2> QED
    BY <2>1, <2>2
<1> QED
  BY <1>1, <1>4 DEF IndexSound, all

\* A frame that is all there, and now in the index.
LEMMA TossDoneStep ==
  ASSUME RepairInv, TossDone, UNCHANGED << doing, packMemory, fixMemory, gone >>
  PROVE  RepairInv'
<1> DEFINE m == tossing[1]
           n == TextLen[m]
           e == [ofs |-> end_frame, umsgid |-> Len(sqi) + 1]
<1>1. UNCHANGED packMemory /\ UNCHANGED fixMemory /\ doing' = doing /\ gone' = gone
  OBVIOUS
<1>2. /\ RepairTypeOK /\ FileSound /\ Idle /\ GoneSound /\ FixSound
  BY DEF RepairInv
<1>3. /\ tossing # << >> /\ tossing[2] = Len(Frame(m, "normal"))
      /\ sqi' = Append(sqi, e) /\ end_frame' = end_frame + tossing[2]
      /\ tossing' = << >> /\ sqd' = sqd /\ damaged' = damaged
  BY DEF TossDone
<1>4. /\ doing \in {"idle", "fix", "fixed"} /\ TossEnd <= Len(sqd) + 1
      /\ tossing[2] \in 1 .. Len(Frame(m, "normal"))
      /\ \A d \in 1 .. tossing[2] : sqd[end_frame + d - 1] = Frame(m, "normal")[d]
  BY <1>2, <1>3 DEF FileSound, TossingSound
<1>5. /\ sqd \in Seq(Cell) /\ Len(sqd) \in Nat /\ end_frame \in Nat /\ end_frame >= FIRST
      /\ sqi \in Seq([ofs : Nat, umsgid : Nat]) /\ Len(sqi) \in Nat
      /\ m \in Msgs /\ n \in Nat
  <2>1. m \in Msgs
    BY <1>2, <1>3 DEF RepairTypeOK, FileType
  <2> QED
    BY <2>1, <1>2, FileFacts, SquishFileAssumption DEF RepairTypeOK, FileType, FileSound
<1>6. tossing[2] = 2 + n /\ Tossed = 2 + n /\ TossEnd = end_frame + 2 + n
  <2>1. tossing[2] = 2 + n
    BY <1>3, <1>5, FrameFacts
  <2>2. Tossed = tossing[2]
    BY <1>3 DEF Tossed
  <2> HIDE DEF n
  <2>3. TossEnd = end_frame + 2 + n
    BY <2>1, <2>2, <1>5 DEF TossEnd
  <2> QED
    BY <2>1, <2>2, <2>3
<1>7. /\ NoneBehind(sqd, TossEnd) /\ TossEnd <= Len(sqd) + 1
      /\ damaged = 0 => EndSound(sqd, TossEnd)
  BY <1>2, <1>4 DEF FileSound
<1> HIDE DEF m, n
<1>8. end_frame' = end_frame + 2 + n /\ end_frame' \in Nat /\ end_frame' = TossEnd
  <2>1. end_frame' = end_frame + tossing[2] /\ end_frame \in Nat /\ n \in Nat
    BY <1>3, <1>5
  <2> QED
    BY <2>1, <1>6
<1>9. IsHdr(sqd, end_frame) /\ sqd[end_frame].frame_length = 1 + n
  <2>1. sqd[end_frame] = Frame(m, "normal")[1]
    <3>1. 1 \in 1 .. tossing[2] /\ end_frame + 1 - 1 = end_frame
      BY <1>5, <1>6
    <3> QED
      BY <3>1, <1>4
  <2>2. sqd[end_frame] = SQHDR(m, 0, 0, "normal")
    BY <2>1, <1>5, FrameFacts
  <2>3. sqd[end_frame].part = "hdr" /\ sqd[end_frame].frame_length = 1 + n
    BY <2>2, <1>5, FrameFacts, CellsAre DEF n
  <2>4. end_frame \in 1 .. Len(sqd)
    BY <1>5, <1>6, <1>7 DEF FIRST, SQBASE_SIZE
  <2> QED
    BY <2>3, <2>4 DEF IsHdr
<1>10. e \in [ofs : Nat, umsgid : Nat] /\ e.ofs = end_frame
  BY <1>5
<1> HIDE DEF e
<1>11. sqi' \in Seq([ofs : Nat, umsgid : Nat]) /\ Len(sqi') = Len(sqi) + 1
  BY <1>3, <1>5, <1>10, AppendProperties
<1>12. RepairTypeOK'
  <2>1. FileType'
    BY <1>1, <1>2, <1>3, <1>8, <1>11 DEF RepairTypeOK, FileType
  <2>2. i' \in 0 .. Len(sqi')
    BY <1>1, <1>2, <1>5, <1>11 DEF RepairTypeOK, packMemory
  <2>3. /\ newsqd' \in Seq(Cell) /\ newsqi' \in Seq([ofs : Nat, umsgid : Nat])
        /\ sqbase' \in [begin_frame : Nat, last_frame : Nat, end_frame : Nat,
                        num_msg : 0 .. Len(newsqi')]
        /\ sqidx' \in Nat /\ sqhdr' \in Header \cup {Junk}
    BY <1>1, <1>2 DEF packMemory, RepairTypeOK
  <2>4. /\ pos' \in 0 .. Len(sqd') + 1 /\ EndPos' \in 0 .. Len(sqd') + 1
        /\ newbase' \in Seq([xmsg : Cell, ctrl : Seq(Cell), text : Seq(Cell)]) /\ fixmsg' \in 0 .. pos'
        /\ refused' \in Seq(Cell) /\ Len(refused') <= MaxRefused
        /\ DOMAIN whole' \subseteq 1 .. Len(sqd')
        /\ \A p \in DOMAIN whole' : whole'[p] \in [msg : Msgs, clean : BOOLEAN]
        /\ gone' \subseteq Msgs
    BY <1>1, <1>2, <1>3 DEF fixMemory, RepairTypeOK
  <2> QED
    BY <2>1, <2>2, <2>3, <2>4 DEF RepairTypeOK
<1>13. FileSound'
  <2>1. IndexSound(sqd, sqi', end_frame')
    <3>1. LastCell(sqd, e.ofs) < end_frame' /\ end_frame <= end_frame'
      BY <1>5, <1>8, <1>9, <1>10 DEF LastCell
    <3>2. IndexSound(sqd, sqi, end_frame)
      BY <1>2 DEF FileSound
    <3> QED
      <4>1. IsHdr(sqd, e.ofs) /\ e.ofs >= FIRST /\ end_frame <= e.ofs
        BY <1>5, <1>9, <1>10
      <4>2. end_frame' \in Nat /\ sqi' = Append(sqi, e)
        BY <1>3, <1>8 DEF e
      <4> QED
        BY <3>1, <3>2, <4>1, <4>2, <1>5, <1>10, IndexAppended
  <2>2. TossEnd' = TossEnd
    BY <1>3, <1>8 DEF TossEnd, Tossed
  <2>3. end_frame' >= FIRST
    BY <1>5, <1>8 DEF FIRST, SQBASE_SIZE
  <2> QED
    BY <2>1, <2>2, <2>3, <1>2, <1>3, <1>7 DEF FileSound, TossingSound
<1>14. Idle'
  BY <1>1, <1>2, <1>3, <1>4 DEF Idle, NoPack, NoFix, packMemory, fixMemory
<1>15. GoneSound'
  BY <1>1, <1>2, <1>3 DEF GoneSound, fixMemory, Stored
<1>16. PackSound'
  BY <1>1, <1>4 DEF PackSound
<1>17. FixSound'
  BY <1>1, <1>2, <1>3, FixFramed
<1> QED
  BY <1>12, <1>13, <1>14, <1>15, <1>16, <1>17 DEF RepairInv

\* A file whose XMSGs are where another has them.
LEMMA NoneAdded ==
  ASSUME NEW file \in Seq(Cell), NEW made \in Seq(Cell), OnceIn(file),
         \A q \in 1 .. Len(made) :
           made[q].part = "xmsg" => q \in 1 .. Len(file) /\ made[q] = file[q]
  PROVE  OnceIn(made) /\ Stored(made) \subseteq Stored(file)
<1>1. OnceIn(made)
  BY DEF OnceIn
<1>2. ASSUME NEW m \in Msgs, NEW p \in 1 .. Len(made), made[p] = XMSG(m)
      PROVE  m \in Stored(file)
  <2>1. made[p].part = "xmsg"
    BY <1>2, CellsAre
  <2> QED
    BY <1>2, <2>1 DEF Stored
<1> QED
  BY <1>1, <1>2 DEF Stored

\* A file with a cell less.
LEMMA NoneAddedRemoved ==
  ASSUME NEW file \in Seq(Cell), OnceIn(file), NEW p \in 1 .. Len(file)
  PROVE  /\ RemoveAt(file, p) \in Seq(Cell) /\ OnceIn(RemoveAt(file, p))
         /\ Stored(RemoveAt(file, p)) \subseteq Stored(file)
         /\ \A end \in Nat : NoneBehind(file, end) => NoneBehind(RemoveAt(file, p), end)
<1> DEFINE made == RemoveAt(file, p)
           at(q) == IF q < p THEN q ELSE q + 1
<1>1. /\ made \in Seq(Cell) /\ Len(made) = Len(file) - 1 /\ Len(file) \in Nat
      /\ \A q \in 1 .. Len(file) - 1 : made[q] = IF q < p THEN file[q] ELSE file[q + 1]
  BY RemoveAtProperties
<1> HIDE DEF made
<1>2. ASSUME NEW q \in 1 .. Len(made)
      PROVE  at(q) \in 1 .. Len(file) /\ made[q] = file[at(q)]
  BY <1>1
<1>6. ASSUME NEW end \in Nat, NoneBehind(file, end),
             NEW q \in 1 .. Len(made), made[q].part \in {"xmsg", "text"}
      PROVE  q < end
  <2>1. at(q) < end
    BY <1>2, <1>6 DEF NoneBehind
  <2>2. at(q) \in Nat /\ q <= at(q)
    BY <1>1
  <2> QED
    BY <2>1, <2>2, <1>1
<1>3. \A q, r \in 1 .. Len(made) : at(q) = at(r) => q = r
  BY <1>1
<1> HIDE DEF at
<1>4. OnceIn(made)
  <2> SUFFICES ASSUME NEW q \in 1 .. Len(made), NEW r \in 1 .. Len(made),
                      made[q].part = "xmsg", made[q] = made[r]
               PROVE  q = r
    BY DEF OnceIn
  <2>1. at(q) = at(r)
    BY <1>2 DEF OnceIn
  <2> QED
    BY <1>3, <2>1
<1>5. ASSUME NEW m \in Msgs, NEW q \in 1 .. Len(made), made[q] = XMSG(m)
      PROVE  m \in Stored(file)
  BY <1>2, <1>5 DEF Stored
<1> QED
  BY <1>1, <1>4, <1>5, <1>6 DEF Stored, NoneBehind, made

\* A disaster adds nothing to the file, and happens while hptutil does not run.
LEMMA DamageStep ==
  ASSUME RepairInv, NEW p \in FIRST .. Len(sqd), Damage(p),
         UNCHANGED << doing, packMemory, fixMemory, gone >>
  PROVE  RepairInv'
<1>1. UNCHANGED packMemory /\ UNCHANGED fixMemory /\ doing' = doing /\ gone' = gone
  OBVIOUS
<1>2. /\ RepairTypeOK /\ FileSound /\ Idle /\ GoneSound /\ FixSound
  BY DEF RepairInv
<1>3. /\ doing = "idle" /\ tossing = << >> /\ damaged < MaxDamage
      /\ sqd' = [sqd EXCEPT ![p] = Junk] \/ sqd' = RemoveAt(sqd, p)
      /\ damaged' = damaged + 1 /\ end_frame' = end_frame /\ sqi' = << >>
      /\ tossing' = tossing
  BY DEF Damage
<1>4. sqd \in Seq(Cell) /\ Len(sqd) \in Nat /\ p \in 1 .. Len(sqd) /\ OnceIn(sqd)
      /\ damaged \in 0 .. MaxDamage /\ MaxDamage \in Nat /\ end_frame \in Nat
      /\ TossEnd = end_frame /\ TossEnd' = end_frame /\ NoneBehind(sqd, end_frame)
      /\ end_frame >= FIRST
  <2>1. sqd \in Seq(Cell) /\ Len(sqd) \in Nat /\ p \in 1 .. Len(sqd) /\ OnceIn(sqd)
        /\ damaged \in 0 .. MaxDamage /\ MaxDamage \in Nat /\ end_frame \in Nat
    BY <1>2, SquishFileAssumption DEF RepairTypeOK, FileType, FIRST, SQBASE_SIZE, FileSound
  <2>2. TossEnd = end_frame /\ TossEnd' = end_frame
    BY <1>3, <2>1 DEF TossEnd, Tossed
  <2> QED
    BY <1>2, <2>1, <2>2 DEF FileSound
<1>5. /\ sqd' \in Seq(Cell) /\ OnceIn(sqd') /\ Stored(sqd') \subseteq Stored(sqd)
      /\ NoneBehind(sqd', end_frame)
  <2>1. CASE sqd' = RemoveAt(sqd, p)
    BY <2>1, <1>4, NoneAddedRemoved
  <2>2. CASE sqd' = [sqd EXCEPT ![p] = Junk]
    <3>1. sqd' \in Seq(Cell) /\ Len(sqd') = Len(sqd)
      BY <2>2, <1>4, CellsAre, ExceptSeq
    <3>2. \A q \in 1 .. Len(sqd') : q # p => sqd'[q] = sqd[q]
      BY <2>2, <3>1, <1>4, ExceptSeq
    <3>3. sqd'[p] = Junk
      BY <2>2, <1>4, ExceptSeq
    <3>4. sqd'[p].part = "junk"
      BY <3>3, CellsAre
    <3>5. \A q \in 1 .. Len(sqd') :
            sqd'[q].part = "xmsg" => q \in 1 .. Len(sqd) /\ sqd'[q] = sqd[q]
      BY <3>1, <3>2, <3>4
    <3>6. NoneBehind(sqd', end_frame)
      BY <3>1, <3>2, <3>4, <1>4 DEF NoneBehind
    <3> QED
      BY <3>1, <3>5, <3>6, <1>4, NoneAdded
  <2> QED
    BY <1>3, <2>1, <2>2
<1>6. /\ NoPack /\ NoFix /\ NoPack' /\ NoFix'
  BY <1>1, <1>2, <1>3 DEF Idle, NoPack, NoFix, packMemory, fixMemory
<1>7. RepairTypeOK'
  <2>1. FileType'
    BY <1>1, <1>2, <1>3, <1>4, <1>5 DEF RepairTypeOK, FileType, FIRST, SQBASE_SIZE
  <2>2. i' \in 0 .. Len(sqi')
    BY <1>3, <1>6 DEF NoPack
  <2>3. /\ newsqd' \in Seq(Cell) /\ newsqi' \in Seq([ofs : Nat, umsgid : Nat])
        /\ sqbase' \in [begin_frame : Nat, last_frame : Nat, end_frame : Nat,
                        num_msg : 0 .. Len(newsqi')]
        /\ sqidx' \in Nat /\ sqhdr' \in Header \cup {Junk}
    BY <1>1, <1>2 DEF packMemory, RepairTypeOK
  <2>4. /\ pos' \in 0 .. Len(sqd') + 1 /\ EndPos' \in 0 .. Len(sqd') + 1
        /\ DOMAIN whole' = {}
    <3>1. Len(sqd') \in Nat /\ pos' = 0 /\ EndPos' = 0 /\ whole' = << >>
      BY <1>5, <1>6, LenProperties DEF NoFix
    <3> QED
      BY <3>1
  <2>5. /\ newbase' \in Seq([xmsg : Cell, ctrl : Seq(Cell), text : Seq(Cell)]) /\ fixmsg' \in 0 .. pos'
        /\ refused' \in Seq(Cell) /\ Len(refused') <= MaxRefused /\ gone' \subseteq Msgs
    BY <1>1, <1>2 DEF fixMemory, RepairTypeOK
  <2> QED
    BY <2>1, <2>2, <2>3, <2>4, <2>5 DEF RepairTypeOK
<1>8. FileSound'
  <2>1. IndexSound(sqd', sqi', end_frame')
    BY <1>3 DEF IndexSound
  <2>2. damaged' # 0 /\ end_frame' >= FIRST /\ NoneBehind(sqd', TossEnd')
    BY <1>3, <1>4, <1>5
  <2> QED
    BY <2>1, <2>2, <1>3, <1>5 DEF FileSound, TossingSound
<1>9. Idle'
  BY <1>1, <1>3, <1>6 DEF Idle
<1>10. GoneSound'
  <2>1. newbase' = newbase
    BY <1>1 DEF fixMemory
  <2> QED
    BY <2>1, <1>1, <1>2, <1>5 DEF GoneSound
<1>11. PackSound' /\ FixSound'
  BY <1>1, <1>3 DEF PackSound, FixSound, Fixed, WholeRecovered, TextWhole
<1> QED
  BY <1>7, <1>8, <1>9, <1>10, <1>11 DEF RepairInv

-----------------------------------------------------------------------------
(* Pack. *)

\* The places of the messages in the new index.
LEMMA PlaceFacts ==
  /\ Place(0) = 0
  /\ \A k \in Nat : /\ Place(k) \in Nat
                    /\ IsLive(k + 1) => Place(k + 1) = Place(k) + 1
                    /\ ~IsLive(k + 1) => Place(k + 1) = Place(k)
  /\ \A j, k \in Nat : j <= k => Place(j) <= Place(k)
  /\ \A j, k \in Nat : j < k /\ IsLive(k) => Place(j) < Place(k)
<1> DEFINE live(k) == {j \in 1 .. k : IsLive(j)}
<1>1. \A k \in Nat : IsFiniteSet(live(k)) /\ Cardinality(live(k)) \in Nat
  <2> SUFFICES ASSUME NEW k \in Nat
               PROVE  IsFiniteSet(live(k)) /\ Cardinality(live(k)) \in Nat
    OBVIOUS
  <2>1. IsFiniteSet(1 .. k) /\ live(k) \subseteq 1 .. k
    BY FS_Interval
  <2> QED
    BY <2>1, FS_Subset, FS_CardinalityType
<1>2. live(0) = {}
  OBVIOUS
<1>3. ASSUME NEW k \in Nat
      PROVE  live(k + 1) = IF IsLive(k + 1) THEN live(k) \cup {k + 1} ELSE live(k)
  OBVIOUS
<1>4. ASSUME NEW j \in Nat, NEW k \in Nat, j <= k
      PROVE  live(j) \subseteq live(k)
  BY <1>4
<1>5. ASSUME NEW k \in Nat PROVE k + 1 \notin live(k)
  OBVIOUS
<1>6. \A k : Place(k) = Cardinality(live(k))
  BY DEF Place
<1> HIDE DEF live
<1>7. Place(0) = 0
  BY <1>2, <1>6, FS_EmptySet
<1>8. ASSUME NEW k \in Nat
      PROVE  /\ Place(k) \in Nat
             /\ IsLive(k + 1) => Place(k + 1) = Place(k) + 1
             /\ ~IsLive(k + 1) => Place(k + 1) = Place(k)
  <2>1. Place(k) = Cardinality(live(k)) /\ Place(k + 1) = Cardinality(live(k + 1))
    BY <1>6
  <2>2. IsFiniteSet(live(k)) /\ Cardinality(live(k)) \in Nat /\ k + 1 \notin live(k)
    BY <1>1, <1>5
  <2>3. Cardinality(live(k) \cup {k + 1}) = Cardinality(live(k)) + 1
    BY <2>2, FS_AddElement
  <2>4. live(k + 1) = IF IsLive(k + 1) THEN live(k) \cup {k + 1} ELSE live(k)
    BY <1>3
  <2>5. CASE IsLive(k + 1)
    BY <2>1, <2>2, <2>3, <2>4, <2>5
  <2>6. CASE ~IsLive(k + 1)
    BY <2>1, <2>2, <2>4, <2>6
  <2> QED
    BY <2>5, <2>6
<1>9. ASSUME NEW j \in Nat, NEW k \in Nat, j <= k
      PROVE  Place(j) <= Place(k)
  BY <1>1, <1>4, <1>6, <1>9, FS_Subset
<1>10. ASSUME NEW j \in Nat, NEW k \in Nat, j < k, IsLive(k)
       PROVE  Place(j) < Place(k)
  <2>1. k - 1 \in Nat /\ k - 1 + 1 = k /\ j <= k - 1
    BY <1>10
  <2>2. Place(k) = Place(k - 1) + 1 /\ Place(k - 1) \in Nat
    BY <1>8, <1>10, <2>1
  <2>3. Place(j) <= Place(k - 1) /\ Place(j) \in Nat
    BY <1>8, <1>9, <2>1
  <2> QED
    BY <2>2, <2>3
<1> QED
  BY <1>7, <1>8, <1>9, <1>10

\* What pack does to the types.
PackTypes ==
  /\ newsqd \in Seq(Cell) /\ newsqi \in Seq([ofs : Nat, umsgid : Nat])
  /\ sqbase \in [begin_frame : Nat, last_frame : Nat, end_frame : Nat,
                 num_msg : 0 .. Len(newsqi)]
  /\ sqidx \in Nat /\ i \in 0 .. Len(sqi) /\ sqhdr \in Header \cup {Junk}

\* While pack runs, all that it does not change stays sound.
LEMMA PackFrame ==
  ASSUME RepairInv, UNCHANGED << files, fixMemory, gone >>,
         doing \in {"idle", "pack", "packed"}, doing' \in {"pack", "packed"},
         tossing = << >>, damaged = 0, PackTypes', PackSound'
  PROVE  RepairInv'
<1>1. /\ sqd' = sqd /\ end_frame' = end_frame /\ sqi' = sqi /\ tossing' = tossing
      /\ damaged' = damaged /\ gone' = gone
      /\ UNCHANGED fixMemory
  BY DEF files
<1>2. /\ pos' = pos /\ EndPos' = EndPos /\ newbase' = newbase /\ fixmsg' = fixmsg
      /\ refused' = refused /\ whole' = whole
  BY <1>1 DEF fixMemory
<1>3. RepairTypeOK'
  BY <1>1, <1>2 DEF RepairInv, RepairTypeOK, FileType, PackTypes
<1>4. FileSound'
  BY <1>1 DEF RepairInv, FileSound, TossingSound, TossEnd, Tossed
<1>5. Idle'
  BY <1>1, <1>2 DEF RepairInv, Idle, NoFix
<1>6. GoneSound'
  BY <1>1, <1>2 DEF RepairInv, GoneSound, Stored
<1>7. FixSound'
  BY DEF FixSound, Fixed, WholeRecovered, TextWhole
<1> QED
  BY <1>3, <1>4, <1>5, <1>6, <1>7 DEF RepairInv

\* What the index and the file promise to pack.
LEMMA PackFacts ==
  ASSUME RepairInv, tossing = << >>, damaged = 0
  PROVE  /\ sqd \in Seq(Cell) /\ Len(sqd) \in Nat /\ Len(sqi) \in Nat
         /\ OnceIn(sqd) /\ FIRST = 2
         /\ \A k \in 1 .. Len(sqi) :
              /\ sqi[k].ofs \in Nat /\ sqi[k] \in [ofs : Nat, umsgid : Nat]
              /\ sqi[k].ofs # 0 =>
                   /\ IsHdr(sqd, sqi[k].ofs) /\ sqi[k].ofs >= 2 /\ sqd[sqi[k].ofs] \in Header
                   /\ LastCell(sqd, sqi[k].ofs) \in Nat
                   /\ LastCell(sqd, sqi[k].ofs) <= Len(sqd)
                   /\ LastCell(sqd, sqi[k].ofs) >= sqi[k].ofs
         /\ \A j, k \in 1 .. Len(sqi) :
              j # k /\ sqi[j].ofs # 0 /\ sqi[k].ofs # 0
                => \/ LastCell(sqd, sqi[j].ofs) < sqi[k].ofs
                   \/ LastCell(sqd, sqi[k].ofs) < sqi[j].ofs
<1>1. /\ sqd \in Seq(Cell) /\ Len(sqd) \in Nat /\ Len(sqi) \in Nat
      /\ OnceIn(sqd) /\ FIRST = 2 /\ end_frame \in Nat
      /\ IndexSound(sqd, sqi, end_frame) /\ TossEnd <= Len(sqd) + 1
  BY FileFacts DEF RepairInv, RepairTypeOK, FileType, FileSound, EndSound, FIRST, SQBASE_SIZE
<1>2. end_frame <= Len(sqd) + 1
  BY <1>1 DEF TossEnd, Tossed
<1>3. ASSUME NEW k \in 1 .. Len(sqi)
      PROVE  sqi[k].ofs \in Nat /\ sqi[k] \in [ofs : Nat, umsgid : Nat]
  BY FileFacts DEF RepairInv
<1>4. ASSUME NEW k \in 1 .. Len(sqi), sqi[k].ofs # 0
      PROVE  /\ IsHdr(sqd, sqi[k].ofs) /\ sqi[k].ofs >= 2 /\ sqd[sqi[k].ofs] \in Header
             /\ LastCell(sqd, sqi[k].ofs) \in Nat
             /\ LastCell(sqd, sqi[k].ofs) <= Len(sqd)
             /\ LastCell(sqd, sqi[k].ofs) >= sqi[k].ofs
  <2>1. /\ sqi[k].ofs >= FIRST /\ IsHdr(sqd, sqi[k].ofs)
        /\ LastCell(sqd, sqi[k].ofs) < end_frame
    BY <1>1, <1>4 DEF IndexSound, EntrySound
  <2>2. /\ LastCell(sqd, sqi[k].ofs) \in Nat /\ LastCell(sqd, sqi[k].ofs) >= sqi[k].ofs
        /\ sqd[sqi[k].ofs] \in Header
    BY <1>1, <2>1, LastIs, HdrAt
  <2>3. LastCell(sqd, sqi[k].ofs) <= Len(sqd)
    BY <1>1, <1>2, <2>1, <2>2
  <2> QED
    BY <1>1, <2>1, <2>2, <2>3
<1>5. ASSUME NEW j \in 1 .. Len(sqi), NEW k \in 1 .. Len(sqi),
             j # k, sqi[j].ofs # 0, sqi[k].ofs # 0
      PROVE  \/ LastCell(sqd, sqi[j].ofs) < sqi[k].ofs
             \/ LastCell(sqd, sqi[k].ofs) < sqi[j].ofs
  BY <1>1, <1>5 DEF IndexSound, EntrySound
<1> QED
  BY <1>1, <1>3, <1>4, <1>5

\* Nothing is copied yet; what is in sqidx is only used if there are no entries.
LEMMA PackOpenStep ==
  ASSUME RepairInv, PackOpen, UNCHANGED << fixMemory, gone >>
  PROVE  RepairInv'
<1>1. /\ doing = "idle" /\ tossing = << >> /\ damaged = 0 /\ doing' = "pack"
      /\ UNCHANGED files /\ sqd' = sqd /\ sqi' = sqi
      /\ newsqd' = << BaseCell >> /\ newsqi' = << >> /\ sqbase' = NoBase
      /\ sqidx' \in IF sqi = << >> THEN {0, 1, FIRST + 2} ELSE {0}
      /\ sqhdr' = Junk /\ i' = 0
  BY DEF PackOpen, files
<1>2. /\ Len(sqi) \in Nat /\ FIRST = 2
      /\ \A k \in 1 .. Len(sqi) : sqi[k].ofs \in Nat /\ (sqi[k].ofs # 0 => sqi[k].ofs >= 2)
  BY <1>1, PackFacts
<1>3. /\ newsqd' \in Seq(Cell) /\ Len(newsqd') = 1 /\ newsqd'[1] = BaseCell
      /\ newsqd'[1].part = "base" /\ Len(newsqi') = 0
      /\ newsqi' \in Seq([ofs : Nat, umsgid : Nat])
  BY <1>1, CellsAre
<1>4. /\ sqbase'.begin_frame = 2 /\ sqbase'.last_frame = 2 /\ sqbase'.end_frame = 2
      /\ sqbase'.num_msg = 0
      /\ sqbase' \in [begin_frame : Nat, last_frame : Nat, end_frame : Nat,
                      num_msg : 0 .. Len(newsqi')]
  BY <1>1, <1>2, <1>3 DEF NoBase
<1>5. sqidx' \in Nat /\ (sqi # << >> => sqidx' = 0)
  BY <1>1, <1>2
<1>6. PackTypes'
  <2>1. i' \in 0 .. Len(sqi')
    <3>1. i' = 0 /\ Len(sqi') \in Nat
      BY <1>1, <1>2
    <3> QED
      BY <3>1
  <2>2. sqhdr' \in Header \cup {Junk}
    BY <1>1
  <2>3. newsqd' \in Seq(Cell) /\ newsqi' \in Seq([ofs : Nat, umsgid : Nat])
    BY <1>3
  <2>4. sqbase' \in [begin_frame : Nat, last_frame : Nat, end_frame : Nat,
                     num_msg : 0 .. Len(newsqi')]
    BY <1>4
  <2>5. sqidx' \in Nat
    BY <1>5
  <2> QED
    BY <2>1, <2>2, <2>3, <2>4, <2>5, Zenon DEF PackTypes
<1>7. Copied'
  <2>1. {j \in 1 .. i' : IsLive(j)'} = {}
    BY <1>1
  <2>2. Place(i)' = 0
    BY <2>1, FS_EmptySet DEF Place
  <2>3. Len(newsqi') = Place(i)' /\ sqbase'.num_msg = Place(i)'
    BY <2>2, <1>3, <1>4
  <2>4. 1 .. i' = {}
    BY <1>1
  <2> QED
    BY <2>3, <2>4 DEF Copied
<1>8. Chained'
  BY <1>2, <1>3, <1>4 DEF Chained, SQBASE_SIZE
<1>9. Origins(i)'
  BY <1>3 DEF Origins
<1>10. NotReached'
  <2>1. \A k \in 1 .. Len(sqi') : sqi'[k].ofs # 0 => Len(newsqd') < sqi'[k].ofs
    BY <1>1, <1>2, <1>3
  <2>2. i' + 1 .. Len(sqi') = 1 .. Len(sqi')
    BY <1>1
  <2> QED
    BY <2>1, <2>2 DEF NotReached
<1>11. LastRead'
  BY <1>1, <1>5 DEF LastRead
<1>12. PackSound'
  BY <1>1, <1>7, <1>8, <1>9, <1>10, <1>11 DEF PackSound, PackLoop
<1> QED
  BY <1>1, <1>6, <1>12, PackFrame

\* Pack copies the entries of messages that were not deleted, and no others.
LEMMA PackedIsLive ==
  ASSUME RepairInv, doing = "pack", i < Len(sqi)
  PROVE  IsPacked(i + 1) <=> IsLive(i + 1)
<1>1. tossing = << >> /\ damaged = 0
  BY DEF RepairInv, Idle
<1>2. i \in Nat /\ i + 1 \in 1 .. Len(sqi)
  <2>1. Len(sqi) \in Nat /\ i \in 0 .. Len(sqi)
    BY <1>1, PackFacts DEF RepairInv, RepairTypeOK
  <2> QED
    BY <2>1
<1>3. ASSUME sqi[i + 1].ofs # 0 PROVE sqd[sqi[i + 1].ofs].frame_type \in {"normal", "free"}
  BY <1>1, <1>2, <1>3, PackFacts, HeaderFacts
<1> QED
  BY <1>3 DEF IsPacked, IsLive

\* An entry without a message adds nothing.
LEMMA SkipStep ==
  ASSUME RepairInv, Skip, UNCHANGED << fixMemory, gone >>
  PROVE  RepairInv'
<1>1. /\ doing = "pack" /\ doing' = "pack" /\ i < Len(sqi) /\ ~IsLive(i + 1)
      /\ sqidx' = sqi[i + 1].ofs
      /\ sqhdr' = IF sqidx' = 0 THEN sqhdr ELSE sqd[sqidx']
      /\ i' = i + 1
      /\ UNCHANGED files /\ sqd' = sqd /\ sqi' = sqi
      /\ newsqd' = newsqd /\ newsqi' = newsqi /\ sqbase' = sqbase
  BY PackedIsLive DEF Skip, files
<1>2. tossing = << >> /\ damaged = 0
  BY <1>1 DEF RepairInv, Idle
<1>3. i \in Nat /\ Len(sqi) \in Nat /\ i + 1 \in 1 .. Len(sqi)
  <2>1. Len(sqi) \in Nat /\ i \in 0 .. Len(sqi)
    BY <1>2, PackFacts DEF RepairInv, RepairTypeOK
  <2> QED
    BY <2>1, <1>1
<1>4. /\ sqi[i + 1].ofs \in Nat
      /\ sqi[i + 1].ofs # 0 => sqd[sqi[i + 1].ofs] \in Header
  BY <1>2, <1>3, PackFacts
<1>5. PackTypes'
  BY <1>1, <1>3, <1>4 DEF RepairInv, RepairTypeOK, PackTypes
<1>6. PackLoop
  BY <1>1 DEF RepairInv, PackSound
<1>7. \A k : (IsLive(k)' <=> IsLive(k)) /\ Place(k)' = Place(k) /\ NewOfs(k)' = NewOfs(k)
  BY <1>1 DEF IsLive, Place, NewOfs
<1>8. Place(i') = Place(i)
  BY <1>1, <1>3, PlaceFacts
<1>9. Copied'
  <2>1. ASSUME NEW k \in 1 .. i + 1, IsLive(k) PROVE EntryCopied(k)'
    <3>1. k \in 1 .. i
      BY <1>1, <1>3, <2>1
    <3>2. EntryCopied(k)
      BY <3>1, <2>1, <1>6 DEF PackLoop, Copied
    <3> QED
      BY <3>2, <1>1, <1>7 DEF EntryCopied
  <2>2. Len(newsqi) = Place(i) /\ sqbase.num_msg = Place(i)
    BY <1>6 DEF PackLoop, Copied
  <2>3. Place(i)' = Place(i)
    BY <1>7, <1>8
  <2> QED
    BY <2>1, <2>2, <2>3, <1>1, <1>7 DEF Copied
<1>10. Chained'
  BY <1>1, <1>6, <1>7 DEF PackLoop, Chained
<1>11. Origins(i)'
  <2> SUFFICES ASSUME NEW q \in 1 .. Len(newsqd), newsqd[q].part = "xmsg"
               PROVE  \E k \in 1 .. i + 1 :
                        /\ IsLive(k)
                        /\ \E d \in 1 .. sqd[sqi[k].ofs].frame_length :
                             q = NewOfs(Place(k)) + d /\ newsqd[q] = sqd[sqi[k].ofs + d]
    BY <1>1, <1>7 DEF Origins
  <2>1. PICK k \in 1 .. i :
          /\ IsLive(k)
          /\ \E d \in 1 .. sqd[sqi[k].ofs].frame_length :
               q = NewOfs(Place(k)) + d /\ newsqd[q] = sqd[sqi[k].ofs + d]
    BY <1>6 DEF PackLoop, Origins
  <2>2. k \in 1 .. i + 1
    BY <1>3
  <2> QED
    BY <2>1, <2>2
<1>12. NotReached'
  <2> SUFFICES ASSUME InOrder, NEW k \in i + 2 .. Len(sqi), sqi[k].ofs # 0
               PROVE  Len(newsqd) < sqi[k].ofs
    <3>1. i' + 1 = i + 2
      BY <1>1, <1>3
    <3>2. InOrder' <=> InOrder
      BY <1>1 DEF InOrder
    <3> QED
      BY <3>1, <3>2, <1>1 DEF NotReached
  <2>1. k \in i + 1 .. Len(sqi)
    BY <1>3
  <2> QED
    BY <2>1, <1>6 DEF PackLoop, NotReached
<1>13. LastRead'
  <2>1. i' # 0 /\ i' = i + 1 /\ ~IsLive(i + 1)
    BY <1>1, <1>3
  <2>2. InOrder /\ sqi[i + 1].ofs # 0 => Len(newsqd) < sqi[i + 1].ofs
    <3>1. i + 1 \in i + 1 .. Len(sqi)
      BY <1>3
    <3> QED
      BY <3>1, <1>6 DEF PackLoop, NotReached
  <2>3. InOrder' <=> InOrder
    BY <1>1 DEF InOrder
  <2>4. ~IsLive(i)'
    BY <1>1, <1>7
  <2> QED
    BY <2>1, <2>2, <2>3, <2>4, <1>1 DEF LastRead
<1>14. PackSound'
  BY <1>1, <1>9, <1>10, <1>11, <1>12, <1>13 DEF PackSound, PackLoop
<1> QED
  BY <1>1, <1>2, <1>5, <1>14, PackFrame

\* A frame copied behind a file.
FrameAppended(file, c, from, p, n) ==
  file \o << c >> \o SubSeq(from, p + 1, p + n)

IsFrameAppended(made, file, c, from, p, n) ==
  /\ made \in Seq(Cell) /\ Len(made) = Len(file) + 1 + n
  /\ \A q \in 1 .. Len(file) : made[q] = file[q]
  /\ made[Len(file) + 1] = c
  /\ \A d \in 1 .. n : made[Len(file) + 1 + d] = from[p + d]

LEMMA FrameAppendedFacts ==
  ASSUME NEW file \in Seq(Cell), NEW from \in Seq(Cell), NEW c \in Cell,
         NEW p \in Nat, NEW n \in Nat, p + n <= Len(from)
  PROVE  IsFrameAppended(FrameAppended(file, c, from, p, n), file, c, from, p, n)
<1> DEFINE made == FrameAppended(file, c, from, p, n)
           front == file \o << c >>
           frame == SubSeq(from, p + 1, p + n)
<1>1. Len(file) \in Nat /\ Len(from) \in Nat /\ << c >> \in Seq(Cell) /\ Len(<< c >>) = 1
  BY LenProperties
<1>2. /\ front \in Seq(Cell) /\ Len(front) = Len(file) + 1
      /\ \A q \in 1 .. Len(file) : front[q] = file[q]
      /\ front[Len(file) + 1] = c
  BY <1>1, ConcatProperties
<1>3. \A q \in p + 1 .. p + n : from[q] \in Cell
  <2>1. \A q \in p + 1 .. p + n : q \in 1 .. Len(from)
    BY <1>1
  <2> QED
    BY <2>1, ElementOfSeq
<1>4. /\ frame \in Seq(Cell)
      /\ Len(frame) = IF p + 1 <= p + n THEN p + n - (p + 1) + 1 ELSE 0
      /\ \A d \in 1 .. p + n - (p + 1) + 1 : frame[d] = from[p + 1 + d - 1]
  <2>1. p + 1 \in Int /\ p + n \in Int
    OBVIOUS
  <2>2. frame \in Seq(Cell)
    BY <2>1, <1>3, SubSeqProperties
  <2>3. Len(frame) = IF p + 1 <= p + n THEN p + n - (p + 1) + 1 ELSE 0
    BY <2>1, SubSeqProperties
  <2>4. \A d \in 1 .. p + n - (p + 1) + 1 : frame[d] = from[p + 1 + d - 1]
    BY <2>1, SubSeqProperties
  <2> QED
    BY <2>2, <2>3, <2>4
<1>5. Len(frame) = n /\ \A d \in 1 .. n : frame[d] = from[p + d]
  <2>1. Len(frame) = n /\ p + n - (p + 1) + 1 = n
    BY <1>4
  <2>2. ASSUME NEW d \in 1 .. n PROVE frame[d] = from[p + d]
    <3>1. frame[d] = from[p + 1 + d - 1] /\ p + 1 + d - 1 = p + d
      BY <1>4, <2>1
    <3> QED
      BY <3>1
  <2> QED
    BY <2>1, <2>2
<1>6. made = front \o frame
  BY DEF FrameAppended
<1> HIDE DEF front, frame, made
<1>7. /\ made \in Seq(Cell) /\ Len(made) = Len(front) + Len(frame)
      /\ \A q \in 1 .. Len(front) + Len(frame) :
           made[q] = IF q <= Len(front) THEN front[q] ELSE frame[q - Len(front)]
  <2>1. front \in Seq(Cell) /\ frame \in Seq(Cell)
    BY <1>2, <1>4
  <2>2. /\ front \o frame \in Seq(Cell)
        /\ Len(front \o frame) = Len(front) + Len(frame)
        /\ \A q \in 1 .. Len(front) + Len(frame) :
             (front \o frame)[q] = IF q <= Len(front) THEN front[q] ELSE frame[q - Len(front)]
    BY <2>1, ConcatProperties
  <2> QED
    BY <2>2, <1>6
<1>8. Len(made) = Len(file) + 1 + n
  BY <1>1, <1>2, <1>5, <1>7
<1>9. ASSUME NEW q \in 1 .. Len(file) + 1 PROVE made[q] = front[q]
  <2>1. q \in 1 .. Len(front) + Len(frame) /\ q <= Len(front)
    BY <1>1, <1>2, <1>5
  <2> QED
    BY <2>1, <1>7
<1>10. ASSUME NEW d \in 1 .. n PROVE made[Len(file) + 1 + d] = from[p + d]
  <2>1. /\ Len(file) + 1 + d \in 1 .. Len(front) + Len(frame)
        /\ ~(Len(file) + 1 + d <= Len(front)) /\ Len(file) + 1 + d - Len(front) = d
    BY <1>1, <1>2, <1>5
  <2>2. made[Len(file) + 1 + d] = frame[d]
    BY <2>1, <1>7
  <2> QED
    BY <2>2, <1>5
<1>11. \A q \in 1 .. Len(file) : made[q] = file[q]
  BY <1>1, <1>2, <1>9
<1>12. made[Len(file) + 1] = c
  BY <1>1, <1>2, <1>9
<1> QED
  BY <1>7, <1>8, <1>10, <1>11, <1>12 DEF made, IsFrameAppended

\* Where the new frames are.
LEMMA ChainFacts ==
  ASSUME newsqd \in Seq(Cell), newsqi \in Seq([ofs : Nat, umsgid : Nat]), Chained
  PROVE  /\ Len(newsqd) \in Nat /\ Len(newsqd) >= 1 /\ Len(newsqi) \in Nat
         /\ \A k \in 1 .. Len(newsqi) :
              /\ NewOfs(k) \in Nat /\ NewOfs(k) >= 2 /\ IsHdr(newsqd, NewOfs(k))
              /\ newsqd[NewOfs(k)] \in Header
              /\ LastCell(newsqd, NewOfs(k)) \in Nat
              /\ LastCell(newsqd, NewOfs(k)) >= NewOfs(k)
              /\ LastCell(newsqd, NewOfs(k)) <= Len(newsqd)
<1>1. Len(newsqd) \in Nat /\ Len(newsqi) \in Nat
  BY LenProperties
<1>2. ASSUME NEW k \in 1 .. Len(newsqi)
      PROVE  /\ NewOfs(k) \in Nat /\ NewOfs(k) >= 2 /\ IsHdr(newsqd, NewOfs(k))
             /\ newsqd[NewOfs(k)] \in Header
             /\ LastCell(newsqd, NewOfs(k)) \in Nat
             /\ LastCell(newsqd, NewOfs(k)) >= NewOfs(k)
             /\ NewOfs(k) \in 1 .. Len(newsqd)
  <2>1. newsqi[k] \in [ofs : Nat, umsgid : Nat]
    BY ElementOfSeq
  <2>2. NewOfs(k) \in Nat
    BY <2>1 DEF NewOfs
  <2>3. NewOfs(k) >= 2 /\ IsHdr(newsqd, NewOfs(k))
    BY DEF Chained, FIRST, SQBASE_SIZE
  <2> QED
    BY <2>2, <2>3, HdrAt, LastIs
<1>3. ASSUME NEW k \in 1 .. Len(newsqi)
      PROVE  LastCell(newsqd, NewOfs(k)) <= Len(newsqd)
  <2>1. /\ LastCell(newsqd, NewOfs(k)) + 1
             = IF k = Len(newsqi) THEN Len(newsqd) + 1 ELSE NewOfs(k + 1)
        /\ LastCell(newsqd, NewOfs(k)) \in Nat
    BY <1>2 DEF Chained
  <2>2. CASE k = Len(newsqi)
    BY <2>1, <2>2, <1>1
  <2>3. CASE k # Len(newsqi)
    <3>1. k + 1 \in 1 .. Len(newsqi)
      BY <1>1, <2>3
    <3>2. NewOfs(k + 1) \in 1 .. Len(newsqd)
      BY <3>1, <1>2
    <3> QED
      BY <3>2, <2>1, <2>3, <1>1
  <2> QED
    BY <2>2, <2>3
<1>4. Len(newsqd) >= 1
  <2>1. CASE Len(newsqi) = 0
    BY <2>1 DEF Chained, SQBASE_SIZE
  <2>2. CASE Len(newsqi) # 0
    <3>1. 1 \in 1 .. Len(newsqi)
      BY <1>1, <2>2
    <3>2. NewOfs(1) \in 1 .. Len(newsqd)
      BY <3>1, <1>2
    <3> QED
      BY <3>2, <1>1
  <2> QED
    BY <2>1, <2>2
<1> QED
  BY <1>1, <1>2, <1>3, <1>4

\* A message more in the new files: what was copied stays, and the links lead on.
LEMMA CopyStep ==
  ASSUME RepairInv, Copy, UNCHANGED << fixMemory, gone >>
  PROVE  RepairInv'
<1> DEFINE n == Len(newsqi)
           a == Len(newsqd)
           ofs == sqi[i + 1].ofs
           hdr == sqd[ofs]
           length == hdr.frame_length
           next == a + 1 + SQHDR_SIZE + length
           h == [hdr EXCEPT !.prev_frame = PrevFrame(sqbase), !.next_frame = next]
<1>1. /\ doing = "pack" /\ doing' = "pack" /\ i < Len(sqi) /\ IsLive(i + 1)
      /\ sqidx' = a + 1 /\ i' = i + 1
      /\ UNCHANGED files /\ sqd' = sqd /\ sqi' = sqi
  BY PackedIsLive DEF Copy, files
<1>30. /\ sqhdr' = h
       /\ newsqd' = newsqd \o << h >> \o SubSeq(sqd, ofs + SQHDR_SIZE, ofs + length)
       /\ newsqi' = Append(newsqi, [sqi[i + 1] EXCEPT !.ofs = a + 1])
       /\ sqbase' = [sqbase EXCEPT !.last_frame = a + 1, !.end_frame = next,
                                   !.num_msg = @ + 1]
  BY DEF Copy
<1>2. tossing = << >> /\ damaged = 0
  BY <1>1 DEF RepairInv, Idle
<1>3. i \in Nat /\ Len(sqi) \in Nat /\ i + 1 \in 1 .. Len(sqi)
  <2>1. Len(sqi) \in Nat /\ i \in 0 .. Len(sqi)
    BY <1>2, PackFacts DEF RepairInv, RepairTypeOK
  <2> QED
    BY <2>1, <1>1
<1>4. /\ ofs \in Nat /\ ofs # 0 /\ sqi[i + 1] \in [ofs : Nat, umsgid : Nat]
      /\ hdr \in Header /\ length \in Nat /\ LastCell(sqd, ofs) = ofs + length
      /\ ofs + length <= Len(sqd) /\ sqd \in Seq(Cell) /\ Len(sqd) \in Nat
  <2>1. ofs # 0
    BY <1>1 DEF IsLive
  <2>2. /\ ofs \in Nat /\ sqi[i + 1] \in [ofs : Nat, umsgid : Nat]
        /\ hdr \in Header /\ LastCell(sqd, ofs) <= Len(sqd)
        /\ sqd \in Seq(Cell) /\ Len(sqd) \in Nat
    BY <1>2, <1>3, <2>1, PackFacts
  <2>3. LastCell(sqd, ofs) = ofs + length
    BY DEF LastCell
  <2> QED
    BY <2>1, <2>2, <2>3, HeaderFacts
<1>5. /\ newsqd \in Seq(Cell) /\ newsqi \in Seq([ofs : Nat, umsgid : Nat])
      /\ sqbase \in [begin_frame : Nat, last_frame : Nat, end_frame : Nat,
                     num_msg : 0 .. Len(newsqi)]
  BY DEF RepairInv, RepairTypeOK
<1>6. PackLoop /\ Copied /\ Chained /\ Origins(i) /\ NotReached
  BY <1>1 DEF RepairInv, PackSound, PackLoop
<1>7. /\ n = Place(i) /\ sqbase.num_msg = n /\ sqbase.begin_frame = FIRST
      /\ n # 0 => sqbase.last_frame = NewOfs(n)
      /\ IF n = 0 THEN a = SQBASE_SIZE ELSE NewOfs(1) = FIRST
  BY <1>6 DEF Copied, Chained
<1>8. n \in Nat /\ a \in Nat /\ a >= 1
  BY <1>5, <1>6, ChainFacts
<1>9. next \in Nat /\ next = a + 2 + length
  BY <1>4, <1>8 DEF SQHDR_SIZE
<1>10. /\ h \in Header /\ h.msg = hdr.msg /\ h.frame_length = length
       /\ h.prev_frame = PrevFrame(sqbase) /\ h.next_frame = next
  <2>1. PrevFrame(sqbase) \in Nat
    BY <1>5 DEF PrevFrame
  <2>2. hdr \in Header /\ next \in Nat /\ hdr.frame_length = length
    BY <1>4, <1>9
  <2> HIDE DEF hdr, next, length
  <2>3. h = Relinked(hdr, PrevFrame(sqbase), next)
    BY DEF Relinked
  <2> HIDE DEF h
  <2>4. Relinked(hdr, PrevFrame(sqbase), next) \in Header
    BY <2>1, <2>2, RelinkedFacts
  <2>5. h \in Header
    BY <2>3, <2>4
  <2>6. h.next_frame = next
    BY <2>1, <2>2, <2>3, RelinkedFacts
  <2>7. h.msg = hdr.msg
    BY <2>1, <2>2, <2>3, RelinkedFacts
  <2>8. h.frame_length = hdr.frame_length
    BY <2>1, <2>2, <2>3, RelinkedFacts
  <2>9. h.prev_frame = PrevFrame(sqbase)
    BY <2>1, <2>2, <2>3, RelinkedFacts
  <2> QED
    BY <2>2, <2>5, <2>6, <2>7, <2>8, <2>9
<1> HIDE DEF h
<1>11. /\ newsqd' \in Seq(Cell) /\ Len(newsqd') = a + 1 + length
       /\ \A q \in 1 .. a : newsqd'[q] = newsqd[q]
       /\ newsqd'[a + 1] = h
       /\ \A d \in 1 .. length : newsqd'[a + 1 + d] = sqd[ofs + d]
  <2>1. newsqd' = FrameAppended(newsqd, h, sqd, ofs, length)
    BY <1>30 DEF SQHDR_SIZE, FrameAppended
  <2>2. h \in Cell
    BY <1>10, CellsAre
  <2>3. /\ newsqd \in Seq(Cell) /\ sqd \in Seq(Cell) /\ ofs \in Nat /\ length \in Nat
        /\ ofs + length <= Len(sqd)
    BY <1>4, <1>5
  <2> HIDE DEF hdr, ofs, length
  <2>4. IsFrameAppended(newsqd', newsqd, h, sqd, ofs, length)
    BY <2>1, <2>2, <2>3, FrameAppendedFacts
  <2> QED
    BY <2>4 DEF IsFrameAppended
<1>12. [sqi[i + 1] EXCEPT !.ofs = a + 1] \in [ofs : Nat, umsgid : Nat]
       /\ [sqi[i + 1] EXCEPT !.ofs = a + 1].ofs = a + 1
       /\ [sqi[i + 1] EXCEPT !.ofs = a + 1].umsgid = sqi[i + 1].umsgid
  BY <1>4, <1>8
<1>13. /\ newsqi' \in Seq([ofs : Nat, umsgid : Nat]) /\ Len(newsqi') = n + 1
       /\ \A k \in 1 .. n : newsqi'[k] = newsqi[k]
       /\ newsqi'[n + 1] = [sqi[i + 1] EXCEPT !.ofs = a + 1]
  <2> DEFINE e == [sqi[i + 1] EXCEPT !.ofs = a + 1]
  <2>1. /\ newsqi' = Append(newsqi, e) /\ e \in [ofs : Nat, umsgid : Nat]
        /\ newsqi \in Seq([ofs : Nat, umsgid : Nat])
    BY <1>5, <1>12, <1>30
  <2> HIDE DEF e
  <2>2. /\ newsqi' \in Seq([ofs : Nat, umsgid : Nat]) /\ Len(newsqi') = n + 1
        /\ \A k \in 1 .. n : newsqi'[k] = newsqi[k]
        /\ newsqi'[n + 1] = e
    BY <2>1, AppendProperties
  <2> QED
    BY <2>2 DEF e
<1>14. /\ sqbase'.num_msg = n + 1 /\ sqbase'.last_frame = a + 1
       /\ sqbase'.end_frame = next /\ sqbase'.begin_frame = FIRST
       /\ sqbase' \in [begin_frame : Nat, last_frame : Nat, end_frame : Nat,
                       num_msg : 0 .. Len(newsqi')]
  <2> HIDE DEF next, n, a
  <2>1. sqbase' = [sqbase EXCEPT !.last_frame = a + 1, !.end_frame = next,
                                 !.num_msg = @ + 1]
    BY <1>30
  <2>2. /\ n + 1 \in 0 .. n + 1 /\ n + 1 \in Nat /\ a + 1 \in Nat /\ next \in Nat
        /\ Len(newsqi') = n + 1
    BY <1>8, <1>9, <1>13
  <2>3. sqbase \in [begin_frame : Nat, last_frame : Nat, end_frame : Nat, num_msg : 0 .. n]
    BY <1>5 DEF n
  <2>4. sqbase.num_msg = n /\ sqbase.begin_frame = FIRST
    BY <1>7
  <2> DEFINE b == [sqbase EXCEPT !.last_frame = a + 1]
             c == [b EXCEPT !.end_frame = next]
             d == [c EXCEPT !.num_msg = n + 1]
  <2>5. /\ b \in [begin_frame : Nat, last_frame : Nat, end_frame : Nat, num_msg : 0 .. n]
        /\ b.last_frame = a + 1 /\ b.begin_frame = FIRST /\ b.num_msg = n
    BY <2>2, <2>3, <2>4
  <2>6. sqbase' = d
    BY <2>1, <2>4
  <2> HIDE DEF b
  <2>7. /\ c \in [begin_frame : Nat, last_frame : Nat, end_frame : Nat, num_msg : 0 .. n]
        /\ c.last_frame = a + 1 /\ c.begin_frame = FIRST /\ c.end_frame = next
    BY <2>2, <2>5
  <2> HIDE DEF c
  <2>8. /\ d \in [begin_frame : Nat, last_frame : Nat, end_frame : Nat, num_msg : 0 .. n + 1]
        /\ d.last_frame = a + 1 /\ d.begin_frame = FIRST /\ d.end_frame = next
        /\ d.num_msg = n + 1
    BY <2>2, <2>7
  <2> HIDE DEF d
  <2>9. sqbase' \in [begin_frame : Nat, last_frame : Nat, end_frame : Nat,
                      num_msg : 0 .. Len(newsqi')]
    <3> DEFINE to == Len(newsqi')
               upto == n + 1
    <3>1. to = upto /\ d \in [begin_frame : Nat, last_frame : Nat, end_frame : Nat,
                             num_msg : 0 .. upto]
      BY <2>2, <2>8
    <3> HIDE DEF to, upto
    <3>2. sqbase' \in [begin_frame : Nat, last_frame : Nat, end_frame : Nat, num_msg : 0 .. to]
      BY <3>1, <2>6
    <3> QED
      BY <3>2 DEF to
  <2> QED
    BY <2>6, <2>8, <2>9
<1>15. PackTypes'
  <2>1. sqidx' \in Nat /\ i' \in 0 .. Len(sqi')
    BY <1>1, <1>3, <1>8
  <2>2. sqhdr' \in Header \cup {Junk}
    BY <1>10, <1>30
  <2> QED
    BY <2>1, <2>2, <1>11, <1>13, <1>14 DEF PackTypes
<1>16. \A k \in 1 .. n :
         /\ NewOfs(k) \in Nat /\ NewOfs(k) >= 2 /\ IsHdr(newsqd, NewOfs(k))
         /\ newsqd[NewOfs(k)].frame_length \in Nat
         /\ NewOfs(k) + newsqd[NewOfs(k)].frame_length <= a
         /\ LastCell(newsqd, NewOfs(k)) \in Nat /\ LastCell(newsqd, NewOfs(k)) <= a
  <2> SUFFICES ASSUME NEW k \in 1 .. n
               PROVE  /\ NewOfs(k) \in Nat /\ NewOfs(k) >= 2 /\ IsHdr(newsqd, NewOfs(k))
                      /\ newsqd[NewOfs(k)].frame_length \in Nat
                      /\ NewOfs(k) + newsqd[NewOfs(k)].frame_length <= a
                      /\ LastCell(newsqd, NewOfs(k)) \in Nat
                      /\ LastCell(newsqd, NewOfs(k)) <= a
    OBVIOUS
  <2>1. /\ NewOfs(k) \in Nat /\ NewOfs(k) >= 2 /\ IsHdr(newsqd, NewOfs(k))
        /\ newsqd[NewOfs(k)] \in Header
        /\ LastCell(newsqd, NewOfs(k)) \in Nat /\ LastCell(newsqd, NewOfs(k)) <= a
    BY <1>5, <1>6, ChainFacts
  <2>2. newsqd[NewOfs(k)].frame_length \in Nat
    BY <2>1, HeaderFacts
  <2> QED
    BY <2>1, <2>2 DEF LastCell
<1> HIDE DEF a, n, length, next, hdr, ofs
<1>17. /\ \A k \in 1 .. n : newsqi'[k].ofs = NewOfs(k)
       /\ newsqi'[n + 1].ofs = a + 1
       /\ FIRST = 2
  BY <1>12, <1>13 DEF NewOfs, FIRST, SQBASE_SIZE
<1>18. ASSUME NEW k \in 1 .. n
       PROVE  /\ IsHdr(newsqd', NewOfs(k)) /\ newsqd'[NewOfs(k)] = newsqd[NewOfs(k)]
              /\ LastCell(newsqd', NewOfs(k)) = LastCell(newsqd, NewOfs(k))
              /\ \A d \in 1 .. newsqd[NewOfs(k)].frame_length :
                   newsqd'[NewOfs(k) + d] = newsqd[NewOfs(k) + d]
  <2>1. /\ NewOfs(k) \in Nat /\ NewOfs(k) >= 2 /\ IsHdr(newsqd, NewOfs(k))
        /\ newsqd[NewOfs(k)].frame_length \in Nat
        /\ NewOfs(k) + newsqd[NewOfs(k)].frame_length <= a
    BY <1>16
  <2>2. NewOfs(k) \in 1 .. a /\ NewOfs(k) \in 1 .. Len(newsqd')
    BY <2>1, <1>4, <1>8, <1>11
  <2>3. newsqd'[NewOfs(k)] = newsqd[NewOfs(k)]
    BY <2>2, <1>11
  <2>4. ASSUME NEW d \in 1 .. newsqd[NewOfs(k)].frame_length
        PROVE  newsqd'[NewOfs(k) + d] = newsqd[NewOfs(k) + d]
    <3>1. NewOfs(k) + d \in 1 .. a
      BY <2>1, <1>8
    <3> QED
      BY <3>1, <1>11
  <2> QED
    BY <2>1, <2>2, <2>3, <2>4 DEF IsHdr, LastCell
<1>19. /\ IsHdr(newsqd', a + 1) /\ LastCell(newsqd', a + 1) = a + 1 + length
       /\ LastCell(newsqd', a + 1) + 1 = next /\ next = Len(newsqd') + 1
  <2>1. h.part = "hdr"
    BY <1>10, CellsAre
  <2>2. length \in Nat /\ a \in Nat /\ next = a + 2 + length /\ Len(newsqd') = a + 1 + length
    BY <1>4, <1>8, <1>9, <1>11
  <2>3. newsqd'[a + 1] = h /\ h.frame_length = length
    BY <1>10, <1>11
  <2>4. a + 1 \in 1 .. Len(newsqd')
    BY <2>2
  <2>5. LastCell(newsqd', a + 1) = a + 1 + length
    BY <2>3 DEF LastCell
  <2> QED
    BY <2>1, <2>2, <2>3, <2>4, <2>5 DEF IsHdr
<1>20. \A k : (IsLive(k)' <=> IsLive(k)) /\ Place(k)' = Place(k)
  BY <1>1 DEF IsLive, Place
<1>21. Place(i + 1) = n + 1
  BY <1>1, <1>3, <1>7, PlaceFacts
<1>22. ASSUME NEW k \in 1 .. i, IsLive(k)
       PROVE  Place(k) \in 1 .. n
  <2>1. k \in Nat /\ k >= 1 /\ k <= i
    BY <1>3
  <2>2. Place(k) \in Nat /\ Place(k) <= Place(i) /\ Place(0) < Place(k)
    BY <2>1, <1>3, <1>22, PlaceFacts
  <2> QED
    BY <2>2, <1>7, <1>8, PlaceFacts
<1>23. Copied'
  <2>1. ASSUME NEW k \in 1 .. i + 1, IsLive(k) PROVE EntryCopied(k)'
    <3>1. CASE k = i + 1
      <4>1. Place(k)' = n + 1 /\ newsqi'[n + 1].ofs = a + 1
        BY <3>1, <1>12, <1>13, <1>20, <1>21
      <4>2. /\ newsqi'[n + 1].umsgid = sqi[k].umsgid
            /\ newsqd'[a + 1].msg = sqd[sqi[k].ofs].msg
            /\ newsqd'[a + 1].frame_length = sqd[sqi[k].ofs].frame_length
            /\ \A d \in 1 .. sqd[sqi[k].ofs].frame_length :
                 newsqd'[a + 1 + d] = sqd[sqi[k].ofs + d]
        BY <3>1, <1>10, <1>11, <1>12, <1>13 DEF ofs, hdr, length
      <4> QED
        BY <4>1, <4>2, <1>1 DEF EntryCopied, NewOfs
    <3>2. CASE k # i + 1
      <4>1. k \in 1 .. i
        BY <3>2, <1>3
      <4>2. EntryCopied(k) /\ Place(k) \in 1 .. n
        BY <4>1, <2>1, <1>6, <1>22 DEF Copied
      <4>3. Place(k)' = Place(k) /\ newsqi'[Place(k)] = newsqi[Place(k)]
        BY <4>2, <1>13, <1>20
      <4>4. /\ newsqd'[NewOfs(Place(k))] = newsqd[NewOfs(Place(k))]
            /\ \A d \in 1 .. newsqd[NewOfs(Place(k))].frame_length :
                 newsqd'[NewOfs(Place(k)) + d] = newsqd[NewOfs(Place(k)) + d]
        BY <4>2, <1>18
      <4> QED
        BY <4>2, <4>3, <4>4, <1>1 DEF EntryCopied, NewOfs
    <3> QED
      BY <3>1, <3>2
  <2>2. Place(i)' = n + 1
    BY <1>1, <1>20, <1>21 DEF Place
  <2> QED
    BY <2>1, <2>2, <1>1, <1>13, <1>14, <1>20 DEF Copied
<1>24. Chained'
  <2>1. ASSUME NEW k \in 1 .. n + 1
        PROVE  /\ newsqi'[k].ofs >= FIRST /\ IsHdr(newsqd', newsqi'[k].ofs)
               /\ newsqd'[newsqi'[k].ofs].prev_frame = IF k = 1 THEN 0 ELSE newsqi'[k - 1].ofs
               /\ newsqd'[newsqi'[k].ofs].next_frame = LastCell(newsqd', newsqi'[k].ofs) + 1
               /\ LastCell(newsqd', newsqi'[k].ofs) + 1
                    = IF k = n + 1 THEN Len(newsqd') + 1 ELSE newsqi'[k + 1].ofs
               /\ \A j \in 1 .. k - 1 : LastCell(newsqd', newsqi'[j].ofs) < newsqi'[k].ofs
    <3>1. CASE k = n + 1
      <4>1. newsqi'[k].ofs = a + 1 /\ a + 1 >= FIRST
        <5>1. newsqi'[n + 1].ofs = a + 1 /\ FIRST = 2
          BY <1>17
        <5> QED
          BY <5>1, <3>1, <1>8
      <4>2. newsqd'[a + 1].prev_frame = IF k = 1 THEN 0 ELSE newsqi'[k - 1].ofs
        <5>1. CASE n = 0
          BY <5>1, <3>1, <1>7, <1>10, <1>11 DEF PrevFrame
        <5>2. CASE n # 0
          <6>1. k - 1 = n /\ k # 1 /\ n \in 1 .. n
            BY <5>2, <3>1, <1>8
          <6>2. newsqi'[k - 1].ofs = NewOfs(n)
            BY <6>1, <1>17
          <6> QED
            BY <5>2, <6>1, <6>2, <1>7, <1>10, <1>11 DEF PrevFrame
        <5> QED
          BY <5>1, <5>2
      <4>3. newsqd'[a + 1].next_frame = LastCell(newsqd', a + 1) + 1
        BY <1>10, <1>11, <1>19
      <4>4. ASSUME NEW j \in 1 .. k - 1 PROVE LastCell(newsqd', newsqi'[j].ofs) < a + 1
        <5>1. j \in 1 .. n
          BY <3>1, <1>8
        <5>2. /\ newsqi'[j].ofs = NewOfs(j)
              /\ LastCell(newsqd', NewOfs(j)) = LastCell(newsqd, NewOfs(j))
              /\ LastCell(newsqd, NewOfs(j)) \in Nat /\ LastCell(newsqd, NewOfs(j)) <= a
          BY <5>1, <1>16, <1>17, <1>18
        <5> QED
          BY <5>2, <1>8
      <4> QED
        BY <3>1, <4>1, <4>2, <4>3, <4>4, <1>19
    <3>2. CASE k # n + 1
      <4>1. k \in 1 .. n /\ newsqi'[k].ofs = NewOfs(k)
        BY <3>2, <1>8, <1>17
      <4>2. /\ NewOfs(k) >= FIRST
            /\ newsqd[NewOfs(k)].prev_frame = IF k = 1 THEN 0 ELSE NewOfs(k - 1)
            /\ newsqd[NewOfs(k)].next_frame = LastCell(newsqd, NewOfs(k)) + 1
            /\ LastCell(newsqd, NewOfs(k)) + 1 = IF k = n THEN a + 1 ELSE NewOfs(k + 1)
            /\ \A j \in 1 .. k - 1 : LastCell(newsqd, NewOfs(j)) < NewOfs(k)
        BY <4>1, <1>6 DEF Chained, a, n
      <4>3. k # 1 => newsqi'[k - 1].ofs = NewOfs(k - 1)
        <5>1. k # 1 => k - 1 \in 1 .. n
          BY <4>1, <1>8
        <5> QED
          BY <5>1, <1>17
      <4>4. newsqi'[k + 1].ofs = IF k = n THEN a + 1 ELSE NewOfs(k + 1)
        <5>1. CASE k = n
          BY <5>1, <1>17
        <5>2. CASE k # n
          <6>1. k + 1 \in 1 .. n
            BY <5>2, <4>1, <1>8
          <6> QED
            BY <5>2, <6>1, <1>17
        <5> QED
          BY <5>1, <5>2
      <4>5. ASSUME NEW j \in 1 .. k - 1 PROVE LastCell(newsqd', newsqi'[j].ofs) < NewOfs(k)
        <5>1. j \in 1 .. n
          BY <4>1, <1>8
        <5>2. /\ newsqi'[j].ofs = NewOfs(j)
              /\ LastCell(newsqd', NewOfs(j)) = LastCell(newsqd, NewOfs(j))
          BY <5>1, <1>17, <1>18
        <5> QED
          BY <5>2, <4>2
      <4>6. /\ IsHdr(newsqd', NewOfs(k)) /\ newsqd'[NewOfs(k)] = newsqd[NewOfs(k)]
            /\ LastCell(newsqd', NewOfs(k)) = LastCell(newsqd, NewOfs(k))
        BY <4>1, <1>18
      <4>7. LastCell(newsqd', NewOfs(k)) + 1 = newsqi'[k + 1].ofs
        BY <4>2, <4>4, <4>6
      <4>8. newsqd'[NewOfs(k)].prev_frame = IF k = 1 THEN 0 ELSE newsqi'[k - 1].ofs
        BY <4>2, <4>3, <4>6
      <4> QED
        BY <3>2, <4>1, <4>2, <4>5, <4>6, <4>7, <4>8
    <3> QED
      BY <3>1, <3>2
  <2>2. newsqi'[1].ofs = FIRST
    <3>1. CASE n = 0
      <4>1. newsqi'[n + 1].ofs = a + 1 /\ n + 1 = 1 /\ a = 1 /\ FIRST = 2
        BY <3>1, <1>7, <1>17 DEF SQBASE_SIZE
      <4> QED
        BY <4>1
    <3>2. CASE n # 0
      <4>1. 1 \in 1 .. n
        BY <3>2, <1>8
      <4> QED
        BY <4>1, <3>2, <1>7, <1>17
    <3> QED
      BY <3>1, <3>2
  <2>3. n + 1 # 0
    BY <1>8
  <2>4. Len(newsqi') = n + 1 /\ next = Len(newsqd') + 1
    BY <1>13, <1>19
  <2>5. sqbase'.begin_frame = FIRST /\ sqbase'.end_frame = next /\ sqbase'.last_frame = a + 1
    BY <1>14
  <2>6. newsqi'[n + 1].ofs = a + 1
    BY <1>17
  <2> QED
    BY <2>1, <2>2, <2>3, <2>4, <2>5, <2>6 DEF Chained, NewOfs
<1>25. Origins(i)'
  <2> SUFFICES ASSUME NEW q \in 1 .. Len(newsqd'), newsqd'[q].part = "xmsg"
               PROVE  \E k \in 1 .. i + 1 :
                        /\ IsLive(k)
                        /\ \E d \in 1 .. sqd[sqi[k].ofs].frame_length :
                             /\ q = newsqi'[Place(k)].ofs + d
                             /\ newsqd'[q] = sqd[sqi[k].ofs + d]
    BY <1>1, <1>20 DEF Origins, NewOfs
  <2>1. CASE q \in 1 .. a
    <3>1. newsqd'[q] = newsqd[q] /\ q \in 1 .. Len(newsqd)
      BY <2>1, <1>11 DEF a
    <3>2. PICK k \in 1 .. i :
            /\ IsLive(k)
            /\ \E d \in 1 .. sqd[sqi[k].ofs].frame_length :
                 q = newsqi[Place(k)].ofs + d /\ newsqd[q] = sqd[sqi[k].ofs + d]
      BY <3>1, <1>6 DEF Origins, NewOfs
    <3>3. k \in 1 .. i + 1 /\ newsqi'[Place(k)] = newsqi[Place(k)]
      <4>1. k \in 1 .. i + 1
        BY <1>3
      <4>2. Place(k) \in 1 .. n
        BY <3>2, <1>22
      <4> QED
        BY <4>1, <4>2, <1>13
    <3> QED
      BY <3>1, <3>2, <3>3
  <2>2. CASE q \notin 1 .. a
    <3>1. q # a + 1
      <4>1. h.part = "hdr"
        BY <1>10, CellsAre
      <4> QED
        BY <4>1, <1>11
    <3>2. q - (a + 1) \in 1 .. length /\ a + 1 + (q - (a + 1)) = q
      BY <2>2, <3>1, <1>4, <1>8, <1>11
    <3>3. newsqd'[q] = sqd[ofs + (q - (a + 1))]
      BY <3>2, <1>11
    <3>4. newsqi'[Place(i + 1)].ofs = a + 1 /\ i + 1 \in 1 .. i + 1
      BY <1>3, <1>12, <1>13, <1>21
    <3> QED
      BY <3>2, <3>3, <3>4, <1>1 DEF ofs, hdr, length
  <2> QED
    BY <2>1, <2>2
<1>26. NotReached'
  <2> SUFFICES ASSUME InOrder, NEW k \in i + 2 .. Len(sqi), sqi[k].ofs # 0
               PROVE  Len(newsqd') < sqi[k].ofs
    <3>1. i' + 1 = i + 2
      BY <1>1, <1>3
    <3>2. InOrder' <=> InOrder
      BY <1>1 DEF InOrder
    <3> QED
      BY <3>1, <3>2, <1>1 DEF NotReached
  <2>1. k \in 1 .. Len(sqi) /\ i + 1 < k /\ i + 1 \in i + 1 .. Len(sqi) /\ i + 1 # k
    BY <1>3
  <2>2. ofs < sqi[k].ofs
    BY <2>1, <1>3 DEF InOrder, ofs
  <2>3. a < ofs
    BY <2>1, <1>4, <1>6 DEF NotReached, a, ofs
  <2>4. \/ LastCell(sqd, ofs) < sqi[k].ofs
        \/ LastCell(sqd, sqi[k].ofs) < ofs
    BY <2>1, <1>2, <1>3, <1>4, PackFacts DEF ofs
  <2>5. /\ sqi[k].ofs \in Nat /\ LastCell(sqd, sqi[k].ofs) \in Nat
        /\ LastCell(sqd, sqi[k].ofs) >= sqi[k].ofs
    BY <2>1, <1>2, PackFacts
  <2>6. ofs + length < sqi[k].ofs
    BY <2>2, <2>4, <2>5, <1>4
  <2> QED
    BY <2>3, <2>5, <2>6, <1>4, <1>8, <1>11
<1>27. LastRead'
  <2>1. i' # 0 /\ IsLive(i)'
    BY <1>1, <1>3, <1>20
  <2> QED
    BY <2>1, <1>1, <1>14 DEF LastRead, a
<1>28. PackSound'
  BY <1>1, <1>23, <1>24, <1>25, <1>26, <1>27 DEF PackSound, PackLoop
<1> QED
  BY <1>1, <1>2, <1>15, <1>28, PackFrame

\* A file whose next_frame is cleared at an offset.
TailCleared(made, file, p) ==
  /\ made \in Seq(Cell) /\ Len(made) >= Len(file)
  /\ \A q \in 1 .. Len(file) : q # p => made[q] = file[q]
  /\ \A q \in 2 .. Len(file) :
       file[q].part = "hdr" =>
         /\ made[q].part = "hdr" /\ made[q].msg = file[q].msg
         /\ made[q].frame_length = file[q].frame_length
         /\ made[q].prev_frame = file[q].prev_frame
         /\ made[q].next_frame = IF q = p THEN 0 ELSE file[q].next_frame
  /\ \A q \in 1 .. Len(made) :
       made[q].part \in {"xmsg", "text"} => q \in 1 .. Len(file) /\ made[q] = file[q]

LEMMA ClearedFacts ==
  ASSUME NEW file \in Seq(Cell), NEW p \in Nat, NEW h \in Header \cup {Junk}
  PROVE  /\ Cleared(file, p, h) \in Cell
         /\ Cleared(file, p, h).part \in {"hdr", "junk"}
         /\ IsHdr(file, p) => Cleared(file, p, h) = [file[p] EXCEPT !.next_frame = 0]
<1> DEFINE c == IF p \in 1 .. Len(file) THEN file[p] ELSE h
<1>1. c \in Cell
  BY ElementOfSeq, CellsAre
<1>2. Cleared(file, p, h) = IF c.part = "hdr" THEN [c EXCEPT !.next_frame = 0] ELSE Junk
  BY DEF Cleared
<1>3. IsHdr(file, p) => c = file[p] /\ c.part = "hdr"
  BY DEF IsHdr
<1> HIDE DEF c
<1>4. CASE c.part = "hdr"
  <2>1. c \in Header
    BY <1>1, <1>4, CellFacts
  <2> DEFINE made == [c EXCEPT !.next_frame = 0]
  <2>2. made \in Header
    BY <2>1, HeaderFacts
  <2>3. Cleared(file, p, h) = made
    BY <1>2, <1>4
  <2>4. IsHdr(file, p) => made = [file[p] EXCEPT !.next_frame = 0]
    BY <1>3
  <2> HIDE DEF made
  <2>5. made \in Cell /\ made.part = "hdr"
    BY <2>2, CellsAre
  <2> QED
    BY <2>3, <2>4, <2>5
<1>5. CASE c.part # "hdr"
  <2>1. Cleared(file, p, h) = Junk /\ ~IsHdr(file, p)
    BY <1>2, <1>3, <1>5
  <2> QED
    BY <2>1, CellsAre
<1> QED
  BY <1>4, <1>5

LEMMA TailClearedFacts ==
  ASSUME NEW file \in Seq(Cell), NEW p \in Nat, NEW h \in Header \cup {Junk}
  PROVE  /\ p <= 1 => TailCleared(file, file, p)
         /\ p > 1 => TailCleared(Written(file, p, << Cleared(file, p, h) >>), file, p)
<1>1. Len(file) \in Nat
  BY LenProperties
<1>2. ASSUME p <= 1 PROVE TailCleared(file, file, p)
  BY <1>1, <1>2 DEF TailCleared
<1>3. ASSUME p > 1 PROVE TailCleared(Written(file, p, << Cleared(file, p, h) >>), file, p)
  <2> DEFINE c == Cleared(file, p, h)
             made == Written(file, p, << c >>)
  <2>1. /\ c \in Cell /\ c.part \in {"hdr", "junk"}
        /\ IsHdr(file, p) => c = [file[p] EXCEPT !.next_frame = 0]
    BY ClearedFacts
  <2> HIDE DEF c
  <2>2. p \in Nat \ {0}
    BY <1>3
  <2>3. made \in Seq(Cell) /\ IsWritten(made, file, p, c)
    BY <2>1, <2>2, WrittenCell
  <2> HIDE DEF made
  <2>4. /\ Len(made) \in Nat /\ Len(made) >= p /\ Len(made) >= Len(file) /\ made[p] = c
        /\ \A q \in 1 .. Len(file) : q # p => made[q] = file[q]
        /\ \A q \in 1 .. Len(made) : q # p /\ q > Len(file) => made[q] = Hole
    BY <2>3 DEF IsWritten
  <2>5. ASSUME NEW q \in 2 .. Len(file), file[q].part = "hdr"
        PROVE  /\ made[q].part = "hdr" /\ made[q].msg = file[q].msg
               /\ made[q].frame_length = file[q].frame_length
               /\ made[q].prev_frame = file[q].prev_frame
               /\ made[q].next_frame = IF q = p THEN 0 ELSE file[q].next_frame
    <3>1. q \in 1 .. Len(file) /\ IsHdr(file, q)
      BY <1>1, <2>5 DEF IsHdr
    <3>2. CASE q # p
      <4>1. made[q] = file[q]
        BY <3>1, <3>2, <2>4
      <4> QED
        BY <4>1, <3>2, <2>5
    <3>3. CASE q = p
      <4>1. made[q] = [file[q] EXCEPT !.next_frame = 0] /\ file[q] \in Header
        BY <3>1, <3>3, <2>1, <2>4, HdrAt
      <4> DEFINE g == file[q]
                 e == [g EXCEPT !.next_frame = 0]
      <4>2. g \in Header /\ made[q] = e
        BY <4>1
      <4> HIDE DEF g
      <4>3. /\ e \in Header /\ e.msg = g.msg /\ e.frame_length = g.frame_length
            /\ e.prev_frame = g.prev_frame /\ e.next_frame = 0
        BY <4>2, HeaderFacts
      <4> HIDE DEF e
      <4>4. e.part = "hdr"
        BY <4>3, CellsAre
      <4> QED
        BY <4>2, <4>3, <4>4, <3>3 DEF g
    <3> QED
      BY <3>2, <3>3
  <2>6. ASSUME NEW q \in 1 .. Len(made), made[q].part \in {"xmsg", "text"}
        PROVE  q \in 1 .. Len(file) /\ made[q] = file[q]
    <3>1. q # p
      BY <2>1, <2>4, <2>6
    <3>2. q \in 1 .. Len(file)
      <4>1. Hole.part = "hole"
        BY CellsAre
      <4>2. ~(q > Len(file))
        BY <4>1, <3>1, <2>4, <2>6
      <4> QED
        BY <4>2, <1>1, <2>4
    <3> QED
      BY <3>1, <3>2, <2>4
  <2> QED
    BY <2>3, <2>4, <2>5, <2>6 DEF TailCleared, made, c
<1> QED
  BY <1>2, <1>3

\* The new file has each XMSG once, and none that the old one has not.
LEMMA NewOnce ==
  ASSUME RepairInv, doing = "pack", i = Len(sqi)
  PROVE  OnceIn(newsqd) /\ Stored(newsqd) \subseteq Stored(sqd)
<1>1. tossing = << >> /\ damaged = 0 /\ Origins(i)
  BY DEF RepairInv, Idle, PackSound, PackLoop
<1>2. OnceIn(sqd) /\ sqd \in Seq(Cell) /\ Len(sqd) \in Nat /\ Len(sqi) \in Nat
  BY <1>1, PackFacts
<1>3. ASSUME NEW k \in 1 .. Len(sqi), IsLive(k), NEW d \in 1 .. sqd[sqi[k].ofs].frame_length
      PROVE  /\ sqi[k].ofs + d \in 1 .. Len(sqd) /\ sqi[k].ofs \in Nat /\ d \in Nat
             /\ sqi[k].ofs # 0 /\ d >= 1
             /\ sqi[k].ofs + d <= LastCell(sqd, sqi[k].ofs)
             /\ LastCell(sqd, sqi[k].ofs) \in Nat
  <2>1. sqi[k].ofs # 0
    BY <1>3 DEF IsLive
  <2>2. /\ sqi[k].ofs \in Nat /\ sqd[sqi[k].ofs] \in Header
        /\ LastCell(sqd, sqi[k].ofs) \in Nat /\ LastCell(sqd, sqi[k].ofs) <= Len(sqd)
    BY <1>1, <2>1, PackFacts
  <2>3. sqd[sqi[k].ofs].frame_length \in Nat
    BY <2>2, HeaderFacts
  <2>4. LastCell(sqd, sqi[k].ofs) = sqi[k].ofs + sqd[sqi[k].ofs].frame_length
    BY DEF LastCell
  <2> QED
    BY <2>1, <2>2, <2>3, <2>4, <1>2
<1>4. ASSUME NEW p \in 1 .. Len(newsqd), newsqd[p].part = "xmsg"
      PROVE  \E k \in 1 .. Len(sqi) :
               /\ IsLive(k)
               /\ \E d \in 1 .. sqd[sqi[k].ofs].frame_length :
                    p = newsqi[Place(k)].ofs + d /\ newsqd[p] = sqd[sqi[k].ofs + d]
  BY <1>1, <1>4 DEF Origins, NewOfs
<1>5. OnceIn(newsqd)
  <2> SUFFICES ASSUME NEW p \in 1 .. Len(newsqd), NEW q \in 1 .. Len(newsqd),
                      newsqd[p].part = "xmsg", newsqd[p] = newsqd[q]
               PROVE  p = q
    BY DEF OnceIn
  <2>1. PICK j \in 1 .. Len(sqi) :
          /\ IsLive(j)
          /\ \E d \in 1 .. sqd[sqi[j].ofs].frame_length :
               p = newsqi[Place(j)].ofs + d /\ newsqd[p] = sqd[sqi[j].ofs + d]
    BY <1>4
  <2>2. PICK d \in 1 .. sqd[sqi[j].ofs].frame_length :
          p = newsqi[Place(j)].ofs + d /\ newsqd[p] = sqd[sqi[j].ofs + d]
    BY <2>1
  <2>3. PICK k \in 1 .. Len(sqi) :
          /\ IsLive(k)
          /\ \E e \in 1 .. sqd[sqi[k].ofs].frame_length :
               q = newsqi[Place(k)].ofs + e /\ newsqd[q] = sqd[sqi[k].ofs + e]
    BY <1>4
  <2>4. PICK e \in 1 .. sqd[sqi[k].ofs].frame_length :
          q = newsqi[Place(k)].ofs + e /\ newsqd[q] = sqd[sqi[k].ofs + e]
    BY <2>3
  <2>5. /\ sqi[j].ofs + d \in 1 .. Len(sqd) /\ sqi[j].ofs \in Nat /\ d \in Nat
        /\ sqi[j].ofs # 0 /\ d >= 1
        /\ sqi[j].ofs + d <= LastCell(sqd, sqi[j].ofs) /\ LastCell(sqd, sqi[j].ofs) \in Nat
    BY <1>3, <2>1
  <2>6. /\ sqi[k].ofs + e \in 1 .. Len(sqd) /\ sqi[k].ofs \in Nat /\ e \in Nat
        /\ sqi[k].ofs # 0 /\ e >= 1
        /\ sqi[k].ofs + e <= LastCell(sqd, sqi[k].ofs) /\ LastCell(sqd, sqi[k].ofs) \in Nat
    BY <1>3, <2>3
  <2>7. sqi[j].ofs + d = sqi[k].ofs + e
    <3>1. sqd[sqi[j].ofs + d].part = "xmsg" /\ sqd[sqi[j].ofs + d] = sqd[sqi[k].ofs + e]
      BY <2>2, <2>4
    <3>2. sqi[j].ofs + d \in 1 .. Len(sqd) /\ sqi[k].ofs + e \in 1 .. Len(sqd)
      BY <2>5, <2>6
    <3> QED
      BY <3>1, <3>2, <1>2 DEF OnceIn
  <2>8. j = k
    <3> SUFFICES ASSUME j # k PROVE FALSE
      OBVIOUS
    <3>1. \/ LastCell(sqd, sqi[j].ofs) < sqi[k].ofs
          \/ LastCell(sqd, sqi[k].ofs) < sqi[j].ofs
      BY <1>1, <2>5, <2>6, PackFacts
    <3> DEFINE x == sqi[j].ofs
               y == sqi[k].ofs
               lx == LastCell(sqd, x)
               ly == LastCell(sqd, y)
    <3>2. /\ x \in Nat /\ y \in Nat /\ lx \in Nat /\ ly \in Nat /\ d \in Nat /\ e \in Nat
          /\ d >= 1 /\ e >= 1 /\ x + d <= lx /\ y + e <= ly
      BY <2>5, <2>6
    <3>3. x + d = y + e /\ (lx < y \/ ly < x)
      BY <3>1, <2>7
    <3> HIDE DEF x, y, lx, ly
    <3> QED
      BY <3>2, <3>3
  <2>9. d = e
    BY <2>5, <2>6, <2>7, <2>8
  <2> QED
    BY <2>2, <2>4, <2>8, <2>9
<1>6. ASSUME NEW m \in Msgs, NEW p \in 1 .. Len(newsqd), newsqd[p] = XMSG(m)
      PROVE  m \in Stored(sqd)
  <2>1. newsqd[p].part = "xmsg"
    BY <1>6, CellsAre
  <2>2. PICK k \in 1 .. Len(sqi) :
          /\ IsLive(k)
          /\ \E d \in 1 .. sqd[sqi[k].ofs].frame_length :
               p = newsqi[Place(k)].ofs + d /\ newsqd[p] = sqd[sqi[k].ofs + d]
    BY <1>4, <2>1
  <2>3. PICK d \in 1 .. sqd[sqi[k].ofs].frame_length :
          p = newsqi[Place(k)].ofs + d /\ newsqd[p] = sqd[sqi[k].ofs + d]
    BY <2>2
  <2>4. sqi[k].ofs + d \in 1 .. Len(sqd)
    BY <1>3, <2>2
  <2> QED
    BY <2>3, <2>4, <1>6 DEF Stored
<1> QED
  BY <1>5, <1>6 DEF Stored

\* What pack leaves in the new files when it clears the last next_frame.
LEMMA ClearTailStep ==
  ASSUME RepairInv, ClearTail, UNCHANGED << fixMemory, gone >>
  PROVE  RepairInv'
<1> DEFINE s == Len(sqi)
           n == Len(newsqi)
           a == Len(newsqd)
<1>1. /\ doing = "pack" /\ doing' = "packed" /\ i = Len(sqi)
      /\ UNCHANGED << files, newsqi, sqbase, sqidx, sqhdr, i >>
      /\ newsqd' = IF sqidx <= SQBASE_SIZE THEN newsqd
                   ELSE Written(newsqd, sqidx, << Cleared(newsqd, sqidx, sqhdr) >>)
      /\ sqd' = sqd /\ sqi' = sqi
  BY DEF ClearTail, files
<1>2. tossing = << >> /\ damaged = 0
  BY <1>1 DEF RepairInv, Idle
<1>3. PackLoop /\ Copied /\ Chained /\ LastRead
  BY <1>1 DEF RepairInv, PackSound, PackLoop
<1>4. /\ newsqd \in Seq(Cell) /\ newsqi \in Seq([ofs : Nat, umsgid : Nat])
      /\ sqidx \in Nat /\ sqhdr \in Header \cup {Junk} /\ s \in Nat
  BY <1>2, PackFacts DEF RepairInv, RepairTypeOK
<1>5. TailCleared(newsqd', newsqd, sqidx)
  <2>1. /\ sqidx <= 1 => TailCleared(newsqd, newsqd, sqidx)
        /\ sqidx > 1 => TailCleared(Written(newsqd, sqidx, << Cleared(newsqd, sqidx, sqhdr) >>),
                                    newsqd, sqidx)
    BY <1>4, TailClearedFacts
  <2>2. CASE sqidx <= 1
    <3>1. newsqd' = newsqd
      BY <1>1, <2>2 DEF SQBASE_SIZE
    <3> QED
      BY <3>1, <2>1, <2>2
  <2>3. CASE ~(sqidx <= 1)
    <3>1. newsqd' = Written(newsqd, sqidx, << Cleared(newsqd, sqidx, sqhdr) >>)
      BY <1>1, <2>3 DEF SQBASE_SIZE
    <3>2. sqidx > 1
      BY <1>4, <2>3
    <3> QED
      BY <3>1, <3>2, <2>1
  <2> QED
    BY <2>2, <2>3
<1>6. /\ newsqd' \in Seq(Cell) /\ Len(newsqd') >= a
      /\ \A q \in 1 .. a : q # sqidx => newsqd'[q] = newsqd[q]
  BY <1>5 DEF TailCleared
<1>7. /\ n = Place(s) /\ sqbase.num_msg = n /\ sqbase.begin_frame = FIRST /\ FIRST = 2
      /\ sqbase.end_frame = a + 1
      /\ n # 0 => NewOfs(1) = 2 /\ sqbase.last_frame = NewOfs(n)
  BY <1>1, <1>3 DEF Copied, Chained, FIRST, SQBASE_SIZE
<1>8. /\ n \in Nat /\ a \in Nat /\ a >= 1 /\ Len(newsqd') \in Nat
      /\ \A k \in 1 .. n :
           /\ NewOfs(k) \in Nat /\ NewOfs(k) >= 2 /\ IsHdr(newsqd, NewOfs(k))
           /\ newsqd[NewOfs(k)] \in Header
           /\ LastCell(newsqd, NewOfs(k)) \in Nat
           /\ LastCell(newsqd, NewOfs(k)) >= NewOfs(k)
           /\ LastCell(newsqd, NewOfs(k)) <= a
  BY <1>3, <1>4, <1>6, ChainFacts, LenProperties
<1>9. PackTypes'
  <2>1. /\ newsqi' = newsqi /\ sqbase' = sqbase /\ sqidx' = sqidx /\ sqhdr' = sqhdr /\ i' = i
    BY <1>1
  <2> QED
    BY <2>1, <1>1, <1>6 DEF RepairInv, RepairTypeOK, PackTypes
<1> HIDE DEF s, n, a
<1>10. \A k \in 1 .. n : \A j \in 1 .. k - 1 : LastCell(newsqd, NewOfs(j)) < NewOfs(k)
  BY <1>3 DEF Chained, n
\* The header of a frame stays what it is, but for next_frame.
<1>11. ASSUME NEW k \in 1 .. n
       PROVE  /\ IsHdr(newsqd', NewOfs(k))
              /\ newsqd'[NewOfs(k)].msg = newsqd[NewOfs(k)].msg
              /\ newsqd'[NewOfs(k)].prev_frame = newsqd[NewOfs(k)].prev_frame
              /\ newsqd'[NewOfs(k)].next_frame
                   = IF NewOfs(k) = sqidx THEN 0 ELSE newsqd[NewOfs(k)].next_frame
              /\ LastCell(newsqd', NewOfs(k)) = LastCell(newsqd, NewOfs(k))
  <2>1. NewOfs(k) \in 2 .. a /\ newsqd[NewOfs(k)].part = "hdr"
    <3>1. NewOfs(k) \in Nat /\ NewOfs(k) >= 2 /\ IsHdr(newsqd, NewOfs(k))
      BY <1>8
    <3> QED
      BY <3>1, <1>8 DEF IsHdr, a
  <2>2. NewOfs(k) \in 1 .. Len(newsqd')
    BY <2>1, <1>6, <1>8
  <2> QED
    BY <2>1, <2>2, <1>5 DEF TailCleared, IsHdr, LastCell, a
\* The last message, if the last entry has one.
<1>12. s # 0 /\ IsLive(s) => n \in 1 .. n /\ sqidx = NewOfs(n) /\ Stray = 0
  <2> SUFFICES ASSUME s # 0, IsLive(s)
               PROVE  n \in 1 .. n /\ sqidx = NewOfs(n) /\ Stray = 0
    OBVIOUS
  <2>1. Place(0) < Place(s) /\ Place(0) = 0
    BY <1>4, PlaceFacts
  <2>2. n # 0
    BY <2>1, <1>7
  <2>3. sqidx = sqbase.last_frame
    BY <1>1, <1>3 DEF LastRead, s
  <2>4. Stray = 0
    BY DEF Stray, s
  <2> QED
    BY <2>2, <2>3, <2>4, <1>7, <1>8
<1>13. s # 0 /\ ~IsLive(s) => sqidx = Stray /\ (InOrder /\ sqidx # 0 => a < sqidx)
  BY <1>1, <1>3 DEF LastRead, Stray, s, a
<1>14. Stray' = Stray /\ (InOrder' <=> InOrder)
       /\ \A k : (IsLive(k)' <=> IsLive(k)) /\ Place(k)' = Place(k)
  BY <1>1 DEF Stray, InOrder, IsLive, Place
\* A message, and what is behind its header.
<1>15. ASSUME NEW k \in 1 .. s, IsLive(k)
       PROVE  /\ EntryCopied(k) /\ Place(k) \in 1 .. n
              /\ \A d \in 1 .. sqd[sqi[k].ofs].frame_length :
                   /\ NewOfs(Place(k)) + d \in 1 .. a
                   /\ IsLive(s) => NewOfs(Place(k)) + d # sqidx
  <2>1. EntryCopied(k)
    BY <1>1, <1>3, <1>15 DEF Copied, s
  <2>2. Place(k) \in 1 .. n
    <3>1. k \in Nat /\ k >= 1 /\ k <= s
      BY <1>4
    <3>2. Place(k) \in Nat /\ Place(k) <= Place(s) /\ Place(0) < Place(k) /\ Place(0) = 0
      BY <3>1, <1>4, <1>15, PlaceFacts
    <3> QED
      BY <3>2, <1>7, <1>8
  <2> DEFINE p == NewOfs(Place(k))
  <2>3. /\ p \in Nat /\ p >= 2 /\ LastCell(newsqd, p) <= a
        /\ LastCell(newsqd, p) \in Nat
        /\ newsqd[p].frame_length = sqd[sqi[k].ofs].frame_length
        /\ newsqd[p] \in Header
    BY <1>8, <2>1, <2>2 DEF EntryCopied
  <2>4. newsqd[p].frame_length \in Nat
    BY <2>3, HeaderFacts
  <2> HIDE DEF p
  <2>5. ASSUME NEW d \in 1 .. sqd[sqi[k].ofs].frame_length
        PROVE  /\ p + d \in 1 .. a /\ p + d <= LastCell(newsqd, p) /\ d \in Nat /\ d >= 1
    <3>1. LastCell(newsqd, p) = p + sqd[sqi[k].ofs].frame_length
      BY <2>3 DEF LastCell
    <3>2. sqd[sqi[k].ofs].frame_length \in Nat
      BY <2>3, <2>4
    <3> QED
      BY <3>1, <3>2, <2>3, <1>8
  <2>6. ASSUME NEW d \in 1 .. sqd[sqi[k].ofs].frame_length, IsLive(s)
        PROVE  p + d # sqidx
    <3>1. s # 0
      BY <1>4
    <3>2. sqidx = NewOfs(n) /\ n \in 1 .. n
      BY <3>1, <2>6, <1>12
    <3>3. CASE Place(k) = n
      <4>1. p = sqidx
        BY <3>2, <3>3 DEF p
      <4> QED
        BY <4>1, <2>3, <2>5
    <3>4. CASE Place(k) # n
      <4>1. Place(k) \in 1 .. n - 1
        BY <3>4, <2>2, <1>8
      <4>2. LastCell(newsqd, p) < sqidx
        BY <4>1, <3>2, <1>10 DEF p
      <4>3. p + d <= LastCell(newsqd, p) /\ p + d \in Nat
        BY <2>3, <2>5
      <4> QED
        BY <4>2, <4>3, <2>3, <1>4
    <3> QED
      BY <3>3, <3>4
  <2> QED
    BY <2>1, <2>2, <2>5, <2>6 DEF p
<1>16. AllPacked'
  <2> SUFFICES ASSUME NEW k \in 1 .. s, IsLive(k)
               PROVE  LET made == NewOfs(Place(k))
                          src == sqi[k].ofs
                      IN  /\ newsqi[Place(k)].umsgid = sqi[k].umsgid
                          /\ newsqd'[made].part = "hdr" \/ made = Stray
                          /\ newsqd'[made].msg = sqd[src].msg
                          /\ \A d \in 1 .. sqd[src].frame_length :
                               newsqd'[made + d] = sqd[src + d] \/ made + d = Stray
    BY <1>1, <1>7, <1>14 DEF AllPacked, NewOfs, n, s
  <2>1. EntryCopied(k) /\ Place(k) \in 1 .. n
    BY <1>15
  <2>2. /\ newsqd'[NewOfs(Place(k))].part = "hdr"
        /\ newsqd'[NewOfs(Place(k))].msg = sqd[sqi[k].ofs].msg
    BY <2>1, <1>11 DEF EntryCopied, IsHdr
  <2>3. ASSUME NEW d \in 1 .. sqd[sqi[k].ofs].frame_length
        PROVE  \/ newsqd'[NewOfs(Place(k)) + d] = sqd[sqi[k].ofs + d]
               \/ NewOfs(Place(k)) + d = Stray
    <3>1. /\ NewOfs(Place(k)) + d \in 1 .. a
          /\ IsLive(s) => NewOfs(Place(k)) + d # sqidx
      BY <1>15
    <3>2. newsqd[NewOfs(Place(k)) + d] = sqd[sqi[k].ofs + d]
      BY <2>1 DEF EntryCopied
    <3>3. s # 0
      BY <1>4
    <3> QED
      BY <3>1, <3>2, <3>3, <1>6, <1>13
  <2> QED
    BY <2>1, <2>2, <2>3 DEF EntryCopied
<1>17. ChainPacked'
  <2> SUFFICES ASSUME n # 0
               PROVE  /\ sqbase.begin_frame = NewOfs(1) /\ sqbase.last_frame = NewOfs(n)
                      /\ \A k \in 1 .. n :
                           LET h == newsqd'[NewOfs(k)]
                               next == IF k < n THEN NewOfs(k + 1)
                                       ELSE IF IsLive(s) THEN 0 ELSE sqbase.end_frame
                           IN  /\ h.prev_frame = IF k = 1 THEN 0 ELSE NewOfs(k - 1)
                               /\ h.next_frame = next \/ NewOfs(k) = Stray
    <3>1. newsqi # << >> => n # 0
      BY <1>4, EmptySeq DEF n
    <3> QED
      BY <3>1, <1>1, <1>14 DEF ChainPacked, NewOfs, n, s
  <2>1. s # 0
    BY <1>7, PlaceFacts
  <2>2. ASSUME NEW k \in 1 .. n
        PROVE  /\ newsqd'[NewOfs(k)].prev_frame = IF k = 1 THEN 0 ELSE NewOfs(k - 1)
               /\ \/ newsqd'[NewOfs(k)].next_frame
                       = IF k < n THEN NewOfs(k + 1)
                         ELSE IF IsLive(s) THEN 0 ELSE sqbase.end_frame
                  \/ NewOfs(k) = Stray
    <3>1. /\ newsqd[NewOfs(k)].prev_frame = IF k = 1 THEN 0 ELSE NewOfs(k - 1)
          /\ newsqd[NewOfs(k)].next_frame = LastCell(newsqd, NewOfs(k)) + 1
          /\ LastCell(newsqd, NewOfs(k)) + 1 = IF k = n THEN a + 1 ELSE NewOfs(k + 1)
      BY <1>3 DEF Chained, n, a
    <3>2. /\ newsqd'[NewOfs(k)].prev_frame = newsqd[NewOfs(k)].prev_frame
          /\ newsqd'[NewOfs(k)].next_frame
               = IF NewOfs(k) = sqidx THEN 0 ELSE newsqd[NewOfs(k)].next_frame
      BY <1>11
    <3>3. k = n \/ (k # n /\ k < n)
      BY <1>8
    <3>4. CASE IsLive(s)
      <4>1. sqidx = NewOfs(n) /\ n \in 1 .. n
        BY <3>4, <2>1, <1>12
      <4>2. k < n => NewOfs(k) # sqidx
        <5> SUFFICES ASSUME k < n PROVE NewOfs(k) # NewOfs(n)
          BY <4>1
        <5>1. k \in 1 .. n - 1
          BY <1>8
        <5>2. LastCell(newsqd, NewOfs(k)) < NewOfs(n)
          BY <5>1, <4>1, <1>10
        <5>3. /\ LastCell(newsqd, NewOfs(k)) \in Nat /\ NewOfs(k) \in Nat /\ NewOfs(n) \in Nat
              /\ LastCell(newsqd, NewOfs(k)) >= NewOfs(k)
          BY <4>1, <1>8
        <5> QED
          BY <5>2, <5>3
      <4>3. ~(n < n)
        BY <1>8
      <4> QED
        BY <3>1, <3>2, <3>3, <3>4, <4>1, <4>2, <4>3
    <3>5. CASE ~IsLive(s)
      <4>1. sqidx = Stray
        BY <3>5, <2>1, <1>13
      <4>2. ~(n < n)
        BY <1>8
      <4> QED
        BY <3>1, <3>2, <3>3, <3>5, <4>1, <4>2, <1>7
    <3> QED
      BY <3>4, <3>5
  <2> QED
    BY <2>2, <1>7
<1>18. InOrderUnspoilt'
  <2> SUFFICES ASSUME InOrder, NEW k \in 1 .. s, IsLive(k),
                      NEW d \in 1 .. sqd[sqi[k].ofs].frame_length
               PROVE  newsqd'[NewOfs(Place(k)) + d] = sqd[sqi[k].ofs + d]
    BY <1>1, <1>14 DEF InOrderUnspoilt, InOrder, NewOfs, s
  <2>1. /\ EntryCopied(k) /\ NewOfs(Place(k)) + d \in 1 .. a
        /\ IsLive(s) => NewOfs(Place(k)) + d # sqidx
    BY <1>15
  <2>2. newsqd[NewOfs(Place(k)) + d] = sqd[sqi[k].ofs + d]
    BY <2>1 DEF EntryCopied
  <2>3. NewOfs(Place(k)) + d # sqidx
    <3>1. s # 0
      BY <1>4
    <3>2. CASE IsLive(s)
      BY <3>2, <2>1
    <3>3. CASE ~IsLive(s)
      <4>1. sqidx # 0 => a < sqidx
        BY <3>1, <3>3, <1>13
      <4> QED
        BY <4>1, <2>1, <1>4, <1>8
    <3> QED
      BY <3>2, <3>3
  <2> QED
    BY <2>1, <2>2, <2>3, <1>6
<1>19. NewSound'
  <2>1. OnceIn(newsqd) /\ Stored(newsqd) \subseteq Stored(sqd)
    BY <1>1, NewOnce
  <2>2. \A q \in 1 .. Len(newsqd') :
          newsqd'[q].part \in {"xmsg", "text"} => q \in 1 .. a /\ newsqd'[q] = newsqd[q]
    BY <1>5 DEF TailCleared, a
  <2>3. OnceIn(newsqd') /\ Stored(newsqd') \subseteq Stored(newsqd)
    <3>1. \A q \in 1 .. Len(newsqd') :
            newsqd'[q].part = "xmsg" => q \in 1 .. Len(newsqd) /\ newsqd'[q] = newsqd[q]
      BY <2>2 DEF a
    <3> QED
      BY <3>1, <2>1, <1>4, <1>6, NoneAdded
  <2>4. EndSound(newsqd', a + 1)
    <3>1. a + 1 >= FIRST /\ a + 1 <= Len(newsqd') + 1
      BY <1>6, <1>7, <1>8
    <3>2. ASSUME NEW q \in 1 .. Len(newsqd'), newsqd'[q].part \in {"xmsg", "text"}
          PROVE  q < a + 1
      <4>1. q \in 1 .. a
        BY <2>2, <3>2
      <4> QED
        BY <4>1, <1>8
    <3> QED
      BY <3>1, <3>2 DEF EndSound, NoneBehind
  <2>5. IndexSound(newsqd', newsqi, a + 1)
    <3> SUFFICES ASSUME NEW k \in 1 .. n, NEW j \in 1 .. n
                 PROVE  /\ NewOfs(k) >= FIRST /\ IsHdr(newsqd', NewOfs(k))
                        /\ LastCell(newsqd', NewOfs(k)) < a + 1
                        /\ j # k => \/ LastCell(newsqd', NewOfs(j)) < NewOfs(k)
                                    \/ LastCell(newsqd', NewOfs(k)) < NewOfs(j)
      BY DEF IndexSound, EntrySound, NewOfs, n
    <3>1. /\ LastCell(newsqd', NewOfs(k)) = LastCell(newsqd, NewOfs(k))
          /\ LastCell(newsqd', NewOfs(j)) = LastCell(newsqd, NewOfs(j))
          /\ IsHdr(newsqd', NewOfs(k))
      BY <1>11
    <3>2. /\ NewOfs(k) >= FIRST /\ LastCell(newsqd, NewOfs(k)) <= a
          /\ LastCell(newsqd, NewOfs(k)) \in Nat
      BY <1>7, <1>8
    <3>3. LastCell(newsqd', NewOfs(k)) < a + 1
      BY <3>1, <3>2, <1>8
    <3>4. ASSUME j # k
          PROVE  \/ LastCell(newsqd, NewOfs(j)) < NewOfs(k)
                 \/ LastCell(newsqd, NewOfs(k)) < NewOfs(j)
      <4>1. j \in 1 .. k - 1 \/ k \in 1 .. j - 1
        BY <3>4, <1>8
      <4> QED
        BY <4>1, <1>10
    <3> QED
      BY <3>1, <3>2, <3>3, <3>4
  <2>6. newsqi' = newsqi /\ sqbase'.end_frame = a + 1 /\ Stored(sqd') = Stored(sqd)
    BY <1>1, <1>7
  <2> QED
    BY <2>1, <2>3, <2>4, <2>5, <2>6 DEF NewSound
<1>20. PackSound'
  BY <1>1, <1>16, <1>17, <1>18, <1>19 DEF PackSound, Packed
<1> QED
  BY <1>1, <1>2, <1>9, <1>20, PackFrame

\* The new files are the area now.
LEMMA ReplaceStep ==
  ASSUME RepairInv, Replace, gone' = gone \cup (Stored(sqd) \ Stored(newsqd)),
         UNCHANGED fixMemory
  PROVE  RepairInv'
<1>1. /\ doing = "packed" /\ doing' = "idle"
      /\ sqd' = newsqd /\ sqi' = newsqi /\ end_frame' = sqbase.end_frame
      /\ tossing' = tossing /\ damaged' = damaged /\ EndPack
  BY DEF Replace, Renamed
<1>2. tossing = << >> /\ damaged = 0 /\ NoFix /\ NewSound
  BY <1>1 DEF RepairInv, Idle, PackSound
<1>3. NoPack' /\ NoFix'
  BY <1>1, <1>2 DEF EndPack, NoPack, NoFix, fixMemory
<1>4. /\ newsqd \in Seq(Cell) /\ newsqi \in Seq([ofs : Nat, umsgid : Nat])
      /\ sqbase.end_frame \in Nat /\ Len(newsqd) \in Nat /\ Len(newsqi) \in Nat
  BY LenProperties DEF RepairInv, RepairTypeOK
<1>5. RepairTypeOK'
  <2>1. FileType'
    BY <1>1, <1>2, <1>4 DEF RepairInv, RepairTypeOK, FileType
  <2>2. /\ newsqd' = << >> /\ newsqi' = << >> /\ sqbase' = NoBase
        /\ sqidx' = 0 /\ sqhdr' = Junk /\ i' = 0
    BY <1>3 DEF NoPack
  <2>3. /\ newsqd' \in Seq(Cell) /\ newsqi' \in Seq([ofs : Nat, umsgid : Nat])
        /\ sqidx' \in Nat /\ sqhdr' \in Header \cup {Junk}
    BY <2>2
  <2>4. i' \in 0 .. Len(sqi')
    BY <2>2, <1>1, <1>4
  <2>5. sqbase' \in [begin_frame : Nat, last_frame : Nat, end_frame : Nat,
                     num_msg : 0 .. Len(newsqi')]
    <3>1. Len(newsqi') = 0 /\ 0 \in 0 .. Len(newsqi')
      BY <2>2
    <3> QED
      BY <3>1, <2>2 DEF NoBase, FIRST, SQBASE_SIZE
  <2>6. /\ pos' \in 0 .. Len(sqd') + 1 /\ EndPos' \in 0 .. Len(sqd') + 1
        /\ DOMAIN whole' = {}
    <3>1. pos' = 0 /\ EndPos' = 0 /\ whole' = << >> /\ Len(sqd') \in Nat
      BY <1>1, <1>3, <1>4 DEF NoFix
    <3> QED
      BY <3>1
  <2>7. /\ newbase' \in Seq([xmsg : Cell, ctrl : Seq(Cell), text : Seq(Cell)]) /\ fixmsg' \in 0 .. pos'
        /\ refused' \in Seq(Cell) /\ Len(refused') <= MaxRefused
    BY DEF RepairInv, RepairTypeOK, fixMemory
  <2>8. gone' \subseteq Msgs
    BY DEF RepairInv, RepairTypeOK, Stored
  <2> QED
    BY <2>1, <2>3, <2>4, <2>5, <2>6, <2>7, <2>8 DEF RepairTypeOK
<1>6. FileSound'
  <2>1. /\ OnceIn(newsqd) /\ IndexSound(newsqd, newsqi, sqbase.end_frame)
        /\ EndSound(newsqd, sqbase.end_frame) /\ sqbase.end_frame >= FIRST
        /\ NoneBehind(newsqd, sqbase.end_frame)
    BY <1>2 DEF NewSound, EndSound
  <2>2. TossEnd' = sqbase.end_frame
    BY <1>1, <1>2, <1>4 DEF TossEnd, Tossed
  <2> QED
    BY <2>1, <2>2, <1>1, <1>2 DEF FileSound, TossingSound
<1>7. Idle'
  BY <1>1, <1>3 DEF Idle
<1>8. GoneSound'
  <2>1. Stored(sqd') = Stored(newsqd) /\ Stored(newsqd) \subseteq Stored(sqd)
    BY <1>1, <1>2 DEF NewSound
  <2>2. newbase' = << >>
    BY <1>3 DEF NoFix
  <2>3. gone' \cap Stored(newsqd) = {}
    BY <2>1 DEF RepairInv, GoneSound
  <2> QED
    BY <2>1, <2>2, <2>3 DEF GoneSound
<1>9. PackSound' /\ FixSound'
  BY <1>1 DEF PackSound, FixSound, Fixed, WholeRecovered, TextWhole
<1> QED
  BY <1>5, <1>6, <1>7, <1>8, <1>9 DEF RepairInv

-----------------------------------------------------------------------------
(* Fix. *)

LEMMA MinIsLeast ==
  ASSUME NEW T, T \subseteq Nat, T # {}
  PROVE  Min(T) \in T /\ \A n \in T : Min(T) <= n
<1>1. \E n \in T : \A m \in T : n <= m
  BY LeastOfSet
<1> QED
  BY <1>1 DEF Min

\* Where the next header is.
LEMMA FoundFacts ==
  ASSUME sqd \in Seq(Cell), NEW p \in Nat, p >= 1
  PROVE  /\ Found(p) \in Nat /\ \A q \in p .. Found(p) - 1 : ~IsHdr(sqd, q)
         /\ \/ findHdrId(p) = -1 /\ Found(p) = Len(sqd) + 1
            \/ /\ findHdrId(p) \in p .. Len(sqd) /\ Found(p) = findHdrId(p)
               /\ IsHdr(sqd, findHdrId(p)) /\ findHdrId(p) # -1
<1> DEFINE Hdrs == {q \in p .. Len(sqd) : sqd[q].part = "hdr"}
           first == Min(Hdrs)
<1>1. Len(sqd) \in Nat /\ Hdrs \subseteq Nat
  BY LenProperties
<1>2. findHdrId(p) = IF (IF Hdrs # {} THEN first ELSE 0) = 0 THEN -1
                     ELSE IF Hdrs # {} THEN first ELSE 0
  BY DEF findHdrId, SelectInSubSeq
<1>3. CASE Hdrs = {}
  <2>1. findHdrId(p) = -1 /\ Found(p) = Len(sqd) + 1
    BY <1>2, <1>3 DEF Found
  <2>2. \A q \in p .. Len(sqd) : ~IsHdr(sqd, q)
    BY <1>3 DEF IsHdr
  <2> QED
    BY <1>1, <2>1, <2>2
<1>4. CASE Hdrs # {}
  <2>1. first \in Hdrs /\ \A q \in Hdrs : first <= q
    BY <1>1, <1>4, MinIsLeast
  <2>2. first \in p .. Len(sqd) /\ sqd[first].part = "hdr" /\ first # 0 /\ first # -1
    BY <1>1, <2>1
  <2>3. findHdrId(p) = first /\ Found(p) = first
    BY <1>2, <1>4, <2>2 DEF Found
  <2>4. ASSUME NEW q \in p .. first - 1 PROVE ~IsHdr(sqd, q)
    <3>1. q \in p .. Len(sqd) /\ ~(first <= q)
      BY <1>1, <2>2
    <3> QED
      BY <2>1, <3>1 DEF IsHdr
  <2>5. IsHdr(sqd, first) /\ first \in Nat
    BY <1>1, <2>2 DEF IsHdr
  <2> HIDE DEF first
  <2> QED
    BY <2>2, <2>3, <2>4, <2>5
<1> QED
  BY <1>3, <1>4

LEMMA SubSeqCells ==
  ASSUME NEW text \in Seq(Cell), NEW from \in Nat, from >= 1, NEW to \in Int, to <= Len(text)
  PROVE  /\ SubSeq(text, from, to) \in Seq(Cell)
         /\ Len(SubSeq(text, from, to)) = IF from <= to THEN to - from + 1 ELSE 0
         /\ \A k \in 1 .. to - from + 1 : SubSeq(text, from, to)[k] = text[from + k - 1]
<1>1. \A k \in from .. to : text[k] \in Cell
  <2>1. \A k \in from .. to : k \in 1 .. Len(text)
    BY LenProperties
  <2> QED
    BY <2>1, ElementOfSeq
<1>2. from \in Int
  OBVIOUS
<1>3. SubSeq(text, from, to) \in Seq(Cell)
  BY <1>1, <1>2, SubSeqProperties
<1>4. Len(SubSeq(text, from, to)) = IF from <= to THEN to - from + 1 ELSE 0
  BY <1>1, <1>2, SubSeqProperties
<1>5. \A k \in 1 .. to - from + 1 : SubSeq(text, from, to)[k] = text[from + k - 1]
  BY <1>1, <1>2, SubSeqProperties
<1> QED
  BY <1>3, <1>4, <1>5

IsNuls(c) == c.part \in {"xmsg", "hole"}

\* What is in front of the first hole, and up to the first XMSG.
LEMMA ScannedFacts ==
  ASSUME NEW text \in Seq(Cell)
  PROVE  /\ Scanned(text) \in Seq(Cell) /\ Len(Scanned(text)) <= Len(text)
         /\ \A k \in 1 .. Len(Scanned(text)) : Scanned(text)[k] = text[k]
         /\ \A n \in 0 .. Len(text) :
              (\A k \in 1 .. n : ~IsNuls(text[k]))
                => /\ Len(Scanned(text)) >= n
                   /\ n = Len(text) \/ text[n + 1] = Hole => Len(Scanned(text)) = n
<1> DEFINE Nuls == {k \in 1 .. Len(text) : text[k].part \in {"xmsg", "hole"}}
           first == Min(Nuls)
           at == IF Nuls # {} THEN first ELSE 0
           to == IF text[at] = Hole THEN at - 1 ELSE at
<1>1. Len(text) \in Nat /\ Nuls \subseteq Nat
  BY LenProperties
<1>2. Scanned(text) = IF at = 0 THEN text ELSE SubSeq(text, 1, to)
  BY DEF Scanned, SelectInSeq
<1>3. Nuls # {} => first \in Nuls /\ \A k \in Nuls : first <= k
  BY <1>1, MinIsLeast
<1> HIDE DEF first
<1>4. CASE Nuls = {}
  <2>1. Scanned(text) = text
    BY <1>2, <1>4
  <2>2. ASSUME NEW n \in 0 .. Len(text), text[n + 1] = Hole PROVE n = Len(text)
    <3> SUFFICES ASSUME n # Len(text) PROVE FALSE
      OBVIOUS
    <3>1. n + 1 \in 1 .. Len(text)
      BY <1>1
    <3>2. n + 1 \in Nuls
      BY <3>1, <2>2, CellsAre
    <3> QED
      BY <3>2, <1>4
  <2> QED
    BY <1>1, <2>1, <2>2
<1>5. CASE Nuls # {}
  <2>1. /\ first \in 1 .. Len(text) /\ text[first].part \in {"xmsg", "hole"} /\ first \in Nat
        /\ \A k \in Nuls : first <= k
    BY <1>1, <1>3, <1>5
  <2>2. at = first /\ at # 0
    BY <1>5, <2>1
  <2>3. Scanned(text) = SubSeq(text, 1, to) /\ to = IF text[first] = Hole THEN first - 1 ELSE first
    BY <1>2, <2>2
  <2> HIDE DEF at, to
  <2>4. to \in Nat /\ to <= Len(text) /\ to >= first - 1
    BY <1>1, <2>1, <2>3
  <2>5. /\ SubSeq(text, 1, to) \in Seq(Cell)
        /\ Len(SubSeq(text, 1, to)) = IF 1 <= to THEN to - 1 + 1 ELSE 0
        /\ \A k \in 1 .. to - 1 + 1 : SubSeq(text, 1, to)[k] = text[1 + k - 1]
    BY <2>4, SubSeqCells
  <2>6. Scanned(text) \in Seq(Cell) /\ Len(Scanned(text)) = to
    BY <2>3, <2>4, <2>5
  <2>7. \A k \in 1 .. to : Scanned(text)[k] = text[k]
    <3>1. \A k \in 1 .. to : k \in 1 .. to - 1 + 1 /\ 1 + k - 1 = k
      BY <2>4
    <3> QED
      BY <2>3, <2>5, <3>1
  <2>8. ASSUME NEW n \in 0 .. Len(text), \A k \in 1 .. n : ~IsNuls(text[k])
        PROVE  /\ to >= n
               /\ n = Len(text) \/ text[n + 1] = Hole => to = n
    <3>1. first > n
      <4> SUFFICES ASSUME first <= n PROVE FALSE
        BY <1>1, <2>1
      <4>1. first \in 1 .. n
        BY <1>1, <2>1
      <4> QED
        BY <4>1, <2>1, <2>8 DEF IsNuls
    <3>2. n # Len(text)
      BY <3>1, <1>1, <2>1
    <3>3. ASSUME text[n + 1] = Hole PROVE to = n
      <4>1. n + 1 \in Nuls
        BY <3>2, <3>3, <1>1, CellsAre
      <4>2. first <= n + 1
        BY <4>1, <2>1
      <4>3. first = n + 1
        BY <3>1, <4>2, <1>1, <2>1
      <4> QED
        BY <3>3, <4>3, <2>3, <1>1
    <3> QED
      BY <3>1, <3>2, <3>3, <1>1, <2>1, <2>4
  <2> QED
    BY <2>4, <2>6, <2>7, <2>8
<1> QED
  BY <1>4, <1>5

\* Where the text begins.
LEMMA BodyFacts ==
  ASSUME NEW t \in Seq(Cell)
  PROVE  /\ BodyStart(t) \in 1 .. Len(t) + 1 /\ BodyStart(t) \in LineStarts(t)
         /\ BodyStart(t) = Len(t) + 1 \/ t[BodyStart(t)] \notin SOH
         /\ \A k \in LineStarts(t) : k = Len(t) + 1 \/ t[k] \notin SOH => BodyStart(t) <= k
<1> DEFINE T == {k \in LineStarts(t) : k = Len(t) + 1 \/ t[k] \notin SOH}
<1>1. Len(t) \in Nat
  BY LenProperties
<1>2. LineStarts(t) \subseteq 1 .. Len(t) + 1 /\ Len(t) + 1 \in LineStarts(t)
  BY <1>1 DEF LineStarts
<1>3. T \subseteq Nat /\ T # {}
  BY <1>1, <1>2
<1>4. Min(T) \in T /\ \A k \in T : Min(T) <= k
  BY <1>3, MinIsLeast
<1>5. BodyStart(t) = Min(T)
  BY DEF BodyStart
<1> QED
  BY <1>2, <1>4, <1>5

\* The text ends behind its first NUL.
LEMMA formatMsgFacts ==
  ASSUME NEW t \in Seq(Cell), NEW b, b = BodyStart(t)
  PROVE  /\ formatMsg(t) \in [ctrl : Seq(Cell), text : Seq(Cell)]
         /\ formatMsg(t).ctrl = SubSeq(t, 1, b - 1)
         /\ \A to \in b - 1 .. Len(t) :
              /\ (\A k \in b .. to - 1 : t[k] \notin NUL)
              /\ (to = Len(t) \/ (to >= b /\ t[to] \in NUL))
              => formatMsg(t).text = SubSeq(t, b, to)
<1> DEFINE Nuls == {k \in b .. Len(t) : t[k] \in NUL}
           first == Min(Nuls)
           at == IF Nuls # {} THEN first ELSE 0
           last == IF at = 0 THEN Len(t) ELSE at
<1>1. Len(t) \in Nat /\ b \in 1 .. Len(t) + 1
  BY LenProperties, BodyFacts
<1>2. Nuls \subseteq Nat
  BY <1>1
<1>3. formatMsg(t) = [ctrl |-> SubSeq(t, 1, b - 1), text |-> SubSeq(t, b, last)]
  BY DEF formatMsg, SelectInSubSeq
<1>4. Nuls # {} => first \in Nuls /\ \A k \in Nuls : first <= k
  BY <1>2, MinIsLeast
<1> HIDE DEF first
<1>5. at \in Nat /\ at <= Len(t) /\ last \in Nat /\ last <= Len(t)
  BY <1>1, <1>4
<1>6. ASSUME NEW to \in b - 1 .. Len(t), \A k \in b .. to - 1 : t[k] \notin NUL,
             to = Len(t) \/ (to >= b /\ t[to] \in NUL)
      PROVE  last = to
  <2>1. CASE Nuls = {}
    <3>1. ~(to >= b /\ t[to] \in NUL)
      BY <2>1, <1>1
    <3> QED
      BY <3>1, <2>1, <1>6
  <2>2. CASE Nuls # {}
    <3>1. /\ first \in b .. Len(t) /\ t[first] \in NUL /\ \A k \in Nuls : first <= k
          /\ first # 0
      BY <2>2, <1>1, <1>4
    <3>2. first \notin b .. to - 1
      BY <3>1, <1>6
    <3>3. first >= to
      BY <3>1, <3>2, <1>1
    <3>4. first <= to
      <4>1. CASE to = Len(t)
        BY <4>1, <3>1
      <4>2. CASE to >= b /\ t[to] \in NUL
        <5>1. to \in Nuls
          BY <4>2, <1>1
        <5> QED
          BY <5>1, <3>1
      <4> QED
        BY <4>1, <4>2, <1>6
    <3>5. first = to
      BY <3>1, <3>3, <3>4, <1>1
    <3> QED
      BY <2>2, <3>1, <3>5
  <2> QED
    BY <2>1, <2>2
<1> HIDE DEF at, last
<1>7. SubSeq(t, b, last) \in Seq(Cell) /\ SubSeq(t, 1, b - 1) \in Seq(Cell)
  <2>1. b \in Nat /\ b >= 1 /\ b - 1 \in Int /\ b - 1 <= Len(t) /\ last \in Int
    BY <1>1, <1>5
  <2> QED
    BY <2>1, <1>5, SubSeqCells
<1>8. /\ formatMsg(t).ctrl = SubSeq(t, 1, b - 1) /\ formatMsg(t).text = SubSeq(t, b, last)
      /\ formatMsg(t) \in [ctrl : Seq(Cell), text : Seq(Cell)]
  <2> DEFINE ctrl == SubSeq(t, 1, b - 1)
             text == SubSeq(t, b, last)
  <2>1. formatMsg(t) = [ctrl |-> ctrl, text |-> text]
    BY <1>3
  <2>2. ctrl \in Seq(Cell) /\ text \in Seq(Cell)
    BY <1>7
  <2> HIDE DEF ctrl, text
  <2>3. /\ formatMsg(t).ctrl = ctrl /\ formatMsg(t).text = text
        /\ formatMsg(t) \in [ctrl : Seq(Cell), text : Seq(Cell)]
    BY <2>1, <2>2
  <2> QED
    BY <2>3 DEF ctrl, text
<1>9. ASSUME NEW to \in b - 1 .. Len(t), \A k \in b .. to - 1 : t[k] \notin NUL,
             to = Len(t) \/ (to >= b /\ t[to] \in NUL)
      PROVE  formatMsg(t).text = SubSeq(t, b, to)
  BY <1>6, <1>8, <1>9
<1> QED
  BY <1>8, <1>9

LEMMA FormattedTypes ==
  ASSUME NEW t \in Seq(Cell), NEW msg \in Formatted(t)
  PROVE  msg \in [ctrl : Seq(Cell), text : Seq(Cell)]
<1>1. formatMsg(t) \in [ctrl : Seq(Cell), text : Seq(Cell)]
  BY formatMsgFacts
<1>2. << Junk >> \in Seq(Cell)
  BY CellsAre
<1> QED
  BY <1>1, <1>2 DEF Formatted

LEMMA TextsFacts ==
  ASSUME NEW m \in Msgs
  PROVE  /\ TextLen[m] \in Nat /\ CtrlLen[m] \in Nat /\ CtrlLen[m] <= TextLen[m]
         /\ Texts(m) \in Seq(Cell) /\ Len(Texts(m)) = TextLen[m]
         /\ \A k \in 1 .. TextLen[m] : Texts(m)[k] = Text(m, k)
<1>1. TextLen[m] \in Nat /\ CtrlLen[m] \in Nat /\ CtrlLen[m] <= TextLen[m]
  BY SquishFileAssumption, SquishFixAssumption
<1>2. \A k \in 1 .. TextLen[m] : Text(m, k) \in Cell
  BY <1>1, CellsAre
<1> QED
  BY <1>1, <1>2 DEF Texts

\* Where the text of a message begins, if what is read begins with the message.
LEMMA BodyOf ==
  ASSUME NEW m \in Msgs, NEW t \in Seq(Cell), NEW n, n = TextLen[m],
         Len(t) >= n, \A k \in 1 .. n : t[k] = Text(m, k),
         Len(t) = n \/ HasBody(m)
  PROVE  /\ n \in Nat /\ BodyStart(t) \in 1 .. n + 1 /\ BodyStart(t) > CtrlLen[m]
         /\ BodyStart(t) = BodyStart(Texts(m)) /\ ControlLines(t) = ControlLines(Texts(m))
         /\ Orderly(m) => BodyStart(t) = CtrlLen[m] + 1
<1> DEFINE own == Texts(m)
           c == BodyStart(own)
           b == BodyStart(t)
<1>1. n \in Nat /\ Len(t) \in Nat /\ CtrlLen[m] \in Nat /\ CtrlLen[m] <= n
  BY LenProperties, TextsFacts
<1>2. own \in Seq(Cell) /\ Len(own) = n /\ \A k \in 1 .. n : own[k] = Text(m, k)
  BY TextsFacts
<1> HIDE DEF own
<1>3. /\ c \in 1 .. n + 1 /\ c \in LineStarts(own)
      /\ c = n + 1 \/ own[c] \notin SOH
      /\ \A k \in LineStarts(own) : k = n + 1 \/ own[k] \notin SOH => c <= k
  BY <1>2, BodyFacts
<1>4. /\ b \in 1 .. Len(t) + 1 /\ b \in LineStarts(t)
      /\ b = Len(t) + 1 \/ t[b] \notin SOH
      /\ \A k \in LineStarts(t) : k = Len(t) + 1 \/ t[k] \notin SOH => b <= k
  BY BodyFacts
<1>5. \A k \in 1 .. n : t[k] = own[k] /\ own[k] = Text(m, k)
  BY <1>2
<1> HIDE DEF c, b
<1>7. \A k \in 1 .. n : k \in LineStarts(t) <=> k \in LineStarts(own)
  <2> SUFFICES ASSUME NEW k \in 1 .. n PROVE k \in LineStarts(t) <=> k \in LineStarts(own)
    OBVIOUS
  <2>1. k \in 1 .. Len(t) + 1 /\ k # Len(t) + 1 /\ k \in 1 .. n + 1 /\ k # n + 1
    BY <1>1
  <2>2. k # 1 => k - 1 \in 1 .. n
    BY <1>1
  <2> QED
    BY <2>1, <2>2, <1>2, <1>5 DEF LineStarts
<1>8. ASSUME HasBody(m) PROVE b = c /\ ControlLines(t) = ControlLines(own)
  <2>1. c \in 1 .. n
    BY <1>1, <1>3, <1>8 DEF HasBody, c, own
  <2>2. b <= c
    BY <2>1, <1>3, <1>4, <1>5, <1>7, <1>1
  <2>3. b \in 1 .. n /\ b # Len(t) + 1 /\ b # n + 1
    BY <2>1, <2>2, <1>1, <1>4
  <2>4. c <= b
    BY <2>3, <1>3, <1>4, <1>5, <1>7
  <2>5. b = c
    BY <2>1, <2>2, <2>3, <2>4
  <2>6. ControlLines(t) = ControlLines(own)
    <3>1. \A k \in ControlLines(t) : k \in 1 .. n /\ k < b /\ k \in LineStarts(t)
      BY <2>3, <1>1 DEF ControlLines, LineStarts, b
    <3>2. \A k \in ControlLines(own) : k \in 1 .. n /\ k < c /\ k \in LineStarts(own)
      BY <2>1, <1>1, <1>2 DEF ControlLines, LineStarts, c
    <3>3. ControlLines(t) \subseteq ControlLines(own)
      BY <3>1, <2>5, <1>7 DEF ControlLines, c
    <3>4. ControlLines(own) \subseteq ControlLines(t)
      BY <3>2, <2>5, <1>7 DEF ControlLines, b
    <3> QED
      BY <3>3, <3>4
  <2> QED
    BY <2>5, <2>6
<1>9. b = c /\ ControlLines(t) = ControlLines(own)
  <2>1. CASE Len(t) = n
    <3>1. t = own
      BY <1>2, <1>5, <2>1, SeqEqual
    <3> QED
      BY <3>1 DEF b, c
  <2>2. CASE HasBody(m)
    BY <2>2, <1>8
  <2> QED
    BY <2>1, <2>2
\* No line of control info is passed over: each begins with \001.
<1>10. c > CtrlLen[m]
  <2> SUFFICES ASSUME c <= CtrlLen[m] PROVE FALSE
    BY <1>1, <1>3
  <2>1. c \in 1 .. n /\ c # n + 1
    BY <1>1, <1>3
  <2>2. c = 1 \/ Text(m, c - 1) \in LineEnds
    <3>1. c # 1 => c - 1 \in 1 .. n
      BY <2>1, <1>1
    <3> QED
      BY <3>1, <2>1, <1>2, <1>3 DEF LineStarts
  <2>3. Text(m, c) \in SOH
    BY <2>1, <2>2, SquishFixAssumption
  <2> QED
    BY <2>1, <2>3, <1>2, <1>3
<1>11. ASSUME Orderly(m) PROVE c = CtrlLen[m] + 1
  <2> DEFINE k == CtrlLen[m] + 1
  <2>1. k \in 1 .. n + 1 /\ k - 1 = CtrlLen[m]
    BY <1>1
  <2>2. k \in LineStarts(own)
    <3>1. CASE CtrlLen[m] = 0
      BY <2>1, <3>1, <1>2 DEF LineStarts
    <3>2. CASE CtrlLen[m] > 0
      <4>1. Text(m, CtrlLen[m]) \in LineEnds /\ CtrlLen[m] \in 1 .. n
        BY <3>2, <1>1, <1>11 DEF Orderly
      <4> QED
        BY <4>1, <2>1, <1>2 DEF LineStarts
    <3> QED
      BY <3>1, <3>2, <1>1
  <2>3. k = n + 1 \/ own[k] \notin SOH
    <3> SUFFICES ASSUME k # n + 1 PROVE own[k] \notin SOH
      OBVIOUS
    <3>1. CtrlLen[m] < TextLen[m] /\ k \in 1 .. n
      BY <2>1, <1>1
    <3> QED
      BY <3>1, <1>2, <1>11 DEF Orderly
  <2>4. c <= k
    BY <2>2, <2>3, <1>3
  <2> QED
    BY <2>4, <1>1, <1>3, <1>10
<1> QED
  BY <1>1, <1>3, <1>9, <1>10, <1>11 DEF b, c, own

\* What is read behind the XMSG.
LEMMA TextAtFacts ==
  ASSUME sqd \in Seq(Cell), NEW p \in Nat, p >= 1, p <= Len(sqd) + 1
  PROVE  /\ TextAt(p) \in Seq(Cell) /\ Found(p) \in p .. Len(sqd) + 1
         /\ Len(TextAt(p)) = Found(p) - p
         /\ \A k \in 1 .. Found(p) - p : TextAt(p)[k] = sqd[p + k - 1]
<1> DEFINE end == Found(p) - 1
<1>1. Found(p) \in p .. Len(sqd) + 1 /\ Len(sqd) \in Nat
  <2>1. Len(sqd) \in Nat
    BY LenProperties
  <2>2. /\ Found(p) \in Nat
        /\ Found(p) = Len(sqd) + 1 \/ Found(p) \in p .. Len(sqd)
    BY FoundFacts
  <2> QED
    BY <2>1, <2>2
<1>2. end \in Int /\ end <= Len(sqd) /\ end + 1 = Found(p)
  BY <1>1
<1>3. TextAt(p) = SubSeq(sqd, p, end)
  BY DEF TextAt
<1> HIDE DEF end
<1>4. \A q \in p .. end : sqd[q] \in Cell
  <2>1. \A q \in p .. end : q \in 1 .. Len(sqd)
    BY <1>1, <1>2
  <2> QED
    BY <2>1, ElementOfSeq
<1>5. /\ SubSeq(sqd, p, end) \in Seq(Cell)
      /\ Len(SubSeq(sqd, p, end)) = IF p <= end THEN end - p + 1 ELSE 0
      /\ \A k \in 1 .. end - p + 1 : SubSeq(sqd, p, end)[k] = sqd[p + k - 1]
  <2>1. p \in Int /\ end \in Int
    BY <1>2
  <2>2. SubSeq(sqd, p, end) \in Seq(Cell)
    BY <2>1, <1>4, SubSeqProperties
  <2>3. Len(SubSeq(sqd, p, end)) = IF p <= end THEN end - p + 1 ELSE 0
    BY <2>1, <1>4, SubSeqProperties
  <2>4. \A k \in 1 .. end - p + 1 : SubSeq(sqd, p, end)[k] = sqd[p + k - 1]
    BY <2>1, <1>4, SubSeqProperties
  <2> QED
    BY <2>2, <2>3, <2>4
<1>6. end - p + 1 = Found(p) - p /\ (IF p <= end THEN end - p + 1 ELSE 0) = Found(p) - p
  BY <1>1, <1>2
<1> QED
  BY <1>1, <1>3, <1>5, <1>6

\* What is read behind the XMSG of a clean message begins with its pieces, and with nothing
\* else if they have no text.
LEMMA CleanRead ==
  ASSUME sqd \in Seq(Cell), NEW p, IsWhole(p), IsClean(p),
         NEW m, m = sqd[p].msg, NEW t, t = Scanned(TextAt(p + 2))
  PROVE  /\ m \in Msgs /\ TextLen[m] \in Nat /\ t \in Seq(Cell) /\ Len(t) >= TextLen[m]
         /\ \A k \in 1 .. TextLen[m] : t[k] = Text(m, k)
         /\ Len(t) = TextLen[m] \/ (HasBody(m) /\ Text(m, TextLen[m]) \in NUL)
<1> DEFINE n == TextLen[m]
           text == TextAt(p + 2)
           end == p + 2 + n
           e == Found(p + 2)
<1>1. /\ IsHdr(sqd, p) /\ p < Len(sqd) /\ Len(sqd) \in Nat /\ p \in 1 .. Len(sqd)
      /\ m \in Msgs /\ n \in Nat
  <2>1. IsHdr(sqd, p) /\ p < Len(sqd) /\ Len(sqd) \in Nat
    BY LenProperties DEF IsWhole
  <2>2. m \in Msgs /\ p \in 1 .. Len(sqd)
    BY <2>1, HdrAt
  <2> QED
    BY <2>1, <2>2, SquishFileAssumption
<1>2. /\ end <= Len(sqd) + 1
      /\ \A k \in 1 .. n : sqd[p + 1 + k] = Text(m, k)
      /\ \/ end = Len(sqd) + 1 \/ IsHdr(sqd, end) \/ sqd[end] = Hole
         \/ HasBody(m) /\ Text(m, n) \in NUL
  BY DEF IsClean
<1>3. p + 2 \in Nat /\ p + 2 >= 1 /\ p + 2 <= Len(sqd) + 1
  BY <1>1
<1>4. /\ text \in Seq(Cell) /\ e \in p + 2 .. Len(sqd) + 1 /\ Len(text) = e - (p + 2)
      /\ \A k \in 1 .. e - (p + 2) : text[k] = sqd[p + 2 + k - 1]
  BY <1>3, TextAtFacts
<1>5. /\ \A q \in p + 2 .. e - 1 : ~IsHdr(sqd, q)
      /\ e = Len(sqd) + 1 \/ IsHdr(sqd, e)
  <2>1. /\ Found(p + 2) \in Nat /\ \A q \in p + 2 .. Found(p + 2) - 1 : ~IsHdr(sqd, q)
        /\ \/ findHdrId(p + 2) = -1 /\ Found(p + 2) = Len(sqd) + 1
           \/ /\ findHdrId(p + 2) \in p + 2 .. Len(sqd) /\ Found(p + 2) = findHdrId(p + 2)
              /\ IsHdr(sqd, findHdrId(p + 2)) /\ findHdrId(p + 2) # -1
    BY <1>3, FoundFacts
  <2> QED
    BY <2>1
<1>6. t = Scanned(text)
  OBVIOUS
<1> HIDE DEF n, text, e
<1>11. /\ e \in Nat /\ e >= p + 2 /\ e <= Len(sqd) + 1 /\ end <= Len(sqd) + 1
       /\ p \in Nat /\ n \in Nat /\ Len(sqd) \in Nat /\ end \in Nat
  BY <1>1, <1>2, <1>4
<1>7. e >= end
  <2> SUFFICES ASSUME e < end PROVE FALSE
    BY <1>11
  <2> DEFINE k == e - p - 1
  <2>1. k \in 1 .. n /\ p + 1 + k = e /\ k \in Nat /\ e # Len(sqd) + 1
    BY <1>11
  <2> HIDE DEF k
  <2>2. sqd[e] = Text(m, k)
    BY <2>1, <1>2
  <2>3. sqd[e].part = "text"
    BY <2>1, <2>2, <1>1, CellsAre
  <2>4. IsHdr(sqd, e)
    BY <2>1, <1>5
  <2> QED
    BY <2>3, <2>4 DEF IsHdr
<1>8. ASSUME NEW k \in 1 .. n
      PROVE  k \in 1 .. Len(text) /\ text[k] = Text(m, k) /\ ~IsNuls(text[k])
  <2>1. k \in 1 .. Len(text) /\ p + 2 + k - 1 = p + 1 + k /\ k \in Nat
    <3>1. k \in Nat /\ k >= 1 /\ k <= n
      BY <1>11
    <3>2. Len(text) = e - (p + 2) /\ n <= e - (p + 2) /\ e - (p + 2) \in Nat
      BY <1>4, <1>7, <1>11
    <3>3. k \in 1 .. Len(text)
      BY <3>1, <3>2, <1>11
    <3>4. p + 2 + k - 1 = p + 1 + k
      BY <3>1, <1>11
    <3> QED
      BY <3>1, <3>3, <3>4
  <2>2. text[k] = Text(m, k)
    BY <2>1, <1>2, <1>4
  <2>3. text[k].part = "text"
    BY <2>1, <2>2, <1>1, CellsAre
  <2> QED
    BY <2>1, <2>2, <2>3 DEF IsNuls
<1>9. n \in 0 .. Len(text) /\ \A k \in 1 .. n : ~IsNuls(text[k])
  BY <1>4, <1>7, <1>8, <1>11
<1>10. /\ t \in Seq(Cell) /\ Len(t) <= Len(text) /\ Len(t) >= n
       /\ \A k \in 1 .. Len(t) : t[k] = text[k]
       /\ n = Len(text) \/ text[n + 1] = Hole => Len(t) = n
  <2>1. /\ Scanned(text) \in Seq(Cell) /\ Len(Scanned(text)) <= Len(text)
        /\ \A k \in 1 .. Len(Scanned(text)) : Scanned(text)[k] = text[k]
    BY <1>4, ScannedFacts
  <2>2. Len(Scanned(text)) >= n /\ (n = Len(text) \/ text[n + 1] = Hole => Len(Scanned(text)) = n)
    BY <1>4, <1>9, ScannedFacts
  <2> QED
    BY <1>6, <2>1, <2>2
<1>12. \A k \in 1 .. n : t[k] = Text(m, k)
  <2>1. Len(t) \in Nat
    BY <1>10, LenProperties
  <2> QED
    BY <2>1, <1>8, <1>10, <1>11
<1>13. CASE end = Len(sqd) + 1 \/ IsHdr(sqd, end)
  <2>1. ~(IsHdr(sqd, end) /\ end \in p + 2 .. e - 1)
    BY <1>5
  <2>2. e = end
    BY <2>1, <1>7, <1>11, <1>13
  <2>3. n = Len(text)
    BY <2>2, <1>4, <1>11
  <2> QED
    BY <2>3, <1>1, <1>10, <1>12 DEF n
<1>14. CASE sqd[end] = Hole
  <2>1. CASE e = end
    <3>1. n = Len(text)
      BY <2>1, <1>4, <1>11
    <3> QED
      BY <3>1, <1>1, <1>10, <1>12 DEF n
  <2>2. CASE e # end
    <3>1. n + 1 \in 1 .. e - (p + 2) /\ p + 2 + (n + 1) - 1 = end
      BY <2>2, <1>7, <1>11
    <3>2. text[n + 1] = Hole
      BY <3>1, <1>4, <1>14
    <3> QED
      BY <3>2, <1>1, <1>10, <1>12 DEF n
  <2> QED
    BY <2>1, <2>2
<1>15. CASE HasBody(m) /\ Text(m, n) \in NUL
  BY <1>15, <1>1, <1>10, <1>12 DEF n
<1> QED
  BY <1>2, <1>13, <1>14, <1>15

\* Control info and text of a clean message are stored as they are.
LEMMA CleanText ==
  ASSUME sqd \in Seq(Cell), NEW p, IsWhole(p), IsClean(p), OneLine(sqd[p].msg),
         NEW msg \in Formatted(Scanned(TextAt(p + 2)))
  PROVE  IsOwn(msg, sqd[p].msg)
<1> DEFINE m == sqd[p].msg
           n == TextLen[m]
           t == Scanned(TextAt(p + 2))
           b == BodyStart(t)
           L == CtrlLen[m]
<1>1. /\ m \in Msgs /\ n \in Nat /\ t \in Seq(Cell) /\ Len(t) >= n
      /\ \A k \in 1 .. n : t[k] = Text(m, k)
      /\ Len(t) = n \/ (HasBody(m) /\ Text(m, n) \in NUL)
  BY CleanRead
<1>2. msg \in Formatted(t)
  OBVIOUS
<1>3. OneLine(m)
  OBVIOUS
<1> HIDE DEF m, t
<1>4. /\ b \in 1 .. n + 1 /\ b > L /\ ControlLines(t) = ControlLines(Texts(m))
      /\ b = BodyStart(Texts(m)) /\ (Orderly(m) => b = L + 1)
  BY <1>1, BodyOf
<1>5. Len(t) \in Nat /\ L \in Nat
  BY <1>1, LenProperties, TextsFacts
<1>6. Texts(m) \in Seq(Cell) /\ Len(Texts(m)) = n /\ \A k \in 1 .. n : Texts(m)[k] = Text(m, k)
  BY <1>1, TextsFacts
<1> HIDE DEF n, b, L
<1>7. msg = formatMsg(t)
  <2>1. Cardinality(ControlLines(t)) <= 1
    BY <1>3, <1>4 DEF OneLine
  <2>2. ASSUME NEW k \in 1 .. b - 1 PROVE t[k].part # "xmsg"
    <3>1. k \in 1 .. n /\ k \in Nat
      BY <1>1, <1>4
    <3> QED
      BY <3>1, <1>1, CellsAre
  <2>3. Fits(t)
    BY <2>1, <2>2 DEF Fits, b
  <2> QED
    BY <2>3, <1>2 DEF Formatted
<1>8. msg.ctrl = SubSeq(t, 1, b - 1) /\ msg.text = SubSeq(t, b, n)
  <2>1. ASSUME NEW k \in b .. n - 1 PROVE t[k] \notin NUL
    <3>1. k \in 1 .. n /\ k \notin {L, n}
      BY <1>1, <1>4, <1>5
    <3> QED
      BY <3>1, <1>1, SquishFixAssumption DEF L, n
  <2>2. n = Len(t) \/ (n >= b /\ t[n] \in NUL)
    <3>1. CASE Len(t) = n
      BY <3>1
    <3>2. CASE Len(t) # n
      <4>1. HasBody(m) /\ Text(m, n) \in NUL
        BY <3>2, <1>1
      <4>4. n >= b
        BY <4>1, <1>4 DEF HasBody, n
      <4>5. n \in 1 .. n
        BY <4>4, <1>1, <1>4
      <4> QED
        BY <4>1, <4>4, <4>5, <1>1
    <3> QED
      BY <3>1, <3>2
  <2>3. n \in b - 1 .. Len(t)
    BY <1>1, <1>4, <1>5
  <2> QED
    BY <2>1, <2>2, <2>3, <1>1, <1>7, formatMsgFacts DEF b
<1>9. /\ msg.ctrl \in Seq(Cell) /\ Len(msg.ctrl) = b - 1
      /\ \A k \in 1 .. b - 1 : msg.ctrl[k] = Text(m, k)
  <2>1. b - 1 \in Int /\ b - 1 <= Len(t) /\ 1 \in Nat /\ 1 >= 1
    BY <1>1, <1>4, <1>5
  <2>2. /\ SubSeq(t, 1, b - 1) \in Seq(Cell)
        /\ Len(SubSeq(t, 1, b - 1)) = IF 1 <= b - 1 THEN b - 1 - 1 + 1 ELSE 0
        /\ \A k \in 1 .. b - 1 - 1 + 1 : SubSeq(t, 1, b - 1)[k] = t[1 + k - 1]
    BY <2>1, <1>1, SubSeqCells
  <2>3. \A k \in 1 .. b - 1 : k \in 1 .. b - 1 - 1 + 1 /\ 1 + k - 1 = k /\ k \in 1 .. n
    BY <1>1, <1>4
  <2>4. Len(msg.ctrl) = b - 1
    BY <2>2, <1>4, <1>8, <1>1
  <2> QED
    BY <2>2, <2>3, <2>4, <1>1, <1>8
<1>10. /\ msg.text \in Seq(Cell) /\ Len(msg.text) = n - (b - 1)
       /\ \A k \in 1 .. n - (b - 1) : msg.text[k] = Text(m, b - 1 + k)
  <2>1. b \in Nat /\ b >= 1 /\ n \in Int /\ n <= Len(t)
    BY <1>1, <1>4, <1>5
  <2>2. /\ SubSeq(t, b, n) \in Seq(Cell)
        /\ Len(SubSeq(t, b, n)) = IF b <= n THEN n - b + 1 ELSE 0
        /\ \A k \in 1 .. n - b + 1 : SubSeq(t, b, n)[k] = t[b + k - 1]
    BY <2>1, <1>1, SubSeqCells
  <2>3. \A k \in 1 .. n - (b - 1) :
          k \in 1 .. n - b + 1 /\ b + k - 1 = b - 1 + k /\ b - 1 + k \in 1 .. n
    BY <1>1, <1>4
  <2>4. Len(msg.text) = n - (b - 1)
    BY <2>2, <1>4, <1>8, <1>1
  <2> QED
    BY <2>2, <2>3, <2>4, <1>1, <1>8
<1>11. msg.ctrl \o msg.text = Texts(m)
  <2> DEFINE all == msg.ctrl \o msg.text
  <2>1. /\ all \in Seq(Cell) /\ Len(all) = Len(msg.ctrl) + Len(msg.text)
        /\ \A k \in 1 .. Len(msg.ctrl) + Len(msg.text) :
             all[k] = IF k <= Len(msg.ctrl) THEN msg.ctrl[k]
                      ELSE msg.text[k - Len(msg.ctrl)]
    BY <1>9, <1>10, ConcatProperties
  <2>2. Len(all) = n
    BY <2>1, <1>1, <1>4, <1>9, <1>10
  <2>3. ASSUME NEW k \in 1 .. n PROVE all[k] = Text(m, k)
    <3>1. CASE k <= b - 1
      <4>1. k \in 1 .. b - 1 /\ k \in 1 .. Len(msg.ctrl) + Len(msg.text) /\ k <= Len(msg.ctrl)
        BY <3>1, <1>1, <1>4, <1>9, <1>10
      <4> QED
        BY <4>1, <2>1, <1>9
    <3>2. CASE ~(k <= b - 1)
      <4>3. /\ k - (b - 1) \in 1 .. n - (b - 1) /\ b - 1 + (k - (b - 1)) = k
            /\ k \in 1 .. (b - 1) + (n - (b - 1)) /\ ~(k <= b - 1)
        <5>1. k \in Nat /\ k >= 1 /\ k <= n /\ b \in Nat /\ b >= 1 /\ n \in Nat /\ k > b - 1
          BY <3>2, <1>1, <1>4
        <5> QED
          BY <5>1
      <4>4. Len(msg.ctrl) = b - 1 /\ Len(msg.text) = n - (b - 1)
        BY <1>9, <1>10
      <4>1. /\ k - (b - 1) \in 1 .. n - (b - 1) /\ b - 1 + (k - (b - 1)) = k
            /\ k \in 1 .. Len(msg.ctrl) + Len(msg.text) /\ ~(k <= Len(msg.ctrl))
            /\ k - Len(msg.ctrl) = k - (b - 1)
        BY <4>3, <4>4
      <4>2. msg.text[k - (b - 1)] = Text(m, k)
        BY <4>1, <1>10
      <4> QED
        BY <4>1, <4>2, <2>1
    <3> QED
      BY <3>1, <3>2
  <2> HIDE DEF all
  <2>4. \A k \in 1 .. n : all[k] = Texts(m)[k]
    BY <2>3, <1>6
  <2>5. all = Texts(m)
    BY <2>1, <2>2, <2>4, <1>6, SeqEqual
  <2> QED
    BY <2>5 DEF all
<1>12. ASSUME Orderly(m) PROVE msg.ctrl = SubSeq(Texts(m), 1, L)
  <2>1. b = L + 1 /\ b - 1 = L /\ L <= n /\ L \in Int
    BY <1>1, <1>4, <1>5, <1>12
  <2>2. /\ SubSeq(Texts(m), 1, L) \in Seq(Cell)
        /\ Len(SubSeq(Texts(m), 1, L)) = IF 1 <= L THEN L - 1 + 1 ELSE 0
        /\ \A k \in 1 .. L - 1 + 1 : SubSeq(Texts(m), 1, L)[k] = Texts(m)[1 + k - 1]
    BY <2>1, <1>6, SubSeqCells
  <2>3. Len(SubSeq(Texts(m), 1, L)) = L
    BY <2>2, <1>5
  <2>4. \A k \in 1 .. L : k \in 1 .. L - 1 + 1 /\ 1 + k - 1 = k /\ k \in 1 .. n
    BY <2>1, <1>1, <1>5
  <2>5. \A k \in 1 .. L : msg.ctrl[k] = SubSeq(Texts(m), 1, L)[k]
    BY <2>1, <2>2, <2>4, <1>6, <1>9
  <2> QED
    BY <2>1, <2>2, <2>3, <2>5, <1>9, SeqEqual
<1> QED
  BY <1>11, <1>12 DEF IsOwn, m, L

\* What fix does to the types.
FixTypes ==
  /\ pos \in 0 .. Len(sqd) + 1 /\ EndPos \in 0 .. Len(sqd) + 1
  /\ newbase \in Seq([xmsg : Cell, ctrl : Seq(Cell), text : Seq(Cell)])
  /\ fixmsg \in 0 .. pos
  /\ refused \in Seq(Cell) /\ Len(refused) <= MaxRefused
  /\ DOMAIN whole \subseteq 1 .. Len(sqd)
  /\ \A p \in DOMAIN whole : whole[p] \in [msg : Msgs, clean : BOOLEAN]

\* While fix runs, all that it does not change stays sound.
LEMMA FixFrame ==
  ASSUME RepairInv, UNCHANGED << files, packMemory, gone >>,
         doing \in {"idle", "fix", "fixed"}, doing' \in {"idle", "fix", "fixed"},
         doing' = "idle" => NoFix', FixTypes', FixSound',
         \A k \in 1 .. Len(newbase'), m \in gone : newbase'[k].xmsg # XMSG(m)
  PROVE  RepairInv'
<1>1. /\ sqd' = sqd /\ end_frame' = end_frame /\ sqi' = sqi /\ tossing' = tossing
      /\ damaged' = damaged /\ gone' = gone
      /\ UNCHANGED packMemory
  BY DEF files
<1>2. /\ newsqd' = newsqd /\ newsqi' = newsqi /\ sqbase' = sqbase /\ sqidx' = sqidx
      /\ sqhdr' = sqhdr /\ i' = i
  BY <1>1 DEF packMemory
<1>3. RepairTypeOK'
  BY <1>1, <1>2 DEF RepairInv, RepairTypeOK, FileType, FixTypes
<1>4. FileSound'
  BY <1>1 DEF RepairInv, FileSound, TossingSound, TossEnd, Tossed
<1>5. Idle'
  BY <1>1, <1>2 DEF RepairInv, Idle, NoPack
<1>6. GoneSound'
  BY <1>1 DEF RepairInv, GoneSound, Stored
<1>7. PackSound'
  BY DEF PackSound
<1> QED
  BY <1>3, <1>4, <1>5, <1>6, <1>7 DEF RepairInv

\* The messages that fix is to find, and an empty base.
LEMMA FixOpenStep ==
  ASSUME RepairInv, FixOpen, UNCHANGED << packMemory, gone >>
  PROVE  RepairInv'
<1>1. /\ doing = "idle" /\ doing' = "fix" /\ UNCHANGED files /\ sqd' = sqd
      /\ pos' = 1 /\ EndPos' = Len(sqd) + 1 /\ newbase' = << >> /\ fixmsg' = 0
      /\ refused' = << >> /\ whole' = WholeMsgs
  BY DEF FixOpen, files
<1>2. sqd \in Seq(Cell) /\ Len(sqd) \in Nat
  BY LenProperties DEF RepairInv, RepairTypeOK, FileType
<1>3. /\ DOMAIN whole' = {q \in 1 .. Len(sqd) : IsWhole(q)}
      /\ \A p \in DOMAIN whole' : whole'[p] = [msg |-> sqd[p].msg, clean |-> IsClean(p)]
  BY <1>1 DEF WholeMsgs
<1>4. ASSUME NEW p \in DOMAIN whole'
      PROVE  /\ p \in 1 .. Len(sqd) /\ IsWhole(p) /\ p \in Nat /\ p >= 1
             /\ whole'[p].msg = sqd[p].msg /\ whole'[p].clean = IsClean(p)
             /\ whole'[p] \in [msg : Msgs, clean : BOOLEAN]
  <2>1. /\ p \in 1 .. Len(sqd) /\ IsWhole(p)
        /\ whole'[p] = [msg |-> sqd[p].msg, clean |-> IsClean(p)]
    BY <1>3
  <2>2. sqd[p].msg \in Msgs
    <3>1. IsHdr(sqd, p)
      BY <2>1 DEF IsWhole
    <3> QED
      BY <3>1, <1>2, HdrAt
  <2>3. IsClean(p) \in BOOLEAN
    BY DEF IsClean
  <2>4. p \in Nat /\ p >= 1
    BY <2>1, <1>2
  <2> QED
    BY <2>1, <2>2, <2>3, <2>4
<1>5. FixTypes'
  <2>1. pos' \in 0 .. Len(sqd') + 1 /\ EndPos' \in 0 .. Len(sqd') + 1 /\ fixmsg' \in 0 .. pos'
    BY <1>1, <1>2
  <2>2. /\ newbase' \in Seq([xmsg : Cell, ctrl : Seq(Cell), text : Seq(Cell)])
        /\ refused' \in Seq(Cell) /\ Len(refused') <= MaxRefused
    BY <1>1, SquishFixAssumption
  <2>3. DOMAIN whole' \subseteq 1 .. Len(sqd')
    BY <1>1, <1>3
  <2> QED
    BY <2>1, <2>2, <2>3, <1>4 DEF FixTypes
<1>6. ASSUME NEW p \in DOMAIN whole' PROVE StillWhole(p)' /\ Stands(p)' /\ TextsOwn(p)' /\ FixedAt(p)' = {}
  <2>1. StillWhole(p)'
    <3>1. p < EndPos' /\ p + 1 # pos'
      BY <1>1, <1>2, <1>4
    <3>2. (IsWhole(p)' <=> IsWhole(p)) /\ (IsClean(p)' <=> IsClean(p))
      BY <1>1 DEF IsWhole, IsClean
    <3> QED
      BY <3>1, <3>2, <1>1, <1>4 DEF StillWhole
  <2>2. FixedAt(p)' = {}
    BY <1>1 DEF FixedAt
  <2>3. ~Refused(p)'
    <3>1. ToSet(refused') = {}
      BY <1>1 DEF ToSet
    <3> QED
      BY <3>1 DEF Refused
  <2>4. ~(p < pos')
    BY <1>1, <1>4
  <2> QED
    BY <2>1, <2>2, <2>3, <2>4 DEF Stands, TextsOwn
<1>7. FixSound'
  <2>1. FixLoop'
    BY <1>1, <1>6 DEF FixLoop
  <2> QED
    BY <2>1, <1>1 DEF FixSound, Fixed, WholeRecovered, TextWhole
<1> QED
  BY <1>1, <1>5, <1>7, FixFrame

\* A message that fix has passed is in the new base, or was refused.
LEMMA FixDoneStep ==
  ASSUME RepairInv, FixDone, UNCHANGED << packMemory, gone >>
  PROVE  RepairInv'
<1>1. /\ doing = "fix" /\ doing' = "fixed" /\ UNCHANGED files /\ sqd' = sqd
      /\ pos >= EndPos \/ findHdrId(pos) = Len(sqd)
      /\ pos' = pos /\ EndPos' = EndPos /\ newbase' = newbase /\ fixmsg' = fixmsg
      /\ refused' = refused /\ whole' = whole
  BY DEF FixDone, files, fixMemory
<1>2. /\ sqd \in Seq(Cell) /\ Len(sqd) \in Nat /\ FixLoop /\ FixTypes
      /\ pos \in Nat /\ pos >= 1 /\ EndPos \in Nat
  <2>1. sqd \in Seq(Cell) /\ Len(sqd) \in Nat /\ FixLoop
    BY <1>1, LenProperties DEF RepairInv, RepairTypeOK, FileType, FixSound
  <2>2. FixTypes
    BY DEF RepairInv, RepairTypeOK, FixTypes
  <2> QED
    BY <2>1, <2>2 DEF FixTypes, FixLoop
<1>3. ASSUME NEW p \in DOMAIN whole PROVE p < pos
  <2>1. /\ p < EndPos /\ IsHdr(sqd, p) /\ p < Len(sqd) /\ p \in Nat
    <3>1. StillWhole(p) /\ p \in 1 .. Len(sqd)
      BY <1>2 DEF FixLoop, FixTypes
    <3> QED
      BY <3>1, <1>2 DEF StillWhole, IsWhole
  <2>2. CASE pos >= EndPos
    BY <2>1, <2>2, <1>2
  <2>3. CASE findHdrId(pos) = Len(sqd)
    <3> SUFFICES ASSUME p >= pos PROVE FALSE
      BY <2>1, <1>2
    <3>1. /\ Found(pos) \in Nat /\ \A q \in pos .. Found(pos) - 1 : ~IsHdr(sqd, q)
          /\ \/ findHdrId(pos) = -1 /\ Found(pos) = Len(sqd) + 1
             \/ /\ findHdrId(pos) \in pos .. Len(sqd) /\ Found(pos) = findHdrId(pos)
                /\ IsHdr(sqd, findHdrId(pos)) /\ findHdrId(pos) # -1
      BY <1>2, FoundFacts
    <3>2. Found(pos) = Len(sqd)
      <4>1. Len(sqd) # -1
        BY <1>2
      <4> QED
        BY <3>1, <4>1, <2>3
    <3>3. p \in pos .. Found(pos) - 1
      BY <3>2, <2>1, <1>2
    <3> QED
      BY <3>1, <3>3, <2>1
  <2> QED
    BY <2>2, <2>3, <1>1
<1>4. Fixed'
  <2>1. \A p \in DOMAIN whole :
          IF Refused(p) THEN FixedAt(p) = {} ELSE \E k \in 1 .. Len(newbase) : FixedAt(p) = {k}
    BY <1>2, <1>3 DEF FixLoop, Stands
  <2>2. /\ \A p, q \in DOMAIN whole : \A j \in FixedAt(p), k \in FixedAt(q) : p < q => j < k
        /\ \A p \in DOMAIN whole : TextsOwn(p)
    BY <1>2 DEF FixLoop
  <2>3. \A p : FixedAt(p)' = FixedAt(p)
    BY <1>1 DEF FixedAt
  <2>4. WholeRecovered'
    BY <2>1, <2>2, <2>3, <1>1 DEF WholeRecovered, Refused
  <2>5. TextWhole'
    BY <2>2, <2>3, <1>1 DEF TextWhole, TextsOwn
  <2> QED
    BY <2>4, <2>5 DEF Fixed
<1>5. FixSound'
  BY <1>1, <1>4 DEF FixSound
<1>6. FixTypes'
  BY <1>1, <1>2 DEF FixTypes
<1>7. \A k \in 1 .. Len(newbase'), m \in gone : newbase'[k].xmsg # XMSG(m)
  BY <1>1 DEF RepairInv, GoneSound
<1> QED
  BY <1>1, <1>5, <1>6, <1>7, FixFrame

\* The new base is left to itself, or fix dies.
LEMMA FixEndStep ==
  ASSUME RepairInv, doing \in {"fix", "fixed"}, FixEnd, UNCHANGED << packMemory, gone >>
  PROVE  RepairInv'
<1>1. /\ doing' = "idle" /\ UNCHANGED files /\ sqd' = sqd
      /\ pos' = 0 /\ EndPos' = 0 /\ newbase' = << >> /\ fixmsg' = 0
      /\ refused' = << >> /\ whole' = << >>
  BY DEF FixEnd, files
<1>2. Len(sqd) \in Nat
  BY LenProperties DEF RepairInv, RepairTypeOK, FileType
<1>3. NoFix'
  BY <1>1 DEF NoFix
<1>4. FixTypes'
  <2>1. pos' \in 0 .. Len(sqd') + 1 /\ EndPos' \in 0 .. Len(sqd') + 1 /\ fixmsg' \in 0 .. pos'
    BY <1>1, <1>2
  <2>2. /\ newbase' \in Seq([xmsg : Cell, ctrl : Seq(Cell), text : Seq(Cell)])
        /\ refused' \in Seq(Cell) /\ Len(refused') <= MaxRefused
    BY <1>1, SquishFixAssumption
  <2>3. DOMAIN whole' = {}
    BY <1>1
  <2> QED
    BY <2>1, <2>2, <2>3 DEF FixTypes
<1>5. FixSound'
  BY <1>1 DEF FixSound, Fixed, WholeRecovered, TextWhole
<1> QED
  BY <1>1, <1>3, <1>4, <1>5, FixFrame

\* There are no more messages.
LEMMA NotFoundStep ==
  ASSUME RepairInv, NotFound, UNCHANGED << packMemory, gone >>
  PROVE  RepairInv'
<1>1. /\ doing = "fix" /\ doing' = "fix" /\ UNCHANGED files /\ sqd' = sqd
      /\ pos < EndPos /\ findHdrId(pos) = -1
      /\ pos' = Found(pos) /\ EndPos' = EndPos /\ newbase' = newbase /\ fixmsg' = fixmsg
      /\ refused' = refused /\ whole' = whole
  BY DEF NotFound, files
<1>2. /\ sqd \in Seq(Cell) /\ Len(sqd) \in Nat /\ FixLoop /\ FixTypes
      /\ pos \in Nat /\ pos >= 1 /\ pos <= Len(sqd) + 1 /\ fixmsg \in Nat /\ fixmsg <= pos
  <2>1. sqd \in Seq(Cell) /\ Len(sqd) \in Nat /\ FixLoop
    BY <1>1, LenProperties DEF RepairInv, RepairTypeOK, FileType, FixSound
  <2>2. FixTypes
    BY DEF RepairInv, RepairTypeOK, FixTypes
  <2> QED
    BY <2>1, <2>2 DEF FixTypes, FixLoop
<1>3. pos' = Len(sqd) + 1 /\ \A q \in pos .. Len(sqd) : ~IsHdr(sqd, q)
  <2>1. /\ Found(pos) \in Nat /\ \A q \in pos .. Found(pos) - 1 : ~IsHdr(sqd, q)
        /\ \/ findHdrId(pos) = -1 /\ Found(pos) = Len(sqd) + 1
           \/ /\ findHdrId(pos) \in pos .. Len(sqd) /\ Found(pos) = findHdrId(pos)
              /\ IsHdr(sqd, findHdrId(pos)) /\ findHdrId(pos) # -1
    BY <1>2, FoundFacts
  <2>2. Found(pos) = Len(sqd) + 1
    BY <1>1, <2>1
  <2>3. Found(pos) - 1 = Len(sqd)
    BY <1>2, <2>2
  <2> QED
    BY <1>1, <2>1, <2>2, <2>3
<1>4. ASSUME NEW p \in DOMAIN whole
      PROVE  StillWhole(p)' /\ Stands(p)' /\ TextsOwn(p)' /\ FixedAt(p)' = FixedAt(p)
  <2>1. StillWhole(p) /\ Stands(p) /\ TextsOwn(p) /\ p \in 1 .. Len(sqd)
    BY <1>2 DEF FixLoop, FixTypes
  <2>2. IsHdr(sqd, p) /\ p < Len(sqd) /\ p \in Nat
    BY <2>1, <1>2 DEF StillWhole, IsWhole
  <2>3. p < pos
    BY <2>1, <2>2, <1>2, <1>3
  <2>4. p < pos' /\ p + 1 # pos'
    BY <2>2, <1>2, <1>3
  <2>5. (IsWhole(p)' <=> IsWhole(p)) /\ (IsClean(p)' <=> IsClean(p))
    BY <1>1 DEF IsWhole, IsClean
  <2>6. StillWhole(p)'
    BY <2>1, <2>4, <2>5, <1>1 DEF StillWhole
  <2>7. FixedAt(p)' = FixedAt(p) /\ (Refused(p)' <=> Refused(p))
    BY <1>1 DEF FixedAt, Refused
  <2>8. TextsOwn(p)'
    BY <2>1, <2>7, <1>1 DEF TextsOwn
  <2> QED
    BY <2>1, <2>3, <2>4, <2>6, <2>7, <2>8, <1>1 DEF Stands
<1>5. FixLoop'
  <2>1. pos' >= 1
    BY <1>2, <1>3
  <2> QED
    BY <2>1, <1>1, <1>2, <1>4 DEF FixLoop
<1>6. FixSound'
  BY <1>1, <1>5 DEF FixSound, Fixed, WholeRecovered, TextWhole
<1>7. FixTypes'
  <2>1. pos' \in 0 .. Len(sqd') + 1 /\ fixmsg' \in 0 .. pos'
    BY <1>1, <1>2, <1>3
  <2> QED
    BY <2>1, <1>1, <1>2 DEF FixTypes
<1>8. \A k \in 1 .. Len(newbase'), m \in gone : newbase'[k].xmsg # XMSG(m)
  BY <1>1 DEF RepairInv, GoneSound
<1> QED
  BY <1>1, <1>6, <1>7, <1>8, FixFrame

\* What the step does to the memory of fix.
LEMMA FixMsgFacts ==
  ASSUME RepairInv, FixMsg, NEW h, h = findHdrId(pos)
  PROVE  /\ doing = "fix" /\ doing' = "fix" /\ UNCHANGED files /\ sqd' = sqd
         /\ EndPos' = EndPos /\ whole' = whole /\ pos' = h + 2
         /\ h \in Nat /\ h >= pos /\ h < Len(sqd) /\ h + 1 \in 1 .. Len(sqd)
         /\ IsHdr(sqd, h) /\ \A q \in pos .. h - 1 : ~IsHdr(sqd, q)
         /\ \/ /\ \E f \in Formatted(Scanned(TextAt(h + 2))) :
                    newbase' = Append(newbase, [xmsg |-> sqd[h + 1], ctrl |-> f.ctrl,
                                                text |-> f.text])
               /\ fixmsg' = fixmsg + 1 /\ refused' = refused
            \/ /\ Len(refused) < MaxRefused /\ refused' = Append(refused, sqd[h + 1])
               /\ fixmsg' \in {fixmsg, fixmsg + 1} /\ newbase' = newbase
<1>1. /\ doing = "fix" /\ sqd \in Seq(Cell) /\ Len(sqd) \in Nat /\ FixLoop
      /\ pos \in Nat /\ pos >= 1 /\ h # -1
  BY LenProperties DEF FixMsg, RepairInv, RepairTypeOK, FileType, FixSound, FixLoop
<1>2. h \in pos .. Len(sqd) /\ IsHdr(sqd, h) /\ \A q \in pos .. h - 1 : ~IsHdr(sqd, q)
  <2>1. /\ Found(pos) \in Nat /\ \A q \in pos .. Found(pos) - 1 : ~IsHdr(sqd, q)
        /\ \/ findHdrId(pos) = -1 /\ Found(pos) = Len(sqd) + 1
           \/ /\ findHdrId(pos) \in pos .. Len(sqd) /\ Found(pos) = findHdrId(pos)
              /\ IsHdr(sqd, findHdrId(pos)) /\ findHdrId(pos) # -1
    BY <1>1, FoundFacts
  <2>2. Found(pos) = h
    BY <2>1, <1>1
  <2> QED
    BY <2>1, <2>2, <1>1
<1>3. h \in Nat /\ h >= pos
  BY <1>1, <1>2
<1>4. h + SQHDR_SIZE = h + 1 /\ h + 1 + XMSG_SIZE = h + 2
  BY <1>3 DEF SQHDR_SIZE, XMSG_SIZE
<1>5. /\ doing' = "fix" /\ UNCHANGED files /\ EndPos' = EndPos /\ whole' = whole
      /\ h + 1 <= Len(sqd) /\ pos' = h + 2
      /\ \/ /\ \E f \in Formatted(Scanned(TextAt(h + 2))) :
                 newbase' = Append(newbase, [xmsg |-> sqd[h + 1], ctrl |-> f.ctrl,
                                             text |-> f.text])
            /\ fixmsg' = fixmsg + 1 /\ refused' = refused
         \/ /\ Len(refused) < MaxRefused /\ refused' = Append(refused, sqd[h + 1])
            /\ fixmsg' \in {fixmsg, fixmsg + 1} /\ newbase' = newbase
  BY <1>1, <1>4 DEF FixMsg, NextPos
<1>6. h < Len(sqd) /\ h + 1 \in 1 .. Len(sqd)
  BY <1>1, <1>3, <1>5
<1> QED
  BY <1>1, <1>2, <1>3, <1>5, <1>6 DEF files

\* The messages that fix still has to pass are the one of the header and those behind
\* its XMSG.
LEMMA FixMsgRest ==
  ASSUME RepairInv, FixMsg, NEW h, h = findHdrId(pos), NEW p \in DOMAIN whole
  PROVE  /\ StillWhole(p)' /\ StillWhole(p) /\ Stands(p)
         /\ p \in Nat /\ pos \in Nat
         /\ p < pos \/ p = h \/ p >= h + 2
         /\ whole[p].msg \in Msgs /\ sqd[p + 1] = XMSG(whole[p].msg)
         /\ sqd[h + 1] = XMSG(whole[p].msg) => p = h
<1>1. /\ doing = "fix" /\ sqd' = sqd /\ EndPos' = EndPos /\ whole' = whole /\ pos' = h + 2
      /\ h \in Nat /\ h >= pos /\ h < Len(sqd) /\ h + 1 \in 1 .. Len(sqd)
      /\ IsHdr(sqd, h) /\ \A q \in pos .. h - 1 : ~IsHdr(sqd, q)
  BY FixMsgFacts
<1>2. /\ sqd \in Seq(Cell) /\ Len(sqd) \in Nat /\ FixLoop /\ FixTypes /\ OnceIn(sqd)
      /\ pos \in Nat
  <2>1. sqd \in Seq(Cell) /\ Len(sqd) \in Nat /\ FixLoop /\ OnceIn(sqd)
    BY <1>1, LenProperties DEF RepairInv, RepairTypeOK, FileType, FixSound, FileSound
  <2>2. FixTypes
    BY DEF RepairInv, RepairTypeOK, FixTypes
  <2> QED
    BY <2>1, <2>2 DEF FixTypes
<1>3. StillWhole(p) /\ Stands(p) /\ p \in 1 .. Len(sqd) /\ whole[p].msg \in Msgs
  BY <1>2 DEF FixLoop, FixTypes
<1>4. p \in Nat
  BY <1>2, <1>3
<1>5. /\ p < Len(sqd) /\ IsHdr(sqd, p) /\ ~IsHdr(sqd, p - 1)
      /\ sqd[p + 1] = XMSG(whole[p].msg)
  BY <1>3 DEF StillWhole, IsWhole
<1>6. p # h + 1
  <2> SUFFICES ASSUME p = h + 1 PROVE FALSE
    OBVIOUS
  <2>1. p - 1 = h
    BY <1>1, <1>4
  <2> QED
    BY <2>1, <1>1, <1>5
<1>7. p < pos \/ p = h \/ p >= h + 2
  <2>1. p \notin pos .. h - 1
    BY <1>1, <1>5
  <2>2. h \in Nat /\ pos \in Nat /\ h >= pos
    BY <1>1, <1>2
  <2> QED
    BY <1>4, <1>6, <2>1, <2>2
<1>8. ASSUME sqd[h + 1] = XMSG(whole[p].msg) PROVE p = h
  <2>1. sqd[p + 1].part = "xmsg" /\ sqd[p + 1] = sqd[h + 1]
    BY <1>3, <1>5, <1>8, CellsAre
  <2>2. p + 1 \in 1 .. Len(sqd)
    BY <1>2, <1>4, <1>5
  <2>3. p + 1 = h + 1
    BY <2>1, <2>2, <1>1, <1>2 DEF OnceIn
  <2>4. h \in Nat
    BY <1>1
  <2> QED
    BY <2>3, <2>4, <1>4
<1>9. StillWhole(p)'
  <2>1. p + 1 # pos'
    <3>1. h \in Nat /\ pos' = h + 2
      BY <1>1
    <3> QED
      BY <3>1, <1>4, <1>6
  <2>2. (IsWhole(p)' <=> IsWhole(p)) /\ (IsClean(p)' <=> IsClean(p))
    BY <1>1 DEF IsWhole, IsClean
  <2> QED
    BY <2>1, <2>2, <1>1, <1>3 DEF StillWhole
<1> QED
  BY <1>2, <1>3, <1>4, <1>5, <1>7, <1>8, <1>9


\* A message more is in the new base: the one of the next header, and no other one.
LEMMA FixMsgStored ==
  ASSUME RepairInv, FixMsg, UNCHANGED << packMemory, gone >>, NEW h, h = findHdrId(pos),
         NEW f \in Formatted(Scanned(TextAt(h + 2))),
         NEW msg, msg = [xmsg |-> sqd[h + 1], ctrl |-> f.ctrl, text |-> f.text],
         newbase' = Append(newbase, msg), fixmsg' = fixmsg + 1, refused' = refused
  PROVE  RepairInv'
<1>0. PICK n : n = Len(newbase)
  OBVIOUS
<1>1. /\ doing = "fix" /\ doing' = "fix" /\ UNCHANGED files /\ sqd' = sqd
      /\ EndPos' = EndPos /\ whole' = whole /\ pos' = h + 2
      /\ h \in Nat /\ h >= pos /\ h < Len(sqd) /\ h + 1 \in 1 .. Len(sqd) /\ IsHdr(sqd, h)
  BY FixMsgFacts
<1>2. /\ sqd \in Seq(Cell) /\ Len(sqd) \in Nat /\ FixLoop /\ FixTypes
      /\ newbase \in Seq([xmsg : Cell, ctrl : Seq(Cell), text : Seq(Cell)]) /\ n \in Nat
  <2>1. sqd \in Seq(Cell) /\ Len(sqd) \in Nat /\ FixLoop
    BY <1>1, LenProperties DEF RepairInv, RepairTypeOK, FileType, FixSound
  <2>2. FixTypes
    BY DEF RepairInv, RepairTypeOK, FixTypes
  <2> QED
    BY <2>1, <2>2, <1>0, LenProperties DEF FixTypes
<1>3. pos \in Nat /\ fixmsg \in Nat /\ fixmsg <= pos
  BY <1>2 DEF FixTypes
<1>4. /\ sqd[h + 1] \in Cell /\ msg \in [xmsg : Cell, ctrl : Seq(Cell), text : Seq(Cell)]
      /\ msg.xmsg = sqd[h + 1] /\ msg.ctrl = f.ctrl /\ msg.text = f.text
  <2>1. sqd[h + 1] \in Cell
    BY <1>1, <1>2, ElementOfSeq
  <2>2. h + 2 \in Nat /\ h + 2 >= 1 /\ h + 2 <= Len(sqd) + 1
    BY <1>1, <1>2
  <2>3. TextAt(h + 2) \in Seq(Cell)
    BY <1>2, <2>2, TextAtFacts
  <2>4. f \in [ctrl : Seq(Cell), text : Seq(Cell)]
    BY <2>3, ScannedFacts, FormattedTypes
  <2> QED
    BY <2>1, <2>4
<1>5. /\ newbase' \in Seq([xmsg : Cell, ctrl : Seq(Cell), text : Seq(Cell)]) /\ Len(newbase') = n + 1
      /\ \A k \in 1 .. n : newbase'[k] = newbase[k]
      /\ newbase'[n + 1] = msg
  BY <1>0, <1>2, <1>4, AppendProperties
<1>6. /\ \A k \in 1 .. n + 1 : k = n + 1 \/ k \in 1 .. n
      /\ n + 1 \in 1 .. n + 1 /\ \A k \in 1 .. n : k \in 1 .. n + 1 /\ k < n + 1
  BY <1>2
<1>7. ASSUME NEW p \in DOMAIN whole
      PROVE  /\ \A k \in FixedAt(p)' : IF k = n + 1 THEN p = h ELSE k \in FixedAt(p)
             /\ FixedAt(p) \subseteq FixedAt(p)' \cap (1 .. n)
             /\ p = h => n + 1 \in FixedAt(p)'
             /\ Refused(p)' <=> Refused(p)
  <2>1. \A k : k \in FixedAt(p)' <=> k \in 1 .. n + 1 /\ newbase'[k].xmsg = XMSG(whole[p].msg)
    BY <1>1, <1>5 DEF FixedAt
  <2>2. \A k : k \in FixedAt(p) <=> k \in 1 .. n /\ newbase[k].xmsg = XMSG(whole[p].msg)
    BY <1>0 DEF FixedAt
  <2>3. \A k \in FixedAt(p)' : k # n + 1 => k \in FixedAt(p)
    BY <1>5, <1>6, <2>1, <2>2
  <2>4. FixedAt(p) \subseteq FixedAt(p)' \cap (1 .. n)
    BY <1>5, <1>6, <2>1, <2>2
  <2>5. sqd[p + 1] = XMSG(whole[p].msg) /\ (sqd[h + 1] = XMSG(whole[p].msg) => p = h)
    BY FixMsgRest
  <2>6. n + 1 \in FixedAt(p)' => p = h
    BY <1>4, <1>5, <2>1, <2>5
  <2>7. p = h => n + 1 \in FixedAt(p)'
    BY <1>4, <1>5, <1>6, <2>1, <2>5
  <2>8. Refused(p)' <=> Refused(p)
    BY <1>1 DEF Refused
  <2> QED
    BY <2>3, <2>4, <2>6, <2>7, <2>8
<1>8. ASSUME NEW p \in DOMAIN whole
      PROVE  IF p = h THEN FixedAt(p)' = {n + 1} /\ FixedAt(p) = {} /\ ~Refused(p)
                      ELSE FixedAt(p)' = FixedAt(p)
  <2>1. CASE p = h
    <3>1. ~(p < pos) /\ Stands(p)
      BY <1>1, <1>3, <2>1, FixMsgRest
    <3>2. FixedAt(p) = {} /\ ~Refused(p)
      BY <3>1 DEF Stands
    <3>3. \A k \in FixedAt(p)' : k = n + 1
      BY <3>2, <1>7
    <3>4. n + 1 \in FixedAt(p)'
      BY <2>1, <1>7
    <3>5. FixedAt(p)' = {n + 1}
      BY <3>3, <3>4
    <3> QED
      BY <2>1, <3>2, <3>5
  <2>2. CASE p # h
    <3>1. FixedAt(p)' \subseteq FixedAt(p) /\ FixedAt(p) \subseteq FixedAt(p)'
      BY <2>2, <1>7
    <3>2. FixedAt(p)' = FixedAt(p)
      BY <3>1
    <3> QED
      BY <2>2, <3>2
  <2> QED
    BY <2>1, <2>2
<1>9. ASSUME NEW p \in DOMAIN whole PROVE Stands(p)'
  <2>1. Stands(p) /\ p \in Nat /\ (p < pos \/ p = h \/ p >= h + 2)
    BY FixMsgRest
  <2>2. CASE p < pos
    <3>1. p < pos' /\ p # h
      BY <1>1, <1>3, <2>1, <2>2
    <3>2. FixedAt(p)' = FixedAt(p) /\ (Refused(p)' <=> Refused(p))
      BY <3>1, <1>7, <1>8
    <3>3. IF Refused(p) THEN FixedAt(p) = {} ELSE \E k \in 1 .. n : FixedAt(p) = {k}
      BY <2>1, <2>2, <1>0 DEF Stands
    <3>4. IF Refused(p)' THEN FixedAt(p)' = {}
          ELSE \E k \in 1 .. Len(newbase') : FixedAt(p)' = {k}
      BY <3>2, <3>3, <1>5, <1>6
    <3> QED
      BY <3>1, <3>4 DEF Stands
  <2>3. CASE p = h
    <3>1. p < pos'
      BY <1>1, <2>3
    <3>2. FixedAt(p)' = {n + 1} /\ ~Refused(p)' /\ n + 1 \in 1 .. Len(newbase')
      BY <2>3, <1>5, <1>6, <1>7, <1>8
    <3> QED
      BY <3>1, <3>2 DEF Stands
  <2>4. CASE p >= h + 2
    <3>1. ~(p < pos') /\ p # h /\ ~(p < pos)
      BY <1>1, <1>3, <2>1, <2>4
    <3>2. FixedAt(p) = {} /\ ~Refused(p)
      BY <2>1, <3>1 DEF Stands
    <3>3. FixedAt(p)' = {} /\ ~Refused(p)'
      BY <3>1, <3>2, <1>7, <1>8
    <3> QED
      BY <3>1, <3>3 DEF Stands
  <2> QED
    BY <2>1, <2>2, <2>3, <2>4
<1>10. ASSUME NEW p \in DOMAIN whole PROVE TextsOwn(p)'
  <2> SUFFICES ASSUME whole[p].clean, OneLine(whole[p].msg), NEW k \in FixedAt(p)'
               PROVE  IsOwn(newbase'[k], whole[p].msg)
    BY <1>1 DEF TextsOwn
  <2>1. CASE p = h
    <3>1. k = n + 1
      BY <2>1, <1>8
    <3>2. IsWhole(h) /\ IsClean(h) /\ sqd[h].msg = whole[h].msg
      <4>1. StillWhole(p)
        BY FixMsgRest
      <4> QED
        BY <2>1, <4>1 DEF StillWhole
    <3>3. IsOwn(f, sqd[h].msg)
      <4>1. OneLine(sqd[h].msg)
        BY <2>1, <3>2
      <4> QED
        BY <3>2, <4>1, <1>2, CleanText
    <3>4. IsOwn(msg, whole[h].msg)
      BY <3>2, <3>3, <1>4 DEF IsOwn
    <3> QED
      BY <2>1, <3>1, <3>4, <1>5
  <2>2. CASE p # h
    <3>1. k \in FixedAt(p) /\ k \in 1 .. n
      BY <2>2, <1>7, <1>8
    <3>2. IsOwn(newbase[k], whole[p].msg)
      BY <3>1, <1>2 DEF FixLoop, TextsOwn
    <3> QED
      BY <3>1, <3>2, <1>5
  <2> QED
    BY <2>1, <2>2
\* What was fixed last is the last in the base, and in the file.
<1>11. ASSUME NEW p \in DOMAIN whole, NEW q \in DOMAIN whole, p < q,
              NEW j \in FixedAt(p)', NEW k \in FixedAt(q)'
       PROVE  j < k
  <2>1. p \in Nat /\ q \in Nat /\ Stands(q)
    BY FixMsgRest
  <2>2. CASE p = h
    <3>1. ~(q < pos) /\ q # h
      BY <2>1, <2>2, <1>1, <1>3, <1>11
    <3>2. FixedAt(q)' = {}
      BY <2>1, <3>1, <1>8 DEF Stands
    <3> QED
      BY <3>2
  <2>3. CASE p # h /\ q = h
    <3>1. j \in FixedAt(p) /\ j \in 1 .. n /\ k = n + 1
      BY <2>3, <1>7, <1>8
    <3> QED
      BY <3>1, <1>6
  <2>4. CASE p # h /\ q # h
    <3>1. j \in FixedAt(p) /\ k \in FixedAt(q)
      BY <2>4, <1>8
    <3> QED
      BY <3>1, <1>2, <1>11 DEF FixLoop
  <2> QED
    BY <2>2, <2>3, <2>4
<1>12. FixSound'
  <2>1. pos' >= 1
    BY <1>1
  <2>2. \A p \in DOMAIN whole : StillWhole(p)'
    BY FixMsgRest
  <2>3. FixLoop'
    BY <2>1, <2>2, <1>1, <1>9, <1>10, <1>11 DEF FixLoop
  <2> QED
    BY <2>3, <1>1 DEF FixSound, Fixed, WholeRecovered, TextWhole
<1>13. FixTypes'
  <2>1. pos' \in 0 .. Len(sqd') + 1 /\ fixmsg' \in 0 .. pos'
    BY <1>1, <1>2, <1>3
  <2> QED
    BY <2>1, <1>1, <1>2, <1>5 DEF FixTypes
<1>14. ASSUME NEW k \in 1 .. Len(newbase'), NEW m \in gone PROVE newbase'[k].xmsg # XMSG(m)
  <2>1. GoneSound /\ gone \subseteq Msgs
    BY DEF RepairInv, RepairTypeOK
  <2>2. CASE k = n + 1
    <3>1. m \notin Stored(sqd) /\ m \in Msgs
      BY <2>1 DEF GoneSound
    <3>2. sqd[h + 1] # XMSG(m)
      BY <3>1, <1>1 DEF Stored
    <3> QED
      BY <2>2, <3>2, <1>4, <1>5
  <2>3. CASE k \in 1 .. n
    <3>1. newbase[k].xmsg # XMSG(m)
      BY <2>1, <2>3, <1>0 DEF GoneSound
    <3> QED
      BY <3>1, <2>3, <1>5
  <2> QED
    BY <2>2, <2>3, <1>5, <1>6
<1> QED
  BY <1>1, <1>12, <1>13, <1>14, FixFrame

\* Or smapi refuses it.
LEMMA FixMsgRefused ==
  ASSUME RepairInv, FixMsg, UNCHANGED << packMemory, gone >>, NEW h, h = findHdrId(pos),
         Len(refused) < MaxRefused, refused' = Append(refused, sqd[h + 1]),
         fixmsg' \in {fixmsg, fixmsg + 1}, newbase' = newbase
  PROVE  RepairInv'
<1>1. /\ doing = "fix" /\ doing' = "fix" /\ UNCHANGED files /\ sqd' = sqd
      /\ EndPos' = EndPos /\ whole' = whole /\ pos' = h + 2
      /\ h \in Nat /\ h >= pos /\ h < Len(sqd) /\ h + 1 \in 1 .. Len(sqd) /\ IsHdr(sqd, h)
  BY FixMsgFacts
<1>2. /\ sqd \in Seq(Cell) /\ Len(sqd) \in Nat /\ FixLoop /\ FixTypes
      /\ refused \in Seq(Cell)
  <2>1. sqd \in Seq(Cell) /\ Len(sqd) \in Nat /\ FixLoop
    BY <1>1, LenProperties DEF RepairInv, RepairTypeOK, FileType, FixSound
  <2>2. FixTypes
    BY DEF RepairInv, RepairTypeOK, FixTypes
  <2> QED
    BY <2>1, <2>2 DEF FixTypes
<1>3. pos \in Nat /\ fixmsg \in Nat /\ fixmsg <= pos
  BY <1>2 DEF FixTypes
<1>4. sqd[h + 1] \in Cell
  BY <1>1, <1>2, ElementOfSeq
<1>5. /\ refused' \in Seq(Cell) /\ Len(refused') = Len(refused) + 1 /\ Len(refused) \in Nat
      /\ \A k \in 1 .. Len(refused) : refused'[k] = refused[k]
      /\ refused'[Len(refused) + 1] = sqd[h + 1]
  BY <1>2, <1>4, AppendProperties, LenProperties
<1>6. ToSet(refused') = ToSet(refused) \cup {sqd[h + 1]}
  <2>1. /\ \A k \in 1 .. Len(refused) + 1 : k = Len(refused) + 1 \/ k \in 1 .. Len(refused)
        /\ Len(refused) + 1 \in 1 .. Len(refused) + 1
        /\ \A k \in 1 .. Len(refused) : k \in 1 .. Len(refused) + 1
    BY <1>5
  <2>2. DOMAIN refused = 1 .. Len(refused) /\ DOMAIN refused' = 1 .. Len(refused) + 1
    BY <1>2, <1>5, LenProperties
  <2> QED
    BY <2>1, <2>2, <1>5 DEF ToSet
<1>7. ASSUME NEW p \in DOMAIN whole
      PROVE  /\ FixedAt(p)' = FixedAt(p)
             /\ Refused(p)' <=> Refused(p) \/ p = h
  <2>1. sqd[p + 1] = XMSG(whole[p].msg) /\ (sqd[h + 1] = XMSG(whole[p].msg) => p = h)
    BY FixMsgRest
  <2>2. FixedAt(p)' = FixedAt(p)
    BY <1>1 DEF FixedAt
  <2>3. Refused(p)' <=> Refused(p) \/ p = h
    BY <2>1, <1>1, <1>6 DEF Refused
  <2> QED
    BY <2>2, <2>3
<1>8. ASSUME NEW p \in DOMAIN whole PROVE Stands(p)'
  <2>1. Stands(p) /\ p \in Nat /\ (p < pos \/ p = h \/ p >= h + 2)
    BY FixMsgRest
  <2>2. CASE p < pos
    <3>1. p < pos' /\ p # h
      BY <1>1, <1>3, <2>1, <2>2
    <3> QED
      BY <3>1, <2>1, <2>2, <1>7 DEF Stands
  <2>3. CASE p = h
    <3>1. p < pos' /\ ~(p < pos)
      BY <1>1, <1>3, <2>3
    <3> QED
      BY <3>1, <2>1, <2>3, <1>7 DEF Stands
  <2>4. CASE p >= h + 2
    <3>1. ~(p < pos') /\ p # h /\ ~(p < pos)
      BY <1>1, <1>3, <2>1, <2>4
    <3> QED
      BY <3>1, <2>1, <1>7 DEF Stands
  <2> QED
    BY <2>1, <2>2, <2>3, <2>4
<1>9. FixSound'
  <2>1. pos' >= 1
    BY <1>1
  <2>2. \A p \in DOMAIN whole : StillWhole(p)'
    BY FixMsgRest
  <2>4. \A p \in DOMAIN whole : TextsOwn(p)'
    BY <1>1, <1>2, <1>7 DEF FixLoop, TextsOwn
  <2>3. FixLoop'
    BY <2>1, <2>2, <2>4, <1>1, <1>2, <1>7, <1>8 DEF FixLoop
  <2> QED
    BY <2>3, <1>1 DEF FixSound, Fixed, WholeRecovered, TextWhole
<1>10. FixTypes'
  <2>1. pos' \in 0 .. Len(sqd') + 1 /\ fixmsg' \in 0 .. pos'
    BY <1>1, <1>2, <1>3
  <2>2. Len(refused') <= MaxRefused
    BY <1>5, SquishFixAssumption
  <2> QED
    BY <2>1, <2>2, <1>1, <1>2, <1>5 DEF FixTypes
<1>11. \A k \in 1 .. Len(newbase'), m \in gone : newbase'[k].xmsg # XMSG(m)
  BY DEF RepairInv, GoneSound
<1> QED
  BY <1>1, <1>9, <1>10, <1>11, FixFrame

LEMMA FixMsgStep ==
  ASSUME RepairInv, FixMsg, UNCHANGED << packMemory, gone >>
  PROVE  RepairInv'
<1>1. PICK h : h = findHdrId(pos)
  OBVIOUS
<1>2. \/ \E f \in Formatted(Scanned(TextAt(h + 2))) :
           /\ newbase' = Append(newbase, [xmsg |-> sqd[h + 1], ctrl |-> f.ctrl, text |-> f.text])
           /\ fixmsg' = fixmsg + 1 /\ refused' = refused
      \/ /\ Len(refused) < MaxRefused /\ refused' = Append(refused, sqd[h + 1])
         /\ fixmsg' \in {fixmsg, fixmsg + 1} /\ newbase' = newbase
  BY <1>1, FixMsgFacts
<1>3. ASSUME NEW f \in Formatted(Scanned(TextAt(h + 2))),
             newbase' = Append(newbase, [xmsg |-> sqd[h + 1], ctrl |-> f.ctrl, text |-> f.text]),
             fixmsg' = fixmsg + 1, refused' = refused
      PROVE  RepairInv'
  BY <1>1, <1>3, FixMsgStored
<1>4. CASE /\ Len(refused) < MaxRefused /\ refused' = Append(refused, sqd[h + 1])
           /\ fixmsg' \in {fixmsg, fixmsg + 1} /\ newbase' = newbase
  BY <1>1, <1>4, FixMsgRefused
<1> QED
  BY <1>2, <1>3, <1>4

-----------------------------------------------------------------------------
(* How the file is at first. *)

\* The frames of a file are one behind the other, with no message twice.
IsIntact(file) ==
  /\ OnceIn(file)
  /\ \A p : IsHdr(file, p) => p >= FIRST /\ LastCell(file, p) <= Len(file)
  /\ \A p, q : IsHdr(file, p) /\ IsHdr(file, q) /\ p < q => LastCell(file, p) < q

\* A cell of a frame that is added to a file of n cells.
IsAddedCell(c, p, n, m) ==
  \/ p = n + 1 /\ c.part = "hdr" /\ c.frame_length = 1 + TextLen[m]
  \/ p = n + 2 /\ c = XMSG(m)
  \/ p > n + 2 /\ c.part = "text"

\* A frame is added to the file.
LEMMA FrameIsAdded ==
  ASSUME NEW file \in Seq(Cell), NEW m \in Msgs, NEW type \in {"normal", "free"}
  PROVE  /\ file \o Frame(m, type) \in Seq(Cell) /\ Len(file) \in Nat /\ TextLen[m] \in Nat
         /\ Len(file \o Frame(m, type)) = Len(file) + 2 + TextLen[m]
         /\ \A p \in 1 .. Len(file) : (file \o Frame(m, type))[p] = file[p]
         /\ \A p \in 1 .. Len(file) + 2 + TextLen[m] :
              p \notin 1 .. Len(file)
              => IsAddedCell((file \o Frame(m, type))[p], p, Len(file), m)
<1> DEFINE frame == Frame(m, type)
           n == Len(file)
           t == TextLen[m]
<1>1. /\ t \in Nat /\ frame \in Seq(Cell) /\ Len(frame) = 2 + t
      /\ frame[1].part = "hdr" /\ frame[1].frame_length = 1 + t /\ frame[2] = XMSG(m)
      /\ \A k \in 1 .. t : frame[k + 2].part = "text"
  <2>1. /\ t \in Nat /\ frame \in Seq(Cell) /\ Len(frame) = 2 + t
        /\ frame[1] = SQHDR(m, 0, 0, type) /\ frame[2] = XMSG(m)
        /\ \A k \in 1 .. t : frame[k + 2] = Text(m, k)
        /\ SQHDR(m, 0, 0, type) \in Header
        /\ SQHDR(m, 0, 0, type).frame_length = 1 + t
    BY FrameFacts
  <2> HIDE DEF frame, t
  <2>2. frame[1].part = "hdr"
    BY <2>1, CellsAre
  <2>3. ASSUME NEW k \in 1 .. t PROVE frame[k + 2].part = "text"
    <3>1. k \in Nat /\ frame[k + 2] = Text(m, k)
      BY <2>1
    <3> QED
      BY <3>1, CellsAre
  <2> QED
    BY <2>1, <2>2, <2>3
<1>2. n \in Nat
  BY LenProperties
<1>3. /\ file \o frame \in Seq(Cell) /\ Len(file \o frame) = n + Len(frame)
      /\ \A p \in 1 .. n + Len(frame) :
           (file \o frame)[p] = IF p <= n THEN file[p] ELSE frame[p - n]
  <2> HIDE DEF frame
  <2> QED
    BY <1>1, ConcatProperties
<1> HIDE DEF frame, n, t
<1>4. Len(file \o frame) = n + 2 + t /\ n + Len(frame) = n + 2 + t
  BY <1>1, <1>2, <1>3
<1>5. \A p \in 1 .. n : (file \o frame)[p] = file[p]
  <2>1. \A p \in 1 .. n : p \in 1 .. n + 2 + t /\ p <= n
    BY <1>1, <1>2
  <2> QED
    BY <2>1, <1>3, <1>4
<1>6. ASSUME NEW p \in 1 .. n + 2 + t, p \notin 1 .. n
      PROVE  IsAddedCell((file \o frame)[p], p, n, m)
  <2>1. ~(p <= n) /\ p \in Int
    BY <1>1, <1>2, <1>6
  <2>2. (file \o frame)[p] = frame[p - n]
    BY <2>1, <1>3, <1>4
  <2>3. CASE p = n + 1
    <3>1. p - n = 1
      BY <2>3, <1>2
    <3> QED
      BY <3>1, <2>2, <2>3, <1>1 DEF IsAddedCell, t
  <2>4. CASE p = n + 2
    <3>1. p - n = 2
      BY <2>4, <1>2
    <3> QED
      BY <3>1, <2>2, <2>4, <1>1 DEF IsAddedCell, t
  <2>5. CASE p > n + 2
    <3>1. PICK k \in 1 .. t : p - n = k + 2
      <4>1. p - n - 2 \in 1 .. t /\ p - n = (p - n - 2) + 2
        BY <2>1, <2>5, <1>1, <1>2
      <4> QED
        BY <4>1
    <3> QED
      BY <3>1, <2>2, <2>5, <1>1 DEF IsAddedCell, t
  <2>6. p = n + 1 \/ p = n + 2 \/ p > n + 2
    BY <2>1, <1>2
  <2> QED
    BY <2>3, <2>4, <2>5, <2>6
<1> QED
  BY <1>1, <1>2, <1>3, <1>4, <1>5, <1>6 DEF frame, n, t

LEMMA IntactAdded ==
  ASSUME NEW file \in Seq(Cell), NEW m \in Msgs, NEW type \in {"normal", "free"},
         Len(file) >= 1, IsIntact(file), m \notin Stored(file)
  PROVE  /\ IsIntact(file \o Frame(m, type))
         /\ Stored(file \o Frame(m, type)) \subseteq Stored(file) \cup {m}
<1>0. PICK made, n, t : made = file \o Frame(m, type) /\ n = Len(file) /\ t = TextLen[m]
  OBVIOUS
<1>1. /\ n \in Nat /\ t \in Nat /\ Len(made) = n + 2 + t /\ n >= 1
      /\ \A p \in 1 .. n : made[p] = file[p]
      /\ \A p \in 1 .. n + 2 + t :
           p \notin 1 .. n => IsAddedCell(made[p], p, n, m)
  <2>1. n \in Nat /\ t \in Nat /\ Len(made) = n + 2 + t /\ n >= 1
    BY <1>0, FrameIsAdded
  <2>2. \A p \in 1 .. n : made[p] = file[p]
    BY <1>0, FrameIsAdded
  <2>3. \A p \in 1 .. n + 2 + t :
           p \notin 1 .. n => IsAddedCell(made[p], p, n, m)
    BY <1>0, FrameIsAdded
  <2> QED
    BY <2>1, <2>2, <2>3
<1>2. ASSUME NEW p \in 1 .. n + 2 + t, made[p].part = "xmsg"
      PROVE  \/ p \in 1 .. n /\ made[p] = file[p] /\ made[p] # XMSG(m)
             \/ p = n + 2 /\ made[p] = XMSG(m)
  <2>1. CASE p \in 1 .. n
    <3>1. file[p] # XMSG(m)
      BY <2>1, <1>0 DEF Stored
    <3> QED
      BY <3>1, <2>1, <1>1
  <2>2. CASE p \notin 1 .. n
    BY <2>2, <1>1, <1>2 DEF IsAddedCell
  <2> QED
    BY <2>1, <2>2
<1>3. OnceIn(made)
  <2> SUFFICES ASSUME NEW p \in 1 .. n + 2 + t, NEW q \in 1 .. n + 2 + t,
                      made[p].part = "xmsg", made[p] = made[q]
               PROVE  p = q
    BY <1>1 DEF OnceIn
  <2>1. /\ \/ p \in 1 .. n /\ made[p] = file[p] /\ made[p] # XMSG(m)
           \/ p = n + 2 /\ made[p] = XMSG(m)
        /\ \/ q \in 1 .. n /\ made[q] = file[q] /\ made[q] # XMSG(m)
           \/ q = n + 2 /\ made[q] = XMSG(m)
    BY <1>2
  <2> QED
    BY <2>1, <1>0 DEF OnceIn, IsIntact
<1>4. ASSUME NEW p, IsHdr(made, p)
      PROVE  \/ /\ IsHdr(file, p) /\ LastCell(made, p) = LastCell(file, p)
                /\ p >= FIRST /\ LastCell(file, p) <= n /\ p <= n /\ p \in Nat
                /\ LastCell(file, p) \in Nat
             \/ p = n + 1 /\ LastCell(made, p) = n + 2 + t
  <2>1. p \in 1 .. n + 2 + t /\ made[p].part = "hdr"
    BY <1>4, <1>1 DEF IsHdr
  <2>2. CASE p \in 1 .. n
    <3>1. IsHdr(file, p) /\ LastCell(made, p) = LastCell(file, p)
      BY <2>1, <2>2, <1>0, <1>1 DEF IsHdr, LastCell
    <3>2. p >= FIRST /\ LastCell(file, p) <= n
      BY <3>1, <1>0 DEF IsIntact
    <3>3. LastCell(file, p) \in Nat
      BY <3>1, LastIs
    <3>4. p <= n /\ p \in Nat
      BY <2>2, <1>1
    <3> QED
      BY <3>1, <3>2, <3>3, <3>4
  <2>3. CASE p \notin 1 .. n
    <3>1. XMSG(m).part # "hdr"
      BY DEF XMSG
    <3>2. p = n + 1 /\ made[p].frame_length = 1 + t
      BY <3>1, <2>1, <2>3, <1>0, <1>1 DEF IsAddedCell
    <3>3. LastCell(made, p) = n + 1 + (1 + t)
      BY <3>2 DEF LastCell
    <3>4. n + 1 + (1 + t) = n + 2 + t
      BY <1>1
    <3> QED
      BY <3>2, <3>3, <3>4
  <2> QED
    BY <2>2, <2>3
<1>5. ASSUME NEW p, IsHdr(made, p) PROVE p >= FIRST /\ LastCell(made, p) <= Len(made)
  <2>1. CASE p = n + 1 /\ LastCell(made, p) = n + 2 + t
    BY <2>1, <1>1 DEF FIRST, SQBASE_SIZE
  <2>2. CASE ~(p = n + 1 /\ LastCell(made, p) = n + 2 + t)
    <3>1. p >= FIRST /\ LastCell(made, p) \in Nat /\ LastCell(made, p) <= n
      BY <2>2, <1>4, <1>5
    <3> QED
      BY <3>1, <1>1
  <2> QED
    BY <2>1, <2>2
<1>6. ASSUME NEW p, NEW q, IsHdr(made, p), IsHdr(made, q), p < q PROVE LastCell(made, p) < q
  <2>0. q = n + 1 \/ (IsHdr(file, q) /\ q \in Nat /\ q <= n)
    BY <1>4, <1>6
  <2>1. CASE p = n + 1
    <3> QED
      BY <2>0, <2>1, <1>1, <1>6
  <2>2. CASE p # n + 1
    <3>1. /\ IsHdr(file, p) /\ LastCell(made, p) = LastCell(file, p)
          /\ LastCell(file, p) <= n /\ LastCell(file, p) \in Nat
      BY <2>2, <1>4, <1>6
    <3>2. CASE q = n + 1
      BY <3>1, <3>2, <1>1
    <3>3. CASE q # n + 1
      <4>1. IsHdr(file, q)
        BY <2>0, <3>3
      <4> QED
        BY <4>1, <3>1, <1>6 DEF IsIntact
    <3> QED
      BY <3>2, <3>3
  <2> QED
    BY <2>1, <2>2
<1>7. IsIntact(made)
  BY <1>3, <1>5, <1>6 DEF IsIntact
<1>8. ASSUME NEW m2 \in Stored(made) PROVE m2 \in Stored(file) \cup {m}
  <2>1. PICK p \in 1 .. n + 2 + t : made[p] = XMSG(m2)
    BY <1>1 DEF Stored
  <2>2. m2 \in Msgs /\ made[p].part = "xmsg"
    BY <2>1, CellsAre DEF Stored
  <2>3. CASE p \in 1 .. n /\ made[p] = file[p]
    <3>1. p \in 1 .. Len(file) /\ file[p] = XMSG(m2) /\ m2 \in Msgs
      BY <2>1, <2>2, <2>3, <1>0
    <3> QED
      BY <3>1 DEF Stored
  <2>4. CASE made[p] = XMSG(m)
    <3>1. m2 = m
      BY <2>1, <2>4 DEF XMSG
    <3> QED
      BY <3>1
  <2> QED
    BY <2>2, <2>3, <2>4, <1>2
<1> QED
  BY <1>0, <1>7, <1>8

\* Every file with a list of messages is intact.
GrownFile(ms, types, file) ==
  file = [n \in 0 .. Len(ms) |->
            IF n = 0 THEN << BaseCell >> ELSE file[n - 1] \o Frame(ms[n], types[n])]

LEMMA FilesExist ==
  ASSUME NEW ms \in Seq(Msgs), NEW types \in [1 .. Len(ms) -> {"normal", "free"}]
  PROVE  \E file : GrownFile(ms, types, file)
<1>0. /\ Len(ms) \in Nat
      /\ \A n \in 1 .. Len(ms) : ms[n] \in Msgs /\ types[n] \in {"normal", "free"}
  BY LenProperties, ElementOfSeq
<1> DEFINE step == [n \in 1 .. Len(ms) |->
                      [file \in Seq(Cell) |-> file \o Frame(ms[n], types[n])]]
<1>1. ASSUME NEW file \in Seq(Cell), NEW n \in 1 .. Len(ms)
      PROVE  file \o Frame(ms[n], types[n]) \in Seq(Cell)
  BY <1>0, FrameIsAdded
<1>2. StepsIn(Seq(Cell), Len(ms), step)
  BY <1>1 DEF StepsIn
<1>3. << BaseCell >> \in Seq(Cell)
  BY CellsAre
<1> HIDE DEF step
<1>4. PICK file \in [0 .. Len(ms) -> Seq(Cell)] :
        file[0] = << BaseCell >> /\ \A n \in 1 .. Len(ms) : file[n] = step[n][file[n - 1]]
  <2>1. \E row : IsRow(row, Seq(Cell), Len(ms), << BaseCell >>, step)
    BY <1>0, <1>2, <1>3, RowExists
  <2> QED
    BY <2>1 DEF IsRow
<1>5. \A n \in 1 .. Len(ms) : step[n][file[n - 1]] = file[n - 1] \o Frame(ms[n], types[n])
  <2>1. \A n \in 1 .. Len(ms) : file[n - 1] \in Seq(Cell)
    <3>1. \A n \in 1 .. Len(ms) : n - 1 \in 0 .. Len(ms)
      BY <1>0
    <3> QED
      BY <3>1
  <2> QED
    BY <2>1 DEF step
<1>6. \A n \in 0 .. Len(ms) : n # 0 => n \in 1 .. Len(ms)
  BY <1>0
<1>7. file = [n \in 0 .. Len(ms) |->
                IF n = 0 THEN << BaseCell >> ELSE file[n - 1] \o Frame(ms[n], types[n])]
  <2>1. \A n \in 0 .. Len(ms) :
           file[n] = IF n = 0 THEN << BaseCell >> ELSE file[n - 1] \o Frame(ms[n], types[n])
    BY <1>4, <1>5, <1>6
  <2> QED
    BY <2>1
<1> QED
  BY <1>7 DEF GrownFile

LEMMA FilesIntact ==
  ASSUME NEW ms \in Seq(Msgs), NEW types \in [1 .. Len(ms) -> {"normal", "free"}],
         \A j, k \in 1 .. Len(ms) : j # k => ms[j] # ms[k],
         NEW file, GrownFile(ms, types, file)
  PROVE  \A n \in 0 .. Len(ms) :
           /\ file[n] \in Seq(Cell) /\ Len(file[n]) >= 1 /\ IsIntact(file[n])
           /\ \A m \in Stored(file[n]) : \E k \in 1 .. n : m = ms[k]
<1> DEFINE Good(n) == /\ file[n] \in Seq(Cell) /\ Len(file[n]) >= 1 /\ IsIntact(file[n])
                      /\ \A m \in Stored(file[n]) : \E k \in 1 .. n : m = ms[k]
           T == {n \in Nat : n <= Len(ms) => Good(n)}
<1>0. /\ Len(ms) \in Nat
      /\ \A n \in 0 .. Len(ms) :
           file[n] = IF n = 0 THEN << BaseCell >> ELSE file[n - 1] \o Frame(ms[n], types[n])
      /\ \A n \in 1 .. Len(ms) : ms[n] \in Msgs /\ types[n] \in {"normal", "free"}
  BY LenProperties, ElementOfSeq DEF GrownFile
<1>1. 0 \in T
  <2>1. file[0] = << BaseCell >>
    BY <1>0
  <2>2. /\ << BaseCell >> \in Seq(Cell) /\ Len(<< BaseCell >>) = 1
        /\ \A p \in 1 .. 1 : << BaseCell >>[p].part = "base"
    BY CellsAre
  <2>3. /\ file[0] \in Seq(Cell) /\ Len(file[0]) = 1
        /\ \A p \in 1 .. 1 : file[0][p].part = "base"
    BY <2>1, <2>2
  <2>4. \A p : ~IsHdr(file[0], p)
    BY <2>3 DEF IsHdr
  <2>5. OnceIn(file[0])
    BY <2>3 DEF OnceIn
  <2>6. IsIntact(file[0])
    BY <2>4, <2>5 DEF IsIntact
  <2>7. Stored(file[0]) = {}
    <3>1. \A m \in Msgs, p \in 1 .. 1 : file[0][p] # XMSG(m)
      BY <2>3, CellsAre
    <3> QED
      BY <2>3, <3>1 DEF Stored
  <2>8. Good(0)
    BY <2>3, <2>6, <2>7
  <2> QED
    BY <2>8
<1>2. ASSUME NEW n \in Nat, n \in T PROVE n + 1 \in T
  <2> SUFFICES ASSUME n + 1 <= Len(ms) PROVE Good(n + 1)
    OBVIOUS
  <2>1. n \in 0 .. Len(ms) /\ n + 1 \in 0 .. Len(ms) /\ n + 1 \in 1 .. Len(ms) /\ n <= Len(ms)
    BY <1>0
  <2>2. Good(n)
    BY <2>1, <1>2
  <2>3. file[n + 1] = file[n] \o Frame(ms[n + 1], types[n + 1])
    <3>1. n + 1 # 0 /\ (n + 1) - 1 = n
      OBVIOUS
    <3> QED
      BY <3>1, <2>1, <1>0
  <2>4. ms[n + 1] \notin Stored(file[n])
    <3> SUFFICES ASSUME NEW k \in 1 .. n, ms[n + 1] = ms[k] PROVE FALSE
      BY <2>2
    <3>1. k \in 1 .. Len(ms) /\ k # n + 1
      BY <2>1, <1>0
    <3> QED
      BY <3>1, <2>1
  <2>5. ms[n + 1] \in Msgs /\ types[n + 1] \in {"normal", "free"}
    BY <2>1, <1>0
  <2>6. /\ file[n + 1] \in Seq(Cell) /\ Len(file[n]) \in Nat /\ TextLen[ms[n + 1]] \in Nat
        /\ Len(file[n + 1]) = Len(file[n]) + 2 + TextLen[ms[n + 1]]
    <3>1. file[n] \in Seq(Cell)
      BY <2>2
    <3>2. file[n + 1] \in Seq(Cell)
      BY <3>1, <2>3, <2>5, FrameIsAdded
    <3>3. Len(file[n]) \in Nat /\ TextLen[ms[n + 1]] \in Nat
      BY <3>1, <2>5, FrameIsAdded
    <3>4. Len(file[n] \o Frame(ms[n + 1], types[n + 1])) = Len(file[n]) + 2 + TextLen[ms[n + 1]]
      BY <3>1, <2>5, FrameIsAdded
    <3> QED
      BY <2>3, <3>2, <3>3, <3>4
  <2>7. Len(file[n + 1]) >= 1
    BY <2>2, <2>6
  <2>8. IsIntact(file[n + 1]) /\ Stored(file[n + 1]) \subseteq Stored(file[n]) \cup {ms[n + 1]}
    BY <2>2, <2>3, <2>4, <2>5, IntactAdded
  <2>9. ASSUME NEW m \in Stored(file[n + 1]) PROVE \E k \in 1 .. n + 1 : m = ms[k]
    <3>1. n + 1 \in 1 .. n + 1 /\ \A k \in 1 .. n : k \in 1 .. n + 1
      OBVIOUS
    <3> QED
      BY <3>1, <2>2, <2>8
  <2> QED
    BY <2>6, <2>7, <2>8, <2>9
<1>3. \A n \in Nat : n \in T
  <2> HIDE DEF T
  <2> QED
    BY <1>1, <1>2, InductionOverSet
<1>4. ASSUME NEW n \in 0 .. Len(ms) PROVE Good(n)
  <2>1. n \in Nat /\ n <= Len(ms)
    BY <1>0
  <2> QED
    BY <2>1, <1>3
<1> QED
  BY <1>4

LEMMA FileOfIntact ==
  ASSUME NEW ms \in Seq(Msgs), NEW types \in [1 .. Len(ms) -> {"normal", "free"}],
         \A j, k \in 1 .. Len(ms) : j # k => ms[j] # ms[k]
  PROVE  /\ FileOf(ms, types) \in Seq(Cell) /\ Len(FileOf(ms, types)) >= 1
         /\ IsIntact(FileOf(ms, types))
<1> DEFINE file == CHOOSE file : GrownFile(ms, types, file)
<1>1. GrownFile(ms, types, file)
  BY FilesExist
<1>2. FileOf(ms, types) = file[Len(ms)]
  BY DEF FileOf, GrownFile
<1> HIDE DEF file
<1>3. Len(ms) \in 0 .. Len(ms)
  BY LenProperties
<1> QED
  BY <1>1, <1>2, <1>3, FilesIntact

\* The lists of messages and the indexes that the file may start with.
LEMMA ListsOfMsgs ==
  ASSUME NEW ms \in SetToAllKPermutations(Msgs)
  PROVE  ms \in Seq(Msgs) /\ \A j, k \in 1 .. Len(ms) : j # k => ms[j] # ms[k]
<1>1. PICK some \in SUBSET Msgs : ms \in SetToSeqs(some)
  BY DEF SetToAllKPermutations
<1>2. PICK n : n = Cardinality(some)
  OBVIOUS
<1>3. n \in Nat
  BY <1>2, SquishFileAssumption, FS_Subset, FS_CardinalityType
<1>4. ms \in [1 .. n -> some] /\ \A j, k \in 1 .. n : j # k => ms[j] # ms[k]
  BY <1>1, <1>2 DEF SetToSeqs
<1>5. ms \in Seq(some) /\ Len(ms) = n
  BY <1>3, <1>4
<1>6. ms \in [1 .. n -> Msgs]
  BY <1>4
<1>7. ms \in Seq(Msgs)
  BY <1>3, <1>6
<1> QED
  BY <1>4, <1>5, <1>7

LEMMA IndexFacts ==
  ASSUME NEW file \in Seq(Cell), NEW n \in Nat, NEW s \in SeqOf(0 .. Len(file), n),
         IsIntact(file), IsIndexOf(file, s)
  PROVE  /\ IndexOf(s) \in Seq([ofs : Nat, umsgid : Nat])
         /\ IndexSound(file, IndexOf(s), Len(file) + 1)
<1>1. PICK c \in 0 .. n : s \in [1 .. c -> 0 .. Len(file)]
  BY DEF SeqOf
<1>2. Len(file) \in Nat /\ c \in Nat
  BY LenProperties
<1>3. Len(s) = c /\ \A k \in 1 .. c : s[k] \in Nat
  BY <1>1, <1>2
<1>4. PICK idx : idx = IndexOf(s)
  OBVIOUS
<1>5. \A k \in 1 .. c : k \in Nat
  OBVIOUS
<1>6. idx = [k \in 1 .. c |-> [ofs |-> s[k], umsgid |-> k]]
  BY <1>3, <1>4 DEF IndexOf
<1>7. idx \in [1 .. c -> [ofs : Nat, umsgid : Nat]]
  BY <1>3, <1>5, <1>6
<1>8. idx \in Seq([ofs : Nat, umsgid : Nat]) /\ Len(idx) = c
  <2>1. PICK E : E = [ofs : Nat, umsgid : Nat]
    OBVIOUS
  <2>2. idx \in [1 .. c -> E]
    BY <2>1, <1>7
  <2>3. idx \in Seq(E) /\ Len(idx) = c
    BY <2>2, <1>2
  <2> QED
    BY <2>1, <2>3
<1>9. \A k \in 1 .. c : idx[k].ofs = s[k]
  BY <1>6
<1>10. ASSUME NEW k \in 1 .. c, idx[k].ofs # 0 PROVE EntrySound(file, idx, Len(file) + 1, k)
  <2>1. IsHdr(file, s[k]) /\ s[k] = idx[k].ofs /\ s[k] \in Nat
    BY <1>3, <1>9, <1>10 DEF IsIndexOf
  <2>2. s[k] >= FIRST /\ LastCell(file, s[k]) <= Len(file)
    BY <2>1 DEF IsIntact
  <2>3. LastCell(file, s[k]) < Len(file) + 1
    <3>1. LastCell(file, s[k]) \in Nat
      BY <2>1, LastIs
    <3> QED
      BY <3>1, <2>2, <1>2
  <2>4. ASSUME NEW j \in 1 .. c, j # k, idx[j].ofs # 0
        PROVE  \/ LastCell(file, idx[j].ofs) < idx[k].ofs
               \/ LastCell(file, idx[k].ofs) < idx[j].ofs
    <3>1. IsHdr(file, s[j]) /\ s[j] = idx[j].ofs /\ s[j] \in Nat
      BY <1>3, <1>9, <2>4 DEF IsIndexOf
    <3>2. s[j] # s[k]
      BY <1>3, <2>4 DEF IsIndexOf
    <3>3. s[j] < s[k] \/ s[k] < s[j]
      BY <2>1, <3>1, <3>2
    <3> QED
      BY <2>1, <3>1, <3>3 DEF IsIntact
  <2> QED
    BY <2>1, <2>2, <2>3, <2>4, <1>8 DEF EntrySound
<1> QED
  BY <1>4, <1>8, <1>10 DEF IndexSound

LEMMA RepairInitInv ==
  ASSUME RepairInit
  PROVE  RepairInv
<1>1. PICK ms \in SetToAllKPermutations(Msgs) :
        \E types \in [1 .. Len(ms) -> {"normal", "free"}] :
          \E s \in SeqOf(0 .. Len(FileOf(ms, types)), Len(ms)) : InitWith(ms, types, s)
  BY DEF RepairInit
<1>2. PICK types \in [1 .. Len(ms) -> {"normal", "free"}] :
        \E s \in SeqOf(0 .. Len(FileOf(ms, types)), Len(ms)) : InitWith(ms, types, s)
  BY <1>1
<1>3. PICK s \in SeqOf(0 .. Len(FileOf(ms, types)), Len(ms)) : InitWith(ms, types, s)
  BY <1>2
<1>4. /\ sqd = FileOf(ms, types) /\ IsIndexOf(sqd, s) /\ sqi = IndexOf(s)
      /\ end_frame = Len(sqd) + 1
      /\ tossing = << >> /\ damaged = 0 /\ doing = "idle" /\ gone = {}
      /\ NoPack /\ NoFix
  BY <1>3 DEF InitWith
<1>5. ms \in Seq(Msgs) /\ \A j, k \in 1 .. Len(ms) : j # k => ms[j] # ms[k]
  BY ListsOfMsgs
<1>6. sqd \in Seq(Cell) /\ Len(sqd) >= 1 /\ IsIntact(sqd) /\ Len(ms) \in Nat
  BY <1>4, <1>5, FileOfIntact, LenProperties
<1>7. /\ sqi \in Seq([ofs : Nat, umsgid : Nat]) /\ IndexSound(sqd, sqi, end_frame)
      /\ Len(sqd) \in Nat /\ Len(sqi) \in Nat
  <2>1. s \in SeqOf(0 .. Len(sqd), Len(ms))
    BY <1>4
  <2>2. /\ IndexOf(s) \in Seq([ofs : Nat, umsgid : Nat])
        /\ IndexSound(sqd, IndexOf(s), Len(sqd) + 1)
    BY <2>1, <1>4, <1>6, IndexFacts
  <2>3. sqi \in Seq([ofs : Nat, umsgid : Nat]) /\ IndexSound(sqd, sqi, end_frame)
    BY <2>2, <1>4
  <2> QED
    BY <2>3, <1>6, LenProperties
<1>8. FileType
  BY <1>4, <1>6, <1>7, SquishFileAssumption DEF FileType
<1>9. /\ newsqd \in Seq(Cell) /\ newsqi \in Seq([ofs : Nat, umsgid : Nat])
      /\ sqbase \in [begin_frame : Nat, last_frame : Nat, end_frame : Nat,
                     num_msg : 0 .. Len(newsqi)]
      /\ sqidx \in Nat /\ i \in 0 .. Len(sqi) /\ sqhdr \in Header \cup {Junk}
  <2>1. /\ newsqd = << >> /\ newsqi = << >> /\ Len(newsqi) = 0 /\ sqidx = 0 /\ i = 0
        /\ sqhdr = Junk
        /\ sqbase = [begin_frame |-> 2, last_frame |-> 2, end_frame |-> 2, num_msg |-> 0]
    BY <1>4 DEF NoPack, NoBase, FIRST, SQBASE_SIZE
  <2>2. sqbase \in [begin_frame : Nat, last_frame : Nat, end_frame : Nat,
                   num_msg : 0 .. Len(newsqi)]
    BY <2>1
  <2>3. i \in 0 .. Len(sqi)
    BY <2>1, <1>7
  <2> QED
    BY <2>1, <2>2, <2>3
<1>10. /\ pos \in 0 .. Len(sqd) + 1 /\ EndPos \in 0 .. Len(sqd) + 1 /\ fixmsg \in 0 .. pos
       /\ newbase \in Seq([xmsg : Cell, ctrl : Seq(Cell), text : Seq(Cell)]) /\ newbase = << >>
       /\ refused \in Seq(Cell) /\ Len(refused) <= MaxRefused
       /\ DOMAIN whole \subseteq 1 .. Len(sqd)
       /\ \A p \in DOMAIN whole : whole[p] \in [msg : Msgs, clean : BOOLEAN]
  BY <1>4, <1>6, <1>7, SquishFixAssumption DEF NoFix
<1>11. RepairTypeOK
  BY <1>4, <1>8, <1>9, <1>10 DEF RepairTypeOK
<1>12. FileSound
  <2>1. TossEnd = end_frame
    BY <1>4, <1>7 DEF TossEnd, Tossed
  <2>2. end_frame >= FIRST /\ end_frame <= Len(sqd) + 1
        /\ \A p \in 1 .. Len(sqd) : p < end_frame
    BY <1>4, <1>6, <1>7 DEF FIRST, SQBASE_SIZE
  <2>3. EndSound(sqd, TossEnd)
    BY <2>1, <2>2 DEF EndSound, NoneBehind
  <2>4. TossingSound
    BY <1>4 DEF TossingSound
  <2>5. OnceIn(sqd)
    BY <1>6 DEF IsIntact
  <2> QED
    BY <2>2, <2>3, <2>4, <2>5, <1>7 DEF FileSound, EndSound
<1>13. Idle
  BY <1>4 DEF Idle
<1>14. GoneSound
  BY <1>4 DEF GoneSound
<1>15. PackSound
  BY <1>4 DEF PackSound
<1>16. FixSound
  BY <1>4 DEF FixSound, Fixed, WholeRecovered, TextWhole
<1> QED
  BY <1>11, <1>12, <1>13, <1>14, <1>15, <1>16 DEF RepairInv

-----------------------------------------------------------------------------
(* Every step keeps the invariant. *)

LEMMA PackAreaStep ==
  ASSUME RepairInv, PackArea
  PROVE  RepairInv'
<1>1. /\ PackStep /\ UNCHANGED fixMemory
      /\ gone' = IF doing = "packed" THEN gone \cup (Stored(sqd) \ Stored(newsqd)) ELSE gone
  BY DEF PackArea
<1>2. CASE PackOpen
  <2>1. gone' = gone
    BY <1>1, <1>2 DEF PackOpen
  <2> QED
    BY <1>1, <1>2, <2>1, PackOpenStep
<1>3. CASE Skip
  <2>1. gone' = gone
    BY <1>1, <1>3 DEF Skip
  <2> QED
    BY <1>1, <1>3, <2>1, SkipStep
<1>4. CASE Copy
  <2>1. gone' = gone
    BY <1>1, <1>4 DEF Copy
  <2> QED
    BY <1>1, <1>4, <2>1, CopyStep
<1>5. CASE ClearTail
  <2>1. gone' = gone
    BY <1>1, <1>5 DEF ClearTail
  <2> QED
    BY <1>1, <1>5, <2>1, ClearTailStep
<1>6. CASE Replace
  <2>1. gone' = gone \cup (Stored(sqd) \ Stored(newsqd))
    BY <1>1, <1>6 DEF Replace
  <2> QED
    BY <1>1, <1>6, <2>1, ReplaceStep
<1> QED
  BY <1>1, <1>2, <1>3, <1>4, <1>5, <1>6 DEF PackStep

LEMMA FixAreaStep ==
  ASSUME RepairInv, FixArea
  PROVE  RepairInv'
<1>1. FixStep /\ UNCHANGED << packMemory, gone >>
  BY DEF FixArea
<1>2. CASE FixOpen
  BY <1>1, <1>2, FixOpenStep
<1>3. CASE NotFound
  BY <1>1, <1>3, NotFoundStep
<1>4. CASE FixMsg
  BY <1>1, <1>4, FixMsgStep
<1>5. CASE FixDone
  BY <1>1, <1>5, FixDoneStep
<1>6. CASE FixClose
  BY <1>1, <1>6, FixEndStep DEF FixClose
<1>7. CASE FixDies
  BY <1>1, <1>7, FixEndStep DEF FixDies
<1> QED
  BY <1>1, <1>2, <1>3, <1>4, <1>5, <1>6, <1>7 DEF FixStep

LEMMA OtherStep ==
  ASSUME RepairInv, Other
  PROVE  RepairInv'
<1>1. UNCHANGED << doing, packMemory, fixMemory, gone >>
  BY DEF Other
<1>2. ASSUME NEW m \in Msgs \ gone, TossCell(m) PROVE RepairInv'
  BY <1>1, <1>2, TossStep
<1>3. CASE TossDone
  BY <1>1, <1>3, TossDoneStep
<1>4. ASSUME NEW p \in FIRST .. Len(sqd), Damage(p) PROVE RepairInv'
  BY <1>1, <1>4, DamageStep
<1> QED
  BY <1>2, <1>3, <1>4 DEF Other

\* Nothing happens, or something outside of the area.
LEMMA RepairStutter ==
  ASSUME RepairInv, UNCHANGED repairVars
  PROVE  RepairInv'
<1>1. /\ UNCHANGED << files, doing, packMemory, fixMemory, gone >>
      /\ sqd' = sqd /\ end_frame' = end_frame /\ sqi' = sqi /\ tossing' = tossing
      /\ damaged' = damaged
  BY DEF repairVars, files
<1>2. /\ newsqd' = newsqd /\ newsqi' = newsqi /\ sqbase' = sqbase /\ sqidx' = sqidx
      /\ sqhdr' = sqhdr /\ i' = i
      /\ pos' = pos /\ EndPos' = EndPos /\ newbase' = newbase /\ fixmsg' = fixmsg
      /\ refused' = refused /\ whole' = whole
  BY <1>1 DEF packMemory, fixMemory
<1>3. RepairTypeOK'
  BY <1>1, <1>2 DEF RepairInv, RepairTypeOK, FileType
<1>4. FileSound'
  BY <1>1 DEF RepairInv, FileSound, TossingSound, TossEnd, Tossed
<1>5. Idle'
  BY <1>1, <1>2 DEF RepairInv, Idle, NoPack, NoFix
<1>6. GoneSound'
  BY <1>1, <1>2 DEF RepairInv, GoneSound, Stored
<1>7. PackSound'
  <2>1. Packed' <=> Packed
    BY <1>1, <1>2 DEF Packed, AllPacked, ChainPacked, InOrderUnspoilt, Place, IsLive, Stray
  <2>2. NewSound' <=> NewSound
    BY <1>1, <1>2 DEF NewSound, Stored
  <2>3. PackLoop' <=> PackLoop
    <3>1. \A k : /\ Place(k)' = Place(k) /\ (IsLive(k)' <=> IsLive(k))
                /\ NewOfs(k)' = NewOfs(k)
      BY <1>1, <1>2 DEF Place, IsLive, NewOfs
    <3>2. \A k : EntryCopied(k)' <=> EntryCopied(k)
      BY <1>1, <1>2, <3>1 DEF EntryCopied, NewOfs, Place, IsLive
    <3>3. Copied' <=> Copied
      BY <1>1, <1>2, <3>1, <3>2 DEF Copied
    <3>4. Chained' <=> Chained
      BY <1>1, <1>2 DEF Chained, NewOfs
    <3>5. Origins(i)' <=> Origins(i)
      BY <1>1, <1>2 DEF Origins, NewOfs, Place, IsLive
    <3>6. (InOrder' <=> InOrder) /\ (NotReached' <=> NotReached)
      BY <1>1, <1>2 DEF InOrder, NotReached
    <3>7. LastRead' <=> LastRead
      BY <1>1, <1>2, <3>1, <3>6 DEF LastRead
    <3> QED
      BY <3>3, <3>4, <3>5, <3>6, <3>7 DEF PackLoop
  <2> QED
    BY <1>1, <2>1, <2>2, <2>3 DEF RepairInv, PackSound
<1>8. FixSound'
  BY <1>1, FixFramed DEF RepairInv
<1> QED
  BY <1>3, <1>4, <1>5, <1>6, <1>7, <1>8 DEF RepairInv

-----------------------------------------------------------------------------
(* The results. *)

\* The invariant holds, whatever the order of pack, fix, the tosser and disasters
\* (packarea.c:122-256, fixarea.c:125-246).
THEOREM RepairInvariance == RepairSpec => []RepairInv
<1>1. RepairInit => RepairInv
  BY RepairInitInv
<1>2. RepairInv /\ [RepairNext]_repairVars => RepairInv'
  <2> SUFFICES ASSUME RepairInv, [RepairNext]_repairVars PROVE RepairInv'
    OBVIOUS
  <2>1. CASE PackArea
    BY <2>1, PackAreaStep
  <2>2. CASE FixArea
    BY <2>2, FixAreaStep
  <2>3. CASE Other
    BY <2>3, OtherStep
  <2>4. CASE UNCHANGED repairVars
    BY <2>4, RepairStutter
  <2> QED
    BY <2>1, <2>2, <2>3, <2>4 DEF RepairNext
<1> QED
  BY <1>1, <1>2, PTL DEF RepairSpec

\* Each variable has its type; fix stays in the file that it reads, whose end may move,
\* and pack counts no more messages than it has written (packarea.c:183-229,
\* fixarea.c:178-226).
THEOREM RepairTyped == RepairSpec => []RepairTypeOK
<1>1. RepairInv => RepairTypeOK
  BY DEF RepairInv
<1> QED
  BY <1>1, RepairInvariance, PTL

\* When pack replaces the files, the new ones hold each live message of the index once,
\* with its text, in the order of the index, linked, and nothing else that counts
\* (packarea.c:183-256).
THEOREM PackDone == RepairSpec => []Packed
<1>1. RepairInv => Packed
  <2>1. doing # "packed" => Packed
    BY DEF Packed, AllPacked, ChainPacked, InOrderUnspoilt
  <2> QED
    BY <2>1 DEF RepairInv, PackSound
<1> QED
  BY <1>1, RepairInvariance, PTL

\* When fix is done, every message whose header and XMSG were whole is in the new base
\* once and in its place, unless smapi refused it, with its own control info and text if
\* those were there and control info is at most one line, whatever is damaged between the
\* messages that the tosser stores (fixarea.c:54-123, 178-226).
THEOREM FixRecovers == RepairSpec => []Fixed
<1>1. RepairInv => Fixed
  BY DEF RepairInv, FixSound
<1> QED
  BY <1>1, RepairInvariance, PTL

\* A message that pack has left out does not come back when the packed base is fixed
\* (packarea.c:197-200, 230-236, fixarea.c:178-187).
THEOREM GoneForGood == RepairSpec => []GoneStaysAway
<1>1. RepairInv => GoneStaysAway
  BY DEF RepairInv, GoneSound, GoneStaysAway
<1> QED
  BY <1>1, RepairInvariance, PTL

-----------------------------------------------------------------------------
(* The inductive invariant of PackFiles.  It speaks of the behaviours in   *)
(* which MailKept and Recoverable promise something: the packs run one at  *)
(* a time, and none has started since one died between remove and rename.  *)

Promised == ~overlap /\ torn # "overrun"

\* The messages that must not be lost are all complete in the file x.
Saved(x) == x # None /\ stored \ late \subseteq content[x]

OneAtATime ==
  \A p, q \in Packers : pc[p] # "idle" /\ pc[q] # "idle" => p = q

\* The names of the new files lead to files of their own.
NewApart ==
  \A j, k \in Parts :
     new[j] # None => /\ new[j] = new[k] => j = k
                      /\ new[j] # old[k] /\ new[j] # fdToss[k]

\* The tosser has the old files open, or files that pack has copied.
TosserAtOld ==
  fdToss # NoFiles =>
    /\ \A k \in Parts : fdToss[k] # None
    /\ fdToss[1] \in left \/ fdToss = old

\* A packer has the files open that the names lead to.
OpenFiles(p) ==
  /\ pc[p] = "openNew" =>
       \A k \in Parts : k < part[p] => new[k] # None /\ fdNew[p][k] = new[k]
  /\ pc[p] \in {"openOld", "lock", "copy"} =>
       \A k \in Parts : new[k] # None /\ fdNew[p][k] = new[k]
  /\ pc[p] = "openOld" => \A k \in Parts : k < part[p] => fdOld[p][k] = old[k]
  /\ pc[p] \in {"lock", "copy"} => \A k \in Parts : fdOld[p][k] = old[k]

\* Under the lock, what is copied or still to be copied is all there is.
Copying(p) ==
  pc[p] = "copy" =>
    /\ holder[old[1]] = p
    /\ \A k \in Parts : (stored \ late) \ todo[p] \subseteq content[new[k]]

\* Before the first removal the old files hold everything, ...
OldFiles ==
  torn = "no" /\ (\A p \in Packers : pc[p] \notin {"remove", "rename"}) =>
    \A k \in Parts : Saved(old[k])

\* ... and after it the new ones; those of the first parts are removed ...
Removing(p) ==
  pc[p] = "remove" =>
    /\ \A k \in Parts : Saved(new[k]) /\ (k < part[p] => old[k] = None)
    /\ part[p] = 1 => old[1] \in left

\* ... or renamed.
Renaming(p) ==
  pc[p] = "rename" =>
    \A k \in Parts : IF k < part[p] THEN Saved(old[k])
                     ELSE old[k] = None /\ Saved(new[k])

\* What a death in between leaves, until the next pack starts.
TornFiles ==
  /\ torn = "torn" => \A p \in Packers : pc[p] = "idle"
  /\ torn = "torn" =>
       /\ \A k \in Parts : Saved(old[k]) \/ Saved(new[k])
       /\ (\E k \in Parts : old[k] = None) \/ old[1] \in left

\* A packer that has opened an old file has it, whoever else runs.
OldOpen ==
  \A p \in Packers :
    /\ pc[p] = "openOld" => \A k \in Parts : k < part[p] => fdOld[p][k] # None
    /\ pc[p] \in {"lock", "copy"} => \A k \in Parts : fdOld[p][k] # None

Safe ==
  /\ OneAtATime /\ NewApart /\ TosserAtOld
  /\ \A p \in Packers : OpenFiles(p) /\ Copying(p) /\ Removing(p) /\ Renaming(p)
  /\ OldFiles /\ TornFiles

FilesInv == TypeOK /\ OldOpen /\ (Promised => Safe)

-----------------------------------------------------------------------------
(* Types of PackFiles. *)

LEMMA FilesInitTypeOK ==
  ASSUME Init
  PROVE  TypeOK
<1>1. 1 \in Parts /\ NoFiles \in [Parts -> Files \cup {None}] /\ 0 \in 0 .. MaxPacks
  BY PackFilesAssumption DEF Parts, NoFiles
<1>2. content \in [Files -> SUBSET Mail] /\ holder \in [Files -> Packers \cup {None}]
  BY DEF Init
<1> QED
  BY <1>1, <1>2 DEF Init, TypeOK

\* A step of one packer keeps the types.
LEMMA PackerTypeOK ==
  ASSUME TypeOK, OldOpen, NEW p \in Packers,
         Start(p) \/ Pack(p) \/ Crash(p)
  PROVE  TypeOK'
<1> DEFINE Statements == {"idle", "openNew", "openOld", "lock", "removeNew", "copy",
                          "remove", "rename"}
<1> USE PackFilesAssumption
<1>0. /\ N \in Nat \ {0} /\ 1 \in Parts /\ NoFiles \in [Parts -> Files \cup {None}]
      /\ part[p] \in Parts
  BY DEF Parts, NoFiles, TypeOK
<1>1. ASSUME NEW next \in Statements, GoTo(p, next)
      PROVE  pc' \in [Packers -> Statements] /\ part' \in [Packers -> Parts]
  BY <1>0, <1>1 DEF GoTo, TypeOK
<1>2. ASSUME NEW next \in Statements, GoOn(p, next)
      PROVE  pc' \in [Packers -> Statements] /\ part' \in [Packers -> Parts]
  BY <1>0, <1>2 DEF GoOn, TypeOK, Parts
<1>3. Closed(p) => /\ fdOld' \in [Packers -> [Parts -> Files \cup {None}]]
                   /\ fdNew' \in [Packers -> [Parts -> Files \cup {None}]]
                   /\ todo' \in [Packers -> SUBSET Mail]
  BY <1>0 DEF Closed, TypeOK
<1>4. CASE Start(p)
  BY <1>1, <1>4 DEF Start, TypeOK, names
<1>5. CASE OpenNew(p)
  <2>1. pc' \in [Packers -> Statements] /\ part' \in [Packers -> Parts]
    BY <1>2, <1>5 DEF OpenNew
  <2> QED
    BY <2>1, <1>0, <1>5 DEF OpenNew, TypeOK
<1>6. CASE OpenOld(p)
  <2>1. pc' \in [Packers -> Statements] /\ part' \in [Packers -> Parts]
    BY <1>2, <1>6 DEF OpenOld
  <2> QED
    BY <2>1, <1>0, <1>6 DEF OpenOld, TypeOK, names, history
<1>7. CASE OldMissing(p)
  BY <1>1, <1>3, <1>7 DEF OldMissing, TypeOK, names, history
<1>8. CASE Lock(p)
  <2>1. Readable(fdOld[p]) \subseteq Mail
    BY DEF Readable
  <2> QED
    BY <2>1, <1>1, <1>8 DEF Lock, TypeOK, names, history
<1>9. CASE Locked(p)
  BY <1>1, <1>3, <1>9 DEF Locked, TypeOK, names, history
<1>10. CASE RemoveNew(p)
  BY <1>2, <1>10 DEF RemoveNew, TypeOK, history
<1>11. CASE CopyMsg(p)
  BY <1>11 DEF CopyMsg, TypeOK, names, history
<1>12. CASE Unlock(p)
  <2>1. fdOld[p][1] \in Files
    BY <1>0, <1>12 DEF TypeOK, OldOpen, Unlock
  <2> QED
    BY <2>1, <1>1, <1>3, <1>12 DEF Unlock, TypeOK, names
<1>13. CASE RemoveOld(p)
  BY <1>2, <1>13 DEF RemoveOld, TypeOK, history
<1>14. CASE Rename(p)
  BY <1>0, <1>2, <1>14 DEF Rename, TypeOK, history
<1>15. CASE Crash(p)
  BY <1>1, <1>3, <1>15 DEF Crash, TypeOK, names
<1> QED
  BY <1>4, <1>5, <1>6, <1>7, <1>8, <1>9, <1>10, <1>11, <1>12, <1>13, <1>14, <1>15
     DEF Pack

LEMMA TosserTypeOK ==
  ASSUME TypeOK, Tosser
  PROVE  TypeOK'
<1> USE PackFilesAssumption DEF NoFiles
<1>1. CASE TossOpen
  BY <1>1 DEF TossOpen, TypeOK, names, packer, history
<1>2. CASE Toss
  BY <1>2 DEF Toss, TypeOK, names, packer
<1>3. CASE TossClose
  BY <1>3 DEF TossClose, TypeOK, names, packer, history
<1> QED
  BY <1>1, <1>2, <1>3 DEF Tosser

\* The files are opened in the order of the parts.
LEMMA PackerOldOpen ==
  ASSUME TypeOK, OldOpen, NEW p \in Packers,
         Start(p) \/ Pack(p) \/ Crash(p)
  PROVE  OldOpen'
<1>0. /\ N \in Nat \ {0} /\ part[p] \in 1 .. N /\ Parts = 1 .. N
      /\ pc = [q \in Packers |-> pc[q]] /\ part \in [Packers -> Parts]
      /\ fdOld \in [Packers -> [Parts -> Files \cup {None}]]
  BY PackFilesAssumption DEF TypeOK, Parts
<1>1. ASSUME NEW next \in {"idle", "openNew", "removeNew", "remove"}, GoTo(p, next),
             \A q \in Packers \ {p} : fdOld'[q] = fdOld[q]
      PROVE  OldOpen'
  BY <1>0, <1>1 DEF GoTo, OldOpen
<1>2. ASSUME NEW next \in {"idle", "openOld", "rename"}, GoOn(p, next),
             pc[p] \notin {"openOld", "lock", "copy"}, fdOld' = fdOld
      PROVE  OldOpen'
  BY <1>0, <1>2 DEF GoOn, OldOpen
<1>3. Closed(p) => \A q \in Packers \ {p} : fdOld'[q] = fdOld[q]
  BY <1>0 DEF Closed
<1>4. CASE Start(p)
  BY <1>1, <1>4 DEF Start
<1>5. CASE OpenNew(p)
  BY <1>2, <1>5 DEF OpenNew
<1>6. CASE OpenOld(p)
  BY <1>0, <1>6 DEF OpenOld, GoOn, OldOpen
<1>7. CASE OldMissing(p)
  BY <1>1, <1>3, <1>7 DEF OldMissing
<1>8. CASE Lock(p)
  BY <1>0, <1>8 DEF Lock, GoTo, OldOpen
<1>9. CASE Locked(p)
  BY <1>1, <1>3, <1>9 DEF Locked
<1>10. CASE RemoveNew(p)
  BY <1>2, <1>10 DEF RemoveNew
<1>11. CASE CopyMsg(p)
  BY <1>11 DEF CopyMsg, OldOpen
<1>12. CASE Unlock(p)
  BY <1>1, <1>3, <1>12 DEF Unlock
<1>13. CASE RemoveOld(p)
  BY <1>2, <1>13 DEF RemoveOld
<1>14. CASE Rename(p)
  BY <1>2, <1>14 DEF Rename
<1>15. CASE Crash(p)
  BY <1>1, <1>3, <1>15 DEF Crash
<1> QED
  BY <1>4, <1>5, <1>6, <1>7, <1>8, <1>9, <1>10, <1>11, <1>12, <1>13, <1>14, <1>15
     DEF Pack

LEMMA TosserOldOpen ==
  ASSUME OldOpen, Tosser
  PROVE  OldOpen'
BY DEF Tosser, TossOpen, Toss, TossClose, OldOpen, packer

\* The variables have their types in every state of every area: in particular,
\* a packer unlocks a file that it has open (packarea.c:112-267, 308-626).
THEOREM FilesTyped == Spec => []TypeOK
<1>1. Init => TypeOK /\ OldOpen
  <2>1. Init => OldOpen
    BY DEF Init, OldOpen
  <2> QED
    BY <2>1, FilesInitTypeOK
<1>2. TypeOK /\ OldOpen /\ [Next]_vars => (TypeOK /\ OldOpen)'
  <2> SUFFICES ASSUME TypeOK, OldOpen, [Next]_vars PROVE (TypeOK /\ OldOpen)'
    OBVIOUS
  <2>1. CASE Tosser
    BY <2>1, TosserTypeOK, TosserOldOpen
  <2>2. ASSUME NEW p \in Packers, Start(p) \/ Pack(p) \/ Crash(p)
        PROVE  (TypeOK /\ OldOpen)'
    BY <2>2, PackerTypeOK, PackerOldOpen
  <2>3. CASE UNCHANGED vars
    BY <2>3 DEF vars, names, packer, history, TypeOK, OldOpen
  <2> QED
    BY <2>1, <2>2, <2>3 DEF Next
<1> QED
  BY <1>1, <1>2, PTL DEF Spec

-----------------------------------------------------------------------------
(* No mail is lost. *)

LEMMA PartsFacts ==
  N \in Nat \ {0} /\ 1 \in Parts /\ N \in Parts /\ Parts = 1 .. N
BY PackFilesAssumption DEF Parts

\* What is not promised any more is never promised again.
LEMMA PromisedBefore ==
  ASSUME Next, Promised'
  PROVE  Promised
<1>1. CASE Tosser
  BY <1>1 DEF Tosser, TossOpen, Toss, TossClose, history, Promised
<1>2. ASSUME NEW p \in Packers, Start(p) \/ Crash(p)
      PROVE  Promised
  <2>1. CASE Start(p)
    <3>1. ~overlap
      BY <2>1, Zenon DEF Start, Promised
    <3>2. torn # "overrun"
      BY <2>1 DEF Start, Promised
    <3> QED
      BY <3>1, <3>2 DEF Promised
  <2>2. CASE Crash(p)
    BY <2>2 DEF Crash, Promised
  <2> QED
    BY <1>2, <2>1, <2>2
<1>3. ASSUME NEW p \in Packers, Pack(p)
      PROVE  Promised
  <2>1. OpenNew(p) \/ Unlock(p) => Promised
    BY <1>3 DEF OpenNew, Unlock, Promised
  <2>2. OpenOld(p) \/ OldMissing(p) \/ Lock(p) \/ Locked(p) => Promised
    BY <1>3 DEF OpenOld, OldMissing, Lock, Locked, history, Promised
  <2>3. RemoveNew(p) \/ CopyMsg(p) \/ RemoveOld(p) \/ Rename(p) => Promised
    BY <1>3 DEF RemoveNew, CopyMsg, RemoveOld, Rename, history, Promised
  <2> QED
    BY <2>1, <2>2, <2>3, <1>3 DEF Pack
<1> QED
  BY <1>1, <1>2, <1>3 DEF Next

\* A packer that runs is the only one, and none has died while it renamed.
LEMMA Alone ==
  ASSUME Promised, TypeOK, Safe, NEW p \in Packers, pc[p] # "idle"
  PROVE  (\A q \in Packers \ {p} : pc[q] = "idle") /\ torn = "no"
BY DEF Safe, OneAtATime, TornFiles, Promised, TypeOK

LEMMA InitSafe ==
  ASSUME Init
  PROVE  Safe
<1>1. \A k \in Parts : old[k] \in Files /\ new[k] = None /\ content[old[k]] = stored
  BY DEF Init, NoFiles
<1>2. \A p \in Packers : pc[p] = "idle"
  BY DEF Init
<1>3. torn = "no" /\ fdToss = NoFiles
  BY DEF Init
<1>4. OldFiles
  BY <1>1, PackFilesAssumption DEF OldFiles, Saved
<1>5. \A p \in Packers : OpenFiles(p) /\ Copying(p) /\ Removing(p) /\ Renaming(p)
  BY <1>2 DEF OpenFiles, Copying, Removing, Renaming
<1> QED
  BY <1>1, <1>2, <1>3, <1>4, <1>5 DEF Safe, OneAtATime, NewApart, TosserAtOld, TornFiles

\* The tosser stores into the old files while nobody copies them, or what it
\* stores is late.
LEMMA TosserSafe ==
  ASSUME TypeOK, Promised, Safe, Tosser
  PROVE  Safe'
<1> USE PartsFacts, PackFilesAssumption
<1>1. CASE TossOpen
  <2>1. NewApart' /\ TosserAtOld'
    BY <1>1 DEF TossOpen, names, history, Safe, NewApart, TosserAtOld
  <2> QED
    BY <2>1, <1>1 DEF TossOpen, names, packer, history, Safe, OneAtATime, OpenFiles,
       Copying, OldFiles, Removing, Renaming, TornFiles, Saved
<1>2. CASE TossClose
  <2>1. NewApart' /\ TosserAtOld'
    BY <1>2 DEF TossClose, names, history, Safe, NewApart, TosserAtOld, NoFiles
  <2> QED
    BY <2>1, <1>2 DEF TossClose, names, packer, history, Safe, OneAtATime, OpenFiles,
       Copying, OldFiles, Removing, Renaming, TornFiles, Saved
<1>3. CASE Toss
  <2>1. PICK m \in Mail \ stored :
          /\ content' = [f \in Files |-> IF \E k \in Parts : fdToss[k] = f
                                         THEN content[f] \cup {m} ELSE content[f]]
          /\ stored' = stored \cup {m}
          /\ late' = IF fdToss[1] \in left THEN late \cup {m} ELSE late
    BY <1>3 DEF Toss
  <2>2. /\ UNCHANGED << names, packer, holder, fdToss, packs, left, overlap, torn >>
        /\ fdToss # NoFiles /\ holder[fdToss[1]] = None
    BY <1>3 DEF Toss
  <2>3. \A x \in Files : content[x] \subseteq content'[x]
    BY <2>1
  <2>4. OneAtATime' /\ NewApart' /\ TosserAtOld' /\ \A p \in Packers : OpenFiles(p)'
    BY <2>2 DEF names, packer, Safe, OneAtATime, NewApart, TosserAtOld, OpenFiles
  <2>5. old \in [Parts -> Files \cup {None}] /\ new \in [Parts -> Files \cup {None}]
    BY DEF TypeOK
  <2>6. CASE fdToss[1] \in left
    <3>1. stored' \ late' = stored \ late
      BY <2>1, <2>6 DEF TypeOK
    <3>2. \A k \in Parts : /\ (Saved(old[k]) => Saved(old[k])')
                            /\ (Saved(new[k]) => Saved(new[k])')
      BY <3>1, <2>2, <2>3, <2>5 DEF Saved, names
    <3>3. \A p \in Packers : Copying(p)'
      BY <3>1, <2>2, <2>3, <2>4, <2>5 DEF Safe, Copying, names, packer, OpenFiles
    <3>4. \A p \in Packers : Removing(p)' /\ Renaming(p)'
      BY <3>2, <2>2 DEF Safe, Removing, Renaming, names, packer
    <3>5. OldFiles' /\ TornFiles'
      BY <3>2, <2>2 DEF Safe, OldFiles, TornFiles, names, packer
    <3> QED
      BY <2>4, <3>3, <3>4, <3>5 DEF Safe
  <2>7. CASE fdToss[1] \notin left
    <3>1. fdToss = old /\ \A k \in Parts : old[k] # None
      BY <2>7, <2>2 DEF Safe, TosserAtOld
    <3>2. \A p \in Packers : pc[p] \notin {"copy", "remove", "rename"}
      <4> SUFFICES ASSUME NEW p \in Packers, pc[p] \in {"copy", "remove", "rename"} PROVE FALSE
        OBVIOUS
      <4>1. Copying(p) /\ Removing(p) /\ Renaming(p) /\ 1 \in Parts
        BY <2>2 DEF Safe
      <4>2. part[p] \in Parts /\ old[1] # None
        BY <3>1, <2>2 DEF TypeOK
      <4>3. pc[p] # "copy"
        BY <3>1, <2>2, <2>5, <4>1 DEF Copying
      <4>4. pc[p] # "remove"
        BY <2>7, <3>1, <4>1, <4>2 DEF Removing
      <4>5. pc[p] # "rename"
        BY <3>1, <4>1, <4>2 DEF Renaming
      <4> QED
        BY <4>3, <4>4, <4>5
    <3>3. torn = "no"
      BY <3>1, <2>7 DEF Safe, TornFiles, Promised, TypeOK
    <3>4. \A k \in Parts : Saved(old[k])'
      <4> SUFFICES ASSUME NEW k \in Parts PROVE Saved(old[k])'
        OBVIOUS
      <4>1. Saved(old[k]) /\ old[k] \in Files
        BY <3>1, <3>2, <3>3, <2>5 DEF Safe, OldFiles
      <4>2. content'[old[k]] = content[old[k]] \cup {m}
        BY <2>1, <3>1, <4>1
      <4> QED
        BY <2>1, <2>2, <2>7, <4>1, <4>2 DEF Saved, names
    <3>5. \A p \in Packers : Copying(p)' /\ Removing(p)' /\ Renaming(p)'
      BY <2>2, <3>2 DEF Copying, Removing, Renaming, packer
    <3>6. OldFiles' /\ TornFiles'
      BY <2>2, <3>3, <3>4 DEF OldFiles, TornFiles
    <3> QED
      BY <2>4, <3>5, <3>6 DEF Safe
  <2> QED
    BY <2>6, <2>7
<1> QED
  BY <1>1, <1>2, <1>3 DEF Tosser

\* A packer that starts, opens files or gives up touches no file that holds mail.
LEMMA OpeningSafe ==
  ASSUME FilesInv, Promised, Promised', NEW p \in Packers,
         \/ Start(p) \/ OpenNew(p) \/ OpenOld(p)
         \/ OldMissing(p) \/ Locked(p) \/ RemoveNew(p)
  PROVE  Safe'
<1> USE PartsFacts, PackFilesAssumption
<1>0. /\ TypeOK /\ Safe
      /\ pc = [q \in Packers |-> pc[q]] /\ part = [q \in Packers |-> part[q]]
      /\ fdOld = [q \in Packers |-> fdOld[q]] /\ fdNew = [q \in Packers |-> fdNew[q]]
      /\ part[p] \in 1 .. N
      /\ fdNew[p] = [k \in Parts |-> fdNew[p][k]] /\ fdOld[p] = [k \in Parts |-> fdOld[p][k]]
      /\ new = [k \in Parts |-> new[k]]
  BY DEF FilesInv, TypeOK
<1>1. CASE Start(p)
  <2>1. torn = "no" /\ \A q \in Packers : pc[q] = "idle"
    BY <1>1 DEF Start, Promised, FilesInv, TypeOK
  <2>2. /\ \A q \in Packers : pc'[q] \in {"idle", "openNew"} /\ (pc'[q] # "idle" => q = p)
        /\ part'[p] = 1
    BY <2>1, <1>0, <1>1 DEF Start, GoTo
  <2>3. OneAtATime' /\ NewApart' /\ TosserAtOld'
    BY <2>2, <1>0, <1>1 DEF Start, names, Safe, OneAtATime, NewApart, TosserAtOld
  <2>4. \A q \in Packers : OpenFiles(q)' /\ Copying(q)' /\ Removing(q)' /\ Renaming(q)'
    BY <2>2 DEF OpenFiles, Copying, Removing, Renaming
  <2>5. OldFiles' /\ TornFiles'
    BY <2>1, <1>0, <1>1 DEF Start, names, Safe, OldFiles, TornFiles, Saved
  <2> QED
    BY <2>3, <2>4, <2>5 DEF Safe
<1>2. ASSUME pc[p] \in {"openNew", "openOld", "lock", "removeNew"}
      PROVE  /\ torn = "no" /\ \A q \in Packers \ {p} : pc[q] = "idle"
             /\ \A k \in Parts : Saved(old[k])
  <2>1. torn = "no" /\ \A q \in Packers \ {p} : pc[q] = "idle"
    BY <1>2, <1>0, Alone
  <2> QED
    BY <2>1, <1>2, <1>0 DEF Safe, OldFiles
<1>3. CASE OpenNew(p)
  <2> DEFINE k == part[p]
  <2>1. PICK x \in Files :
          /\ IF new[k] = None THEN Free(x) ELSE x = new[k]
          /\ new' = [new EXCEPT ![k] = x]
          /\ fdNew' = [fdNew EXCEPT ![p][k] = x]
          /\ content' = [content EXCEPT ![x] = {}]
          /\ left' = left \ {x}
    BY <1>3 DEF OpenNew
  <2>2. /\ pc[p] = "openNew" /\ GoOn(p, "openOld")
        /\ UNCHANGED << old, holder, fdOld, todo, fdToss, packs, stored, late, overlap, torn >>
    BY <1>3 DEF OpenNew
  <2>3. /\ torn = "no" /\ (\A q \in Packers \ {p} : pc[q] = "idle")
        /\ \A j \in Parts : Saved(old[j])
    BY <1>2, <2>2
  <2>4. /\ \A q \in Packers : q # p => pc'[q] = "idle"
        /\ \/ k # N /\ pc'[p] = "openNew" /\ part'[p] = k + 1
           \/ k = N /\ pc'[p] = "openOld" /\ part'[p] = 1
    BY <2>2, <2>3, <1>0 DEF GoOn
  <2>5. \A j \in Parts : x # old[j] /\ x # fdToss[j] /\ (j # k => x # new[j])
    BY <2>1, <1>0 DEF Free, Safe, NewApart
  <2>6. /\ new'[k] = x /\ fdNew'[p][k] = x /\ x # None
        /\ \A j \in Parts : j # k => new'[j] = new[j] /\ fdNew'[p][j] = fdNew[p][j]
    BY <2>1, <1>0
  <2>7. OneAtATime' /\ NewApart' /\ TosserAtOld'
    <3>1. OneAtATime'
      BY <2>4 DEF OneAtATime
    <3>2. NewApart'
      BY <2>2, <2>5, <2>6, <1>0 DEF Safe, NewApart
    <3>3. TosserAtOld'
      BY <2>1, <2>2, <2>5, <1>0 DEF Safe, TosserAtOld, NoFiles
    <3> QED
      BY <3>1, <3>2, <3>3
  <2>8. OpenFiles(p)'
    <3>1. k \in Nat /\ \A j \in Parts : j \in 1 .. N
      BY <1>0
    <3>2. \A j \in Parts : j < k => new[j] # None /\ fdNew[p][j] = new[j]
      BY <2>2, <1>0 DEF Safe, OpenFiles
    <3>3. \A j \in Parts : j <= k => new'[j] # None /\ fdNew'[p][j] = new'[j]
      BY <2>6, <3>1, <3>2
    <3>4. CASE k # N /\ pc'[p] = "openNew" /\ part'[p] = k + 1
      <4>1. \A j \in Parts : j < part'[p] => j <= k
        BY <3>1, <3>4
      <4> QED
        BY <3>3, <3>4, <4>1 DEF OpenFiles
    <3>5. CASE k = N /\ pc'[p] = "openOld" /\ part'[p] = 1
      <4>1. \A j \in Parts : j <= k /\ ~(j < part'[p])
        BY <3>1, <3>5
      <4> QED
        BY <3>3, <3>5, <4>1 DEF OpenFiles
    <3> QED
      BY <2>4, <3>4, <3>5
  <2>9. \A q \in Packers : OpenFiles(q)' /\ Copying(q)' /\ Removing(q)' /\ Renaming(q)'
    BY <2>4, <2>8 DEF OpenFiles, Copying, Removing, Renaming
  <2>10. \A j \in Parts : Saved(old[j])'
    <3> SUFFICES ASSUME NEW j \in Parts PROVE Saved(old[j])'
      OBVIOUS
    <3>1. content'[old[j]] = content[old[j]]
      BY <2>1, <2>3, <2>5, <1>0 DEF Saved, TypeOK
    <3> QED
      BY <3>1, <2>2, <2>3 DEF Saved
  <2>11. OldFiles' /\ TornFiles'
    BY <2>2, <2>3, <2>10 DEF OldFiles, TornFiles
  <2> QED
    BY <2>7, <2>9, <2>11 DEF Safe
<1>4. CASE OpenOld(p)
  <2>1. /\ pc[p] = "openOld" /\ fdOld' = [fdOld EXCEPT ![p][part[p]] = old[part[p]]]
        /\ GoOn(p, "lock")
        /\ UNCHANGED << names, content, holder, fdNew, todo, fdToss, history >>
    BY <1>4 DEF OpenOld
  <2>2. /\ torn = "no" /\ (\A q \in Packers \ {p} : pc[q] = "idle")
        /\ \A j \in Parts : Saved(old[j])
    BY <1>2, <2>1
  <2>3. /\ \A q \in Packers : q # p => pc'[q] = "idle"
        /\ \/ part[p] # N /\ pc'[p] = "openOld" /\ part'[p] = part[p] + 1
           \/ part[p] = N /\ pc'[p] = "lock" /\ part'[p] = 1
    BY <2>1, <2>2, <1>0 DEF GoOn
  <2>4. OneAtATime' /\ NewApart' /\ TosserAtOld'
    BY <2>1, <2>3, <1>0 DEF names, history, Safe, OneAtATime, NewApart, TosserAtOld
  <2>5. OpenFiles(p)'
    <3>1. /\ fdOld'[p][part[p]] = old[part[p]]
          /\ \A k \in Parts : k # part[p] => fdOld'[p][k] = fdOld[p][k]
      BY <2>1, <1>0
    <3>2. /\ \A k \in Parts : new[k] # None /\ fdNew[p][k] = new[k]
          /\ \A k \in Parts : k < part[p] => fdOld[p][k] = old[k]
      BY <2>1, <1>0 DEF Safe, OpenFiles
    <3>3. new' = new /\ old' = old /\ fdNew' = fdNew
      BY <2>1 DEF names
    <3>4. /\ \A k \in Parts : new'[k] # None /\ fdNew'[p][k] = new'[k]
          /\ \A k \in Parts : k <= part[p] => fdOld'[p][k] = old'[k]
      <4>1. \A k \in Parts : k <= part[p] => k < part[p] \/ k = part[p]
        BY <1>0 DEF Parts
      <4>2. \A k \in Parts : k < part[p] => k # part[p]
        BY <1>0 DEF Parts
      <4> QED
        BY <4>1, <4>2, <3>1, <3>2, <3>3
    <3>5. CASE part[p] # N
      BY <3>4, <3>5, <2>3, <1>0 DEF OpenFiles, Parts
    <3>6. CASE part[p] = N
      BY <3>4, <3>6, <2>3, <1>0 DEF OpenFiles, Parts
    <3> QED
      BY <3>5, <3>6
  <2>6. \A q \in Packers : OpenFiles(q)' /\ Copying(q)' /\ Removing(q)' /\ Renaming(q)'
    BY <2>3, <2>5 DEF OpenFiles, Copying, Removing, Renaming
  <2>7. OldFiles' /\ TornFiles'
    BY <2>1, <2>2 DEF OldFiles, TornFiles, Saved, names, history
  <2> QED
    BY <2>4, <2>6, <2>7 DEF Safe
<1>5. CASE OldMissing(p) \/ Locked(p) \/ RemoveNew(p)
  <2>1. /\ pc[p] \in {"openOld", "lock", "removeNew"}
        /\ \A k \in Parts : new'[k] \in {new[k], None}
        /\ UNCHANGED << old, content, holder, fdToss, history >>
    BY <1>5, <1>0 DEF OldMissing, Locked, RemoveNew, names
  <2>2. /\ torn = "no" /\ (\A q \in Packers \ {p} : pc[q] = "idle")
        /\ \A j \in Parts : Saved(old[j])
    BY <1>2, <2>1
  <2>3. /\ \A q \in Packers : q # p => pc'[q] = "idle"
        /\ pc'[p] \in {"idle", "removeNew"}
    BY <1>5, <2>2, <1>0 DEF OldMissing, Locked, RemoveNew, GoTo, GoOn
  <2>4. OneAtATime' /\ NewApart' /\ TosserAtOld'
    BY <2>1, <2>3, <1>0 DEF history, Safe, OneAtATime, NewApart, TosserAtOld
  <2>5. \A q \in Packers : OpenFiles(q)' /\ Copying(q)' /\ Removing(q)' /\ Renaming(q)'
    BY <2>3 DEF OpenFiles, Copying, Removing, Renaming
  <2>6. OldFiles' /\ TornFiles'
    BY <2>1, <2>2 DEF OldFiles, TornFiles, Saved, history
  <2> QED
    BY <2>4, <2>5, <2>6 DEF Safe
<1> QED
  BY <1>1, <1>3, <1>4, <1>5

\* Under the lock, a packer copies everything before it gives up the old files.
LEMMA CopyingSafe ==
  ASSUME FilesInv, Promised, NEW p \in Packers,
         Lock(p) \/ CopyMsg(p) \/ Unlock(p)
  PROVE  Safe'
<1> USE PartsFacts, PackFilesAssumption
<1>0. /\ TypeOK /\ Safe
      /\ pc = [q \in Packers |-> pc[q]] /\ part = [q \in Packers |-> part[q]]
      /\ todo = [q \in Packers |-> todo[q]]
      /\ holder = [x \in Files |-> holder[x]]
      /\ \A k \in Parts : old[k] # None => old[k] \in Files
      /\ \A k \in Parts : new[k] # None => new[k] \in Files
  BY DEF FilesInv, TypeOK
<1>1. /\ pc[p] \in {"lock", "copy"} /\ torn = "no"
      /\ \A q \in Packers \ {p} : pc[q] = "idle"
  <2>1. pc[p] \in {"lock", "copy"}
    BY DEF Lock, CopyMsg, Unlock
  <2> QED
    BY <2>1, <1>0, Alone
<1>2. /\ \A k \in Parts : Saved(old[k])
      /\ \A k \in Parts : new[k] # None /\ fdNew[p][k] = new[k] /\ fdOld[p][k] = old[k]
  BY <1>0, <1>1 DEF Safe, OldFiles, OpenFiles
<1>3. CASE Lock(p)
  <2>1. /\ pc' = [pc EXCEPT ![p] = "copy"]
        /\ holder' = [holder EXCEPT ![fdOld[p][1]] = p]
        /\ todo' = [todo EXCEPT ![p] = Readable(fdOld[p])]
        /\ UNCHANGED << names, content, fdOld, fdNew, fdToss, history >>
    BY <1>3 DEF Lock, GoTo
  <2>2. pc'[p] = "copy" /\ \A q \in Packers \ {p} : pc'[q] = "idle"
    BY <2>1, <1>0, <1>1
  <2>3. OneAtATime' /\ NewApart' /\ TosserAtOld'
    BY <2>1, <2>2, <1>0 DEF names, history, Safe, OneAtATime, NewApart, TosserAtOld
  <2>4. Copying(p)'
    <3>1. holder'[old[1]] = p
      BY <2>1, <1>0, <1>2 DEF Saved
    <3>2. \A k \in Parts : fdOld[p][k] = old[k] /\ old[k] # None
      BY <1>2 DEF Saved
    <3>3. stored \ late \subseteq Readable(fdOld[p])
      BY <3>2, <1>0, <1>2 DEF Saved, Readable, TypeOK
    <3>4. todo'[p] = Readable(fdOld[p])
      BY <2>1, <1>0
    <3> QED
      BY <3>1, <3>3, <3>4, <2>1 DEF Copying, names, history
  <2>5. \A q \in Packers : OpenFiles(q)' /\ Copying(q)' /\ Removing(q)' /\ Renaming(q)'
    BY <2>1, <2>2, <2>4, <1>2 DEF OpenFiles, Copying, Removing, Renaming, names
  <2>6. OldFiles' /\ TornFiles'
    BY <2>1, <1>1, <1>2 DEF OldFiles, TornFiles, Saved, names, history
  <2> QED
    BY <2>3, <2>5, <2>6 DEF Safe
<1>4. CASE CopyMsg(p)
  <2>1. PICK m \in todo[p] :
          /\ content' = [x \in Files |-> IF \E k \in Parts : fdNew[p][k] = x
                                         THEN content[x] \cup {m} ELSE content[x]]
          /\ todo' = [todo EXCEPT ![p] = @ \ {m}]
    BY <1>4 DEF CopyMsg
  <2>2. /\ pc[p] = "copy"
        /\ UNCHANGED << names, holder, pc, part, fdOld, fdNew, fdToss, history >>
    BY <1>4 DEF CopyMsg
  <2>3. OneAtATime' /\ NewApart' /\ TosserAtOld'
    BY <2>2, <1>0 DEF names, history, Safe, OneAtATime, NewApart, TosserAtOld
  <2>4. Copying(p)'
    <3>1. /\ holder[old[1]] = p
          /\ \A k \in Parts : (stored \ late) \ todo[p] \subseteq content[new[k]]
      BY <2>2, <1>0 DEF Safe, Copying
    <3>2. todo'[p] = todo[p] \ {m}
      BY <2>1, <1>0
    <3>3. \A k \in Parts : content'[new[k]] = content[new[k]] \cup {m}
      BY <2>1, <1>0, <1>2
    <3>4. \A k \in Parts : (stored \ late) \ todo'[p] \subseteq content'[new[k]]
      BY <3>1, <3>2, <3>3
    <3> QED
      BY <3>1, <3>4, <2>2 DEF Copying, names, history
  <2>5. \A q \in Packers : OpenFiles(q)' /\ Copying(q)' /\ Removing(q)' /\ Renaming(q)'
    BY <2>2, <2>4, <1>1, <1>2 DEF OpenFiles, Copying, Removing, Renaming, names
  <2>6. \A k \in Parts : Saved(old[k])'
    <3>1. \A k \in Parts : content[old[k]] \subseteq content'[old[k]]
      BY <2>1, <1>0, <1>2 DEF Saved
    <3> QED
      BY <3>1, <2>2, <1>2 DEF Saved, names, history
  <2>7. OldFiles' /\ TornFiles'
    BY <2>2, <2>6, <1>1 DEF OldFiles, TornFiles, history
  <2> QED
    BY <2>3, <2>5, <2>7 DEF Safe
<1>5. CASE Unlock(p)
  <2>1. /\ pc[p] = "copy" /\ todo[p] = {}
        /\ left' = left \cup {fdOld[p][1]}
        /\ pc' = [pc EXCEPT ![p] = "remove"] /\ part' = [part EXCEPT ![p] = 1]
        /\ UNCHANGED << names, content, fdToss, packs, stored, late, overlap, torn >>
    BY <1>5 DEF Unlock, AllCopied, GoTo
  <2>2. pc'[p] = "remove" /\ part'[p] = 1 /\ \A q \in Packers \ {p} : pc'[q] = "idle"
    BY <2>1, <1>0, <1>1
  <2>3. OneAtATime' /\ NewApart' /\ TosserAtOld'
    BY <2>1, <2>2, <1>0 DEF names, Safe, OneAtATime, NewApart, TosserAtOld, NoFiles
  <2>4. \A k \in Parts : Saved(new[k])'
    BY <2>1, <1>0, <1>2 DEF Safe, Copying, Saved, names
  <2>5. Removing(p)'
    BY <2>1, <2>2, <2>4, <1>2 DEF Removing, names
  <2>6. \A q \in Packers : OpenFiles(q)' /\ Copying(q)' /\ Removing(q)' /\ Renaming(q)'
    BY <2>2, <2>5 DEF OpenFiles, Copying, Removing, Renaming
  <2>7. OldFiles' /\ TornFiles'
    BY <2>1, <2>2, <1>1 DEF OldFiles, TornFiles
  <2> QED
    BY <2>3, <2>6, <2>7 DEF Safe
<1> QED
  BY <1>3, <1>4, <1>5

\* Every part is under the old or the new name while the files are replaced.
LEMMA ReplacingSafe ==
  ASSUME FilesInv, Promised, NEW p \in Packers,
         RemoveOld(p) \/ Rename(p)
  PROVE  Safe'
<1> USE PartsFacts, PackFilesAssumption
<1>0. /\ TypeOK /\ Safe
      /\ pc = [q \in Packers |-> pc[q]] /\ part = [q \in Packers |-> part[q]]
      /\ old = [k \in Parts |-> old[k]] /\ new = [k \in Parts |-> new[k]]
      /\ part[p] \in 1 .. N
  BY DEF FilesInv, TypeOK
<1>1. /\ pc[p] \in {"remove", "rename"} /\ torn = "no"
      /\ \A q \in Packers \ {p} : pc[q] = "idle"
  <2>1. pc[p] \in {"remove", "rename"}
    BY DEF RemoveOld, Rename
  <2> QED
    BY <2>1, <1>0, Alone
<1> DEFINE k == part[p]
<1>2. CASE RemoveOld(p)
  <2>1. /\ pc[p] = "remove" /\ old' = [old EXCEPT ![k] = None] /\ GoOn(p, "rename")
        /\ UNCHANGED << new, content, holder, fdToss, history >>
    BY <1>2 DEF RemoveOld
  <2>2. /\ \A q \in Packers \ {p} : pc'[q] = "idle"
        /\ \/ k # N /\ pc'[p] = "remove" /\ part'[p] = k + 1
           \/ k = N /\ pc'[p] = "rename" /\ part'[p] = 1
    BY <2>1, <1>0, <1>1 DEF GoOn
  <2>3. /\ old'[k] = None /\ \A j \in Parts : j # k => old'[j] = old[j]
        /\ \A j \in Parts : Saved(new[j]) /\ (j < k => old[j] = None)
        /\ k = 1 => old[1] \in left
    BY <2>1, <1>0 DEF Safe, Removing
  <2>4. OneAtATime' /\ NewApart' /\ TosserAtOld'
    <3>1. fdToss # NoFiles => fdToss[1] \in left
      BY <2>3, <1>0 DEF Safe, TosserAtOld
    <3>2. OneAtATime'
      BY <2>2 DEF OneAtATime
    <3>3. NewApart'
      BY <2>1, <2>3, <1>0 DEF Safe, NewApart
    <3>4. fdToss' = fdToss /\ left' = left
      BY <2>1 DEF history
    <3>5. TosserAtOld'
      BY <3>1, <3>4, <1>0 DEF Safe, TosserAtOld
    <3> QED
      BY <3>2, <3>3, <3>5
  <2>5. \A j \in Parts : Saved(new[j])'
    BY <2>1, <2>3 DEF Saved, history
  <2>6. Removing(p)' /\ Renaming(p)'
    <3>1. k \in Parts /\ N \in Parts /\ Parts \subseteq Nat /\ \A j \in Parts : j <= N /\ j >= 1
      BY <1>0 DEF Parts
    <3>2. \A j \in Parts : j <= k => old'[j] = None
      BY <2>3, <3>1
    <3>3. CASE k # N /\ pc'[p] = "remove" /\ part'[p] = k + 1
      <4>1. \A j \in Parts : j < part'[p] => old'[j] = None
        BY <3>1, <3>2, <3>3
      <4>2. part'[p] # 1 /\ pc'[p] # "rename"
        BY <3>1, <3>3
      <4> QED
        BY <2>5, <4>1, <4>2 DEF Removing, Renaming
    <3>4. CASE k = N /\ pc'[p] = "rename" /\ part'[p] = 1
      <4>1. \A j \in Parts : ~(j < part'[p]) /\ old'[j] = None
        BY <3>1, <3>2, <3>4
      <4> QED
        BY <2>5, <3>4, <4>1 DEF Removing, Renaming
    <3> QED
      BY <2>2, <3>3, <3>4
  <2>7. \A q \in Packers : OpenFiles(q)' /\ Copying(q)' /\ Removing(q)' /\ Renaming(q)'
    BY <2>2, <2>6 DEF OpenFiles, Copying, Removing, Renaming
  <2>8. OldFiles' /\ TornFiles'
    BY <2>1, <2>2, <1>1 DEF OldFiles, TornFiles, history
  <2> QED
    BY <2>4, <2>7, <2>8 DEF Safe
<1>3. CASE Rename(p)
  <2>1. \A j \in Parts : IF j < k THEN Saved(old[j]) ELSE old[j] = None /\ Saved(new[j])
    BY <1>3, <1>0 DEF Rename, Safe, Renaming
  <2>2. /\ pc[p] = "rename" /\ old' = [old EXCEPT ![k] = new[k]]
        /\ new' = [new EXCEPT ![k] = None] /\ GoOn(p, "idle")
        /\ UNCHANGED << content, holder, fdOld, fdNew, todo, fdToss, history >>
    BY <1>3, <2>1, <1>0 DEF Rename, Saved
  <2>3. /\ \A q \in Packers \ {p} : pc'[q] = "idle"
        /\ \/ k # N /\ pc'[p] = "rename" /\ part'[p] = k + 1
           \/ k = N /\ pc'[p] = "idle" /\ part'[p] = 1
    BY <2>2, <1>0, <1>1 DEF GoOn
  <2>4. /\ old'[k] = new[k] /\ \A j \in Parts : j # k => old'[j] = old[j]
        /\ new'[k] = None /\ \A j \in Parts : j # k => new'[j] = new[j]
    BY <2>2, <1>0
  <2>5. OneAtATime' /\ NewApart' /\ TosserAtOld'
    <3>1. fdToss # NoFiles => fdToss[1] \in left
      BY <2>1, <1>0 DEF Safe, TosserAtOld
    <3>2. OneAtATime'
      BY <2>3 DEF OneAtATime
    <3>3. NewApart'
      <4> SUFFICES ASSUME NEW j \in Parts, NEW l \in Parts, new'[j] # None
                   PROVE  /\ new'[j] = new'[l] => j = l
                          /\ new'[j] # old'[l] /\ new'[j] # fdToss'[l]
        BY DEF NewApart
      <4>1. j # k /\ new'[j] = new[j] /\ new[j] # None
        BY <2>4
      <4>2. /\ new[j] = new[l] => j = l
            /\ new[j] # old[l] /\ new[j] # fdToss[l] /\ new[j] # new[k]
        BY <4>1, <1>0 DEF Safe, NewApart
      <4>3. fdToss' = fdToss
        BY <2>2
      <4> QED
        BY <4>1, <4>2, <4>3, <2>4
    <3>4. fdToss' = fdToss /\ left' = left
      BY <2>2 DEF history
    <3>5. TosserAtOld'
      BY <3>1, <3>4, <1>0 DEF Safe, TosserAtOld, NoFiles
    <3> QED
      BY <3>2, <3>3, <3>5
  <2>6. \A j \in Parts : IF j <= k THEN Saved(old[j])' ELSE old'[j] = None /\ Saved(new[j])'
    BY <2>1, <2>2, <2>4, <1>0 DEF Saved, history
  <2>7. Renaming(p)' /\ Removing(p)'
    BY <2>3, <2>6, <1>0 DEF Removing, Renaming
  <2>8. \A q \in Packers : OpenFiles(q)' /\ Copying(q)' /\ Removing(q)' /\ Renaming(q)'
    BY <2>3, <2>7 DEF OpenFiles, Copying, Removing, Renaming
  <2>9. OldFiles' /\ TornFiles'
    <3>1. torn' = "no"
      BY <2>2, <1>1 DEF history
    <3>2. k = N => \A j \in Parts : Saved(old[j])'
      BY <2>6
    <3>3. k # N => pc'[p] = "rename"
      BY <2>3
    <3>4. OldFiles'
      BY <3>2, <3>3 DEF OldFiles
    <3> QED
      BY <3>1, <3>4 DEF TornFiles
  <2> QED
    BY <2>5, <2>8, <2>9 DEF Safe
<1> QED
  BY <1>2, <1>3

\* A packer that dies leaves everything under the old names, unless it was
\* removing or renaming.
LEMMA CrashSafe ==
  ASSUME FilesInv, Promised, NEW p \in Packers,
         Crash(p)
  PROVE  Safe'
<1> USE PartsFacts, PackFilesAssumption
<1>0. /\ TypeOK /\ Safe /\ pc[p] # "idle"
      /\ pc = [q \in Packers |-> pc[q]] /\ part[p] \in 1 .. N
  BY DEF FilesInv, TypeOK, Crash
<1>1. torn = "no" /\ \A q \in Packers \ {p} : pc[q] = "idle"
  BY <1>0, Alone
<1>2. /\ \A q \in Packers : pc'[q] = "idle"
      /\ UNCHANGED << names, content, fdToss, packs, stored, left, late, overlap >>
  BY <1>0, <1>1 DEF Crash, GoTo
<1>3. OneAtATime' /\ NewApart' /\ TosserAtOld'
  BY <1>2, <1>0 DEF names, Safe, OneAtATime, NewApart, TosserAtOld, NoFiles
<1>4. \A q \in Packers : OpenFiles(q)' /\ Copying(q)' /\ Removing(q)' /\ Renaming(q)'
  BY <1>2 DEF OpenFiles, Copying, Removing, Renaming
<1>5. CASE pc[p] \in {"remove", "rename"}
  <2>1. torn' = "torn"
    BY <1>1, <1>5 DEF Crash
  <2>2. \A k \in Parts : Saved(old[k]) \/ Saved(new[k])
    BY <1>0, <1>5 DEF Safe, Removing, Renaming
  <2>3. (\E k \in Parts : old[k] = None) \/ old[1] \in left
    BY <1>0, <1>5 DEF Safe, Removing, Renaming
  <2>4. TornFiles'
    BY <2>2, <2>3, <1>2 DEF TornFiles, Saved, names
  <2> QED
    BY <2>1, <2>4, <1>3, <1>4 DEF Safe, OldFiles
<1>6. CASE pc[p] \notin {"remove", "rename"}
  <2>1. torn' = "no"
    BY <1>1, <1>6 DEF Crash
  <2>2. \A k \in Parts : Saved(old[k])
    BY <1>0, <1>1, <1>6 DEF Safe, OldFiles
  <2>3. OldFiles' /\ TornFiles'
    BY <2>1, <2>2, <1>2 DEF OldFiles, TornFiles, Saved, names
  <2> QED
    BY <2>3, <1>3, <1>4 DEF Safe
<1> QED
  BY <1>5, <1>6

\* The invariant of the whole system: packers, tosser, crashes.
THEOREM FilesInvariance == Spec => []FilesInv
<1>1. Init => FilesInv
  <2>1. Init => OldOpen
    BY DEF Init, OldOpen
  <2> QED
    BY <2>1, FilesInitTypeOK, InitSafe DEF FilesInv
<1>2. FilesInv /\ [Next]_vars => FilesInv'
  <2> SUFFICES ASSUME FilesInv, [Next]_vars PROVE FilesInv'
    OBVIOUS
  <2>1. CASE UNCHANGED vars
    BY <2>1 DEF vars, names, packer, history, FilesInv, TypeOK, OldOpen,
       Promised, Safe, OneAtATime, NewApart, TosserAtOld, OpenFiles, Copying, OldFiles, Removing,
       Renaming, TornFiles, Saved
  <2>2. CASE Next
    <3>1. TypeOK' /\ OldOpen'
      BY <2>2, TosserTypeOK, TosserOldOpen, PackerTypeOK, PackerOldOpen DEF Next, FilesInv
    <3>2. ASSUME Promised' PROVE Safe'
      <4>1. Promised /\ TypeOK /\ Safe
        BY <2>2, <3>2, PromisedBefore DEF FilesInv
      <4>2. CASE Tosser
        BY <4>1, <4>2, TosserSafe
      <4>3. ASSUME NEW p \in Packers, Start(p) \/ Pack(p) \/ Crash(p)
            PROVE  Safe'
        BY <3>2, <4>1, <4>3, OpeningSafe, CopyingSafe, ReplacingSafe, CrashSafe DEF Pack
      <4> QED
        BY <2>2, <4>2, <4>3 DEF Next
    <3> QED
      BY <3>1, <3>2 DEF FilesInv
  <2> QED
    BY <2>1, <2>2
<1> QED
  BY <1>1, <1>2, PTL DEF Spec

\* Packs that run one at a time lose no mail, however they interleave with the
\* tosser and wherever they die before the first removal: when none runs, each
\* message is complete under the old names, except what was tossed into files
\* that were copied already (packarea.c:112-267, 308-626).
THEOREM NoMailLost == Spec => []MailKept
<1>1. FilesInv => MailKept
  <2> SUFFICES ASSUME FilesInv, AllIdle, ~overlap, torn = "no"
               PROVE  stored \ late \subseteq Readable(old)
    BY DEF MailKept
  <2>1. \A k \in Parts : Saved(old[k])
    BY DEF FilesInv, Promised, Safe, OldFiles, AllIdle
  <2>2. stored \subseteq Mail
    BY DEF FilesInv, TypeOK
  <2> QED
    BY <2>1, <2>2 DEF Readable, Saved
<1> QED
  BY <1>1, FilesInvariance, PTL

\* Also while the files are replaced, and after a death in between, each part of
\* each message is under the old or the new name (packarea.c:245-248, 591-598).
THEOREM MailRecoverable == Spec => []Recoverable
<1>1. FilesInv => Recoverable
  <2> SUFFICES ASSUME FilesInv, ~overlap, torn # "overrun",
                      NEW m \in stored \ late, NEW k \in Parts
               PROVE  \E n \in {old[k], new[k]} : n # None /\ m \in content[n]
    BY DEF Recoverable
  <2>1. TypeOK /\ Safe /\ Parts = 1 .. N
    BY DEF FilesInv, Promised, Parts
  <2>2. Saved(old[k]) \/ Saved(new[k])
    <3>1. CASE torn = "torn"
      BY <3>1, <2>1 DEF Safe, TornFiles
    <3>2. CASE torn = "no" /\ \A p \in Packers : pc[p] \notin {"remove", "rename"}
      BY <3>2, <2>1 DEF Safe, OldFiles
    <3>3. ASSUME NEW p \in Packers, pc[p] \in {"remove", "rename"}
          PROVE  Saved(old[k]) \/ Saved(new[k])
      BY <3>3, <2>1 DEF Safe, Removing, Renaming
    <3> QED
      BY <3>1, <3>2, <3>3, <2>1 DEF TypeOK
  <2> QED
    BY <2>2 DEF Saved
<1> QED
  BY <1>1, FilesInvariance, PTL
=============================================================================
