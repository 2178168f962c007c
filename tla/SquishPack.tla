------------------------------ MODULE SquishPack ------------------------------
(***************************************************************************)
(* What SquishPackArea of src/src/packarea.c writes to the new files of an *)
(* area: the messages in the order of the index, one behind the other.     *)
(* How it opens and replaces the files is PackFiles.                       *)
(***************************************************************************)
EXTENDS SquishFile

VARIABLES
  newsqd, newsqi,  \* the new files
  sqbase,          \* memory: begin_frame, last_frame, end_frame, num_msg
  sqidx,           \* memory: the offset last read, or made, of an index entry
  sqhdr,           \* memory: the header last read
  i                \* memory: number of entries done

packMemory == << newsqd, newsqi, sqbase, sqidx, sqhdr, i >>

NoBase == [begin_frame |-> FIRST, last_frame |-> FIRST, end_frame |-> FIRST, num_msg |-> 0]

NoPack ==
  /\ newsqd = << >> /\ newsqi = << >> /\ sqbase = NoBase
  /\ sqidx = 0 /\ sqhdr = Junk /\ i = 0

EndPack ==
  /\ newsqd' = << >> /\ newsqi' = << >> /\ sqbase' = NoBase
  /\ sqidx' = 0 /\ sqhdr' = Junk /\ i' = 0

\* Until an entry is read, sqidx and sqhdr are what was in their memory.
PackOpen ==
  /\ doing = "idle" /\ tossing = << >> /\ damaged = 0
  /\ newsqd' = << BaseCell >> /\ newsqi' = << >>
  /\ sqbase' = NoBase
  /\ sqidx' \in IF sqi = << >> THEN {0, 1, FIRST + 2} ELSE {0}
  /\ sqhdr' = Junk
  /\ i' = 0
  /\ doing' = "pack"
  /\ UNCHANGED files

\* Fault: free frames are messages.
IsAnyFrame(k) == sqi[k].ofs # 0

IsPacked(k) == sqi[k].ofs # 0 /\ sqd[sqi[k].ofs].frame_type # "free"

Skip ==
  /\ doing = "pack" /\ i < Len(sqi) /\ ~IsPacked(i + 1)
  /\ sqidx' = sqi[i + 1].ofs
  /\ sqhdr' = IF sqidx' = 0 THEN sqhdr ELSE sqd[sqidx']
  /\ i' = i + 1
  /\ UNCHANGED << files, doing, newsqd, newsqi, sqbase >>

PrevFrame(base) == IF base.num_msg = 0 THEN 0 ELSE base.last_frame

Copy ==
  /\ doing = "pack" /\ i < Len(sqi) /\ IsPacked(i + 1)
  /\ LET ofs == sqi[i + 1].ofs
         hdr == sqd[ofs]
         new == Len(newsqd) + 1
         next == new + SQHDR_SIZE + hdr.frame_length
     IN  /\ sqhdr' = [hdr EXCEPT !.prev_frame = PrevFrame(sqbase), !.next_frame = next]
         /\ newsqd' = newsqd \o << sqhdr' >>
                             \o SubSeq(sqd, ofs + SQHDR_SIZE, ofs + hdr.frame_length)
         /\ sqidx' = new
         /\ newsqi' = Append(newsqi, [sqi[i + 1] EXCEPT !.ofs = new])
         /\ sqbase' = [sqbase EXCEPT !.last_frame = new, !.end_frame = next,
                                     !.num_msg = @ + 1]
  /\ i' = i + 1
  /\ UNCHANGED << files, doing >>

\* next_frame is cleared in what is read at an offset; behind the end nothing is
\* read, and the header last read is written there.
Cleared(file, ofs, hdr) ==
  LET old == IF ofs \in 1 .. Len(file) THEN file[ofs] ELSE hdr
  IN  IF old.part = "hdr" THEN [old EXCEPT !.next_frame = 0] ELSE Junk

\* The last entry is looked for behind the end of the new index: sqidx stays the entry
\* that was read from the old one last.  SQBASE is written at the end.
ClearTail ==
  /\ doing = "pack" /\ i = Len(sqi)
  /\ newsqd' = IF sqidx <= SQBASE_SIZE THEN newsqd
               ELSE Written(newsqd, sqidx, << Cleared(newsqd, sqidx, sqhdr) >>)
  /\ doing' = "packed"
  /\ UNCHANGED << files, newsqi, sqbase, sqidx, sqhdr, i >>

\* Fault: the new file is copied over the old one.
CopiedOver(file, new) == Written(file, 1, new)

Renamed(file, new) == new

Replace ==
  /\ doing = "packed"
  /\ sqd' = Renamed(sqd, newsqd) /\ sqi' = newsqi /\ end_frame' = sqbase.end_frame
  /\ EndPack
  /\ doing' = "idle"
  /\ UNCHANGED << tossing, damaged >>

PackStep == PackOpen \/ Skip \/ Copy \/ ClearTail \/ Replace

-----------------------------------------------------------------------------
(* Properties. *)

\* The entries of messages that were not deleted.
IsLive(k) == sqi[k].ofs # 0 /\ sqd[sqi[k].ofs].frame_type = "normal"

\* The place in the new index of entry k: how many messages there are up to it.
Place(k) == Cardinality({j \in 1 .. k : IsLive(j)})

\* Where next_frame is cleared that is not the last message: at the old offset of the
\* last entry, if that is none of a message.
Stray == IF sqi # << >> /\ ~IsLive(Len(sqi)) THEN sqi[Len(sqi)].ofs ELSE 0

\* The new base holds the messages of the old index in its order, each with its
\* umsgid, its text, and nothing that was free; one cell at most is spoilt, where the
\* old offset of a last entry without a message is (packarea.c:183-236).
AllPacked ==
  doing = "packed" =>
    /\ Len(newsqi) = Place(Len(sqi)) /\ sqbase.num_msg = Place(Len(sqi))
    /\ \A k \in {j \in 1 .. Len(sqi) : IsLive(j)} :
         LET new == newsqi[Place(k)].ofs
             old == sqi[k].ofs
         IN  /\ newsqi[Place(k)].umsgid = sqi[k].umsgid
             /\ newsqd[new].part = "hdr" \/ new = Stray
             /\ newsqd[new].msg = sqd[old].msg
             /\ \A d \in 1 .. sqd[old].frame_length :
                  newsqd[new + d] = sqd[old + d] \/ new + d = Stray

\* The frames are linked in the order of the index, from begin_frame to last_frame.
\* If the last entry was none of a message, the last frame leads to the end of
\* the file instead of nowhere (packarea.c:209-228, 230-236).
ChainPacked ==
  doing = "packed" /\ newsqi # << >> =>
    LET n == Len(newsqi)
        ofs(k) == newsqi[k].ofs
    IN  /\ sqbase.begin_frame = ofs(1) /\ sqbase.last_frame = ofs(n)
        /\ \A k \in 1 .. n :
             LET h == newsqd[ofs(k)]
                 next == IF k < n THEN ofs(k + 1)
                     ELSE IF IsLive(Len(sqi)) THEN 0 ELSE sqbase.end_frame
             IN  /\ h.prev_frame = IF k = 1 THEN 0 ELSE ofs(k - 1)
                 /\ h.next_frame = next \/ ofs(k) = Stray

\* If the index names the frames in the order of the file, whatever it names, pack
\* spoils nothing: the old offset is not in front of the new end (packarea.c:230-236).
InOrderUnspoilt ==
  /\ doing = "packed"
  /\ \A j, k \in 1 .. Len(sqi) : j < k => sqi[j].ofs < sqi[k].ofs \/ sqi[k].ofs = 0
  => \A k \in {j \in 1 .. Len(sqi) : IsLive(j)} : \A d \in 1 .. sqd[sqi[k].ofs].frame_length :
        newsqd[newsqi[Place(k)].ofs + d] = sqd[sqi[k].ofs + d]

\* What a pack has made of the area (packarea.c:183-238).
Packed == AllPacked /\ ChainPacked /\ InOrderUnspoilt
=============================================================================
