------------------------------- MODULE SquishFile -------------------------------
(***************************************************************************)
(* The .sqd file of a Squish area as a sequence of cells, as "hptutil      *)
(* pack" and "hptutil fix" read it.  A cell is a SQBASE, SQHDR or XMSG, or *)
(* a piece of control info or text; its offset is its place in the         *)
(* sequence.  So a frame begins at any offset, and its length is the number*)
(* of its cells behind the SQHDR.                                          *)
(***************************************************************************)
EXTENDS Integers, Sequences, FiniteSets, SequencesExt

CONSTANTS
  Msgs,      \* the messages
  TextLen,   \* number of pieces of the control info and text of each message
  MaxDamage  \* bound: how many cells are damaged

ASSUME SquishFileAssumption ==
  /\ IsFiniteSet(Msgs)
  /\ TextLen \in [Msgs -> Nat]
  /\ MaxDamage \in Nat

VARIABLES
  sqd,        \* the file
  end_frame,  \* SQBASE.end_frame: where the next frame goes
  sqi,        \* the index
  tossing,    \* the message that the tosser is about to store, or none
  damaged,    \* number of cells that were damaged
  doing       \* what hptutil does

files == << sqd, end_frame, sqi, tossing, damaged >>

SQBASE_SIZE == 1  \* in cells
SQHDR_SIZE == 1
XMSG_SIZE == 1
FIRST == SQBASE_SIZE + 1  \* the offset behind SQBASE

BaseCell == [part |-> "base"]
Junk == [part |-> "junk"]
Hole == [part |-> "hole"]  \* never written: NULs
XMSG(m) == [part |-> "xmsg", msg |-> m]
Text(m, k) == [part |-> "text", msg |-> m, at |-> k]
SQHDR(m, prev, next, type) ==
  [part |-> "hdr", msg |-> m, prev_frame |-> prev, next_frame |-> next,
   frame_length |-> XMSG_SIZE + TextLen[m], frame_type |-> type]

Header == [part : {"hdr"}, msg : Msgs, prev_frame : Nat, next_frame : Nat,
           frame_length : Nat, frame_type : {"normal", "free"}]

Cell == {BaseCell, Junk, Hole} \cup Header \cup [part : {"xmsg"}, msg : Msgs]
        \cup [part : {"text"}, msg : Msgs, at : Nat]

Texts(m) == [k \in 1 .. TextLen[m] |-> Text(m, k)]

\* The links of a frame that pack and fix do not look at are left out.
Frame(m, type) == << SQHDR(m, 0, 0, type), XMSG(m) >> \o Texts(m)

IsHdr(file, p) == p \in 1 .. Len(file) /\ file[p].part = "hdr"

\* The file when cells are written at an offset, with a hole if that is behind the end.
Written(file, p, cells) ==
  [q \in 1 .. (IF p + Len(cells) - 1 > Len(file) THEN p + Len(cells) - 1 ELSE Len(file)) |->
     IF q \in p .. p + Len(cells) - 1 THEN cells[q - p + 1]
     ELSE IF q <= Len(file) THEN file[q] ELSE Hole]

\* The messages whose XMSG is there.
Stored(file) == {m \in Msgs : \E p \in 1 .. Len(file) : file[p] = XMSG(m)}

-----------------------------------------------------------------------------
(* Other programs, and disasters. *)

\* hpt toss writes a frame from its front, while nobody holds the lock...
TossCell(m) ==
  /\ doing \in {"idle", "fix"}
  /\ LET done == IF tossing = << >> THEN 0 ELSE tossing[2]
         cells == Frame(m, "normal")
     IN  /\ IF tossing = << >> THEN m \notin Stored(sqd) ELSE m = tossing[1]
         /\ done < Len(cells)
         /\ sqd' = Written(sqd, end_frame + done, << cells[done + 1] >>)
         /\ tossing' = << m, done + 1 >>
  /\ UNCHANGED << end_frame, sqi, damaged >>

\* ...then SQBASE and the index.
TossDone ==
  /\ tossing # << >>
  /\ tossing[2] = Len(Frame(tossing[1], "normal"))
  /\ sqi' = Append(sqi, [ofs |-> end_frame, umsgid |-> Len(sqi) + 1])
  /\ end_frame' = end_frame + tossing[2]
  /\ tossing' = << >>
  /\ UNCHANGED << sqd, damaged >>

\* A cell is spoilt or gone.  The index is of no more use then; the tosser goes on where
\* SQBASE says.
Damage(p) ==
  /\ doing = "idle" /\ tossing = << >> /\ damaged < MaxDamage
  /\ sqd' \in {[sqd EXCEPT ![p] = Junk], RemoveAt(sqd, p)}
  /\ damaged' = damaged + 1
  /\ sqi' = << >>
  /\ UNCHANGED << tossing, end_frame >>

FileType ==
  /\ sqd \in Seq(Cell)
  /\ sqi \in Seq([ofs : Nat, umsgid : Nat]) /\ end_frame \in Nat
  /\ tossing = << >> \/ tossing \in Msgs \X Nat
  /\ damaged \in 0 .. MaxDamage
  /\ doing \in {"idle", "pack", "packed", "fix", "fixed"}
=============================================================================
