------------------------------ MODULE SquishRepair ------------------------------
(***************************************************************************)
(* A Squish area that is packed and fixed, in any order, while the tosser  *)
(* stores messages in it, and whose file may be damaged in between.        *)
(***************************************************************************)
EXTENDS SquishPack, SquishFix

VARIABLE gone  \* history: the messages that pack has left out

repairVars == << files, doing, packMemory, fixMemory, gone >>

\* A file with a list of messages, each of them free or not.
FileOf(ms, types) ==
  LET file[n \in 0 .. Len(ms)] ==
        IF n = 0 THEN << BaseCell >> ELSE file[n - 1] \o Frame(ms[n], types[n])
  IN  file[Len(ms)]

\* An index may name the frames in any order (after a sort), may name a free one
\* (after a purge that died), leave one out (after a sort that died), or have an
\* entry of offset 0.
IsIndexOf(file, s) ==
  /\ \A k \in 1 .. Len(s) : s[k] = 0 \/ IsHdr(file, s[k])
  /\ \A j, k \in 1 .. Len(s) : s[j] = s[k] => j = k

IndexOf(s) == [k \in 1 .. Len(s) |-> [ofs |-> s[k], umsgid |-> k]]

InitWith(ms, types, s) ==
  /\ sqd = FileOf(ms, types) /\ IsIndexOf(sqd, s) /\ sqi = IndexOf(s)
  /\ end_frame = Len(sqd) + 1
  /\ tossing = << >> /\ damaged = 0 /\ doing = "idle" /\ gone = {}
  /\ NoPack /\ NoFix

RepairInit ==
  \E ms \in SetToAllKPermutations(Msgs) :
    \E types \in [1 .. Len(ms) -> {"normal", "free"}] :
      \E s \in SeqOf(0 .. Len(FileOf(ms, types)), Len(ms)) : InitWith(ms, types, s)

PackArea ==
  /\ PackStep
  /\ gone' = IF doing = "packed" THEN gone \cup (Stored(sqd) \ Stored(newsqd)) ELSE gone
  /\ UNCHANGED fixMemory

FixArea == FixStep /\ UNCHANGED << packMemory, gone >>

Other ==
  /\ \/ \E m \in Msgs \ gone : TossCell(m)
     \/ TossDone
     \/ \E p \in FIRST .. Len(sqd) : Damage(p)
  /\ UNCHANGED << doing, packMemory, fixMemory, gone >>

RepairNext == PackArea \/ FixArea \/ Other

Hptutil == doing # "idle" /\ (PackArea \/ FixArea)

RepairSpec == RepairInit /\ [][RepairNext]_repairVars /\ WF_repairVars(Hptutil)

-----------------------------------------------------------------------------
(* Properties. *)

RepairTypeOK ==
  /\ FileType
  /\ newsqd \in Seq(Cell) /\ newsqi \in Seq([ofs : Nat, umsgid : Nat])
  /\ sqbase \in [begin_frame : Nat, last_frame : Nat, end_frame : Nat,
                 num_msg : 0 .. Len(newsqi)]
  /\ sqidx \in Nat /\ i \in 0 .. Len(sqi) /\ sqhdr \in Header \cup {Junk}
  /\ pos \in 0 .. Len(sqd) + 1 /\ EndPos \in 0 .. Len(sqd) + 1
  /\ newbase \in Seq([xmsg : Cell, ctrl : Seq(Cell), text : Seq(Cell)])
  /\ fixmsg \in 0 .. pos
  /\ refused \in Seq(Cell) /\ Len(refused) <= MaxRefused
  /\ DOMAIN whole \subseteq 1 .. Len(sqd)
  /\ \A p \in DOMAIN whole : whole[p] \in [msg : Msgs, clean : BOOLEAN]
  /\ gone \subseteq Msgs

\* What pack has left out does not come back when the packed base is fixed, in spite of
\* the header that it may write behind the end (packarea.c:197-200, 230-236,
\* fixarea.c:178-187).
GoneStaysAway ==
  doing = "fixed" /\ damaged = 0 =>
    \A k \in 1 .. Len(newbase) : newbase[k].xmsg \notin {XMSG(m) : m \in gone}

\* Pack and fix come to their ends, although the tosser goes on
\* (packarea.c:183-229, fixarea.c:178-226).
PackAndFixEnd == doing # "idle" ~> doing = "idle"
=============================================================================
