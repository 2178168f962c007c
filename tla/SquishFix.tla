------------------------------- MODULE SquishFix -------------------------------
(***************************************************************************)
(* "hptutil fix" on one Squish area: SquishFixArea of src/src/fixarea.c    *)
(* looks through the .sqd file for the headers of frames and stores what   *)
(* follows each of them in a new base, through smapi.  It uses no index, no*)
(* link and no lock.                                                       *)
(***************************************************************************)
EXTENDS SquishFile

CONSTANTS
  CtrlLen,    \* how many of the pieces of a message are control info
  SOH,        \* the cells that begin with \001
  CR,         \* the cells that end with a CR,
  NUL,        \*   or with a NUL; a piece has neither of them before its end
  MaxRefused  \* bound: how many messages smapi does not store in a run

LineEnds == CR \cup NUL

\* Control info is in lines that begin with \001.  A NUL is behind it, behind the
\* text, or nowhere.
ASSUME SquishFixAssumption ==
  /\ MaxRefused \in Nat
  /\ CtrlLen \in [Msgs -> Nat]
  /\ \A m \in Msgs : CtrlLen[m] <= TextLen[m]
  /\ \A m \in Msgs : \A k \in 1 .. TextLen[m] :
       /\ Text(m, k) \in NUL => k \in {CtrlLen[m], TextLen[m]}
       /\ k <= CtrlLen[m] /\ (k = 1 \/ Text(m, k - 1) \in LineEnds) => Text(m, k) \in SOH

VARIABLES
  pos,      \* where the old file is read next
  EndPos,   \* its end when fix began
  newbase,  \* the messages of the new base: XMSG, control info and text
  fixmsg,   \* their number, as fix counts
  refused,  \* history: the messages that smapi did not store
  whole     \* history: the whole messages when fix began, by their offsets

fixMemory == << pos, EndPos, newbase, fixmsg, refused, whole >>

NoFix ==
  /\ pos = 0 /\ EndPos = 0 /\ newbase = << >> /\ fixmsg = 0
  /\ refused = << >> /\ whole = << >>

\* What strchr, strlen and strcat can come to: a hole is NULs, and an XMSG has some.
Scanned(text) ==
  LET k == SelectInSeq(text, LAMBDA c : c.part \in {"xmsg", "hole"})
  IN  IF k = 0 THEN text
      ELSE SubSeq(text, 1, IF text[k] = Hole THEN k - 1 ELSE k)

\* Fault: only a CR ends a line of control info.
LineStartsCR(t) == {k \in 1 .. Len(t) + 1 : k = 1 \/ k = Len(t) + 1 \/ t[k - 1] \in CR}

\* Where lines begin, and where the last one ends.
LineStarts(t) == {k \in 1 .. Len(t) + 1 : k = 1 \/ k = Len(t) + 1 \/ t[k - 1] \in LineEnds}

\* The first line that does not begin with \001.
BodyStart(t) == Min({k \in LineStarts(t) : k = Len(t) + 1 \/ t[k] \notin SOH})

ControlLines(t) == {k \in LineStarts(t) : k < BodyStart(t)}

\* The lines of control info go to ctrl, with the NUL that may end one of them; what
\* follows is the text, up to a NUL.
formatMsg(t) ==
  LET b == BodyStart(t)
      k == SelectInSubSeq(t, b, Len(t), LAMBDA c : c \in NUL)
  IN  [ctrl |-> SubSeq(t, 1, b - 1), text |-> SubSeq(t, b, IF k = 0 THEN Len(t) ELSE k)]

\* ctrl is made as long as one line, whatever it holds: a second one is written behind
\* its end.  What an XMSG has for lines is not modelled.
Fits(t) ==
  /\ Cardinality(ControlLines(t)) <= 1
  /\ \A k \in 1 .. BodyStart(t) - 1 : t[k].part # "xmsg"

\* What can come of it: each may be spoilt.
Formatted(t) ==
  LET msg == formatMsg(t)
  IN  IF Fits(t) THEN {msg}
      ELSE [ctrl : {msg.ctrl, << Junk >>}, text : {msg.text, << Junk >>}]

\* Where SQHDR and XMSG of a message are one behind the other.  Behind a header
\* without XMSG they would be read as its XMSG.
IsWhole(p) ==
  IsHdr(sqd, p) /\ ~IsHdr(sqd, p - 1) /\ p < Len(sqd) /\ sqd[p + 1] = XMSG(sqd[p].msg)

HasBody(m) == BodyStart(Texts(m)) <= TextLen[m]

\* Where the text of the message follows as well, and then a header, the end of the file,
\* NULs, or the NUL of the text.
IsClean(p) ==
  LET m == sqd[p].msg
      end == p + 2 + TextLen[m]
  IN  /\ end <= Len(sqd) + 1
      /\ \A k \in 1 .. TextLen[m] : sqd[p + 1 + k] = Text(m, k)
      /\ \/ end = Len(sqd) + 1 \/ IsHdr(sqd, end) \/ sqd[end] = Hole
         \/ HasBody(m) /\ Text(m, TextLen[m]) \in NUL

WholeMsgs ==
  [p \in {q \in 1 .. Len(sqd) : IsWhole(q)} |-> [msg |-> sqd[p].msg, clean |-> IsClean(p)]]

\* MSGAREA_CREATE: the new base is empty, also if a fix has died before.
FixOpen ==
  /\ doing = "idle"
  /\ pos' = 1 /\ EndPos' = Len(sqd) + 1
  /\ newbase' = << >> /\ fixmsg' = 0 /\ refused' = << >>
  /\ whole' = WholeMsgs
  /\ doing' = "fix"
  /\ UNCHANGED files

\* The place of the next header, or -1.
findHdrId(p) ==
  LET k == SelectInSubSeq(sqd, p, Len(sqd), LAMBDA c : c.part = "hdr")
  IN  IF k = 0 THEN -1 ELSE k

\* Where the file stands then.
Found(p) == IF findHdrId(p) = -1 THEN Len(sqd) + 1 ELSE findHdrId(p)

\* What is between the message and the next header.
TextAt(p) == SubSeq(sqd, p, Found(p) - 1)

\* Fault: the file stands where it stood.
NotFoundStays ==
  /\ doing = "fix" /\ pos < EndPos /\ findHdrId(pos) = -1
  /\ UNCHANGED << files, doing, fixMemory >>

\* Nothing is found, and the file is read to its end.
NotFound ==
  /\ doing = "fix" /\ pos < EndPos /\ findHdrId(pos) = -1
  /\ pos' = Found(pos)
  /\ UNCHANGED << files, doing, EndPos, newbase, fixmsg, refused, whole >>

\* Fault: the next header is skipped.
NextPosFound(p) == Found(p) + SQHDR_SIZE

\* Fault: the same header is found again.
NextPosHeader(p) == p - XMSG_SIZE - SQHDR_SIZE

\* The file stands behind XMSG again.
NextPos(p) == p

\* smapi may not make a message, or not write it; fix counts what was made.
FixMsg ==
  /\ doing = "fix" /\ pos < EndPos /\ findHdrId(pos) # -1
  /\ LET head == findHdrId(pos) + SQHDR_SIZE
         SqdPos1 == head + XMSG_SIZE
     IN  /\ head <= Len(sqd)
         /\ \/ /\ \E text \in {Scanned(TextAt(SqdPos1))} : \E msg \in Formatted(text) :
                    newbase' = Append(newbase, [xmsg |-> sqd[head], ctrl |-> msg.ctrl,
                                                text |-> msg.text])
               /\ fixmsg' = fixmsg + 1
               /\ UNCHANGED refused
            \/ /\ Len(refused) < MaxRefused
               /\ refused' = Append(refused, sqd[head])
               /\ fixmsg' \in {fixmsg, fixmsg + 1}
               /\ UNCHANGED newbase
         /\ pos' = NextPos(SqdPos1)
  /\ UNCHANGED << files, doing, EndPos, whole >>

\* The loop ends, or breaks behind a header without XMSG.
FixDone ==
  /\ doing = "fix"
  /\ pos >= EndPos \/ findHdrId(pos) = Len(sqd)
  /\ doing' = "fixed"
  /\ UNCHANGED << files, fixMemory >>

FixEnd ==
  /\ pos' = 0 /\ EndPos' = 0 /\ newbase' = << >> /\ fixmsg' = 0
  /\ refused' = << >> /\ whole' = << >>
  /\ doing' = "idle"
  /\ UNCHANGED files

\* The new base is closed, and deleted if nothing was fixed; it is not followed.
FixClose ==
  /\ doing = "fixed"
  /\ FixEnd

\* Or fix dies of what is written behind the end of ctrl.
FixDies ==
  /\ doing = "fix" /\ pos < EndPos /\ findHdrId(pos) # -1
  /\ LET SqdPos1 == findHdrId(pos) + SQHDR_SIZE + XMSG_SIZE
     IN  SqdPos1 <= Len(sqd) + 1 /\ ~Fits(Scanned(TextAt(SqdPos1)))
  /\ FixEnd

FixStep == FixOpen \/ NotFound \/ FixMsg \/ FixDies \/ FixDone \/ FixClose

-----------------------------------------------------------------------------
(* Properties. *)

\* Where a message is in the new base.
FixedAt(p) == {k \in 1 .. Len(newbase) : newbase[k].xmsg = XMSG(whole[p].msg)}

\* Every message whose header and XMSG are whole is in the new base exactly once,
\* in the order of the file, unless smapi refuses it: also those that were deleted,
\* whatever was lost around them, and while the tosser goes on
\* (fixarea.c:54-83, 178-226).
WholeRecovered ==
  doing = "fixed" =>
    /\ \A p \in DOMAIN whole :
         IF XMSG(whole[p].msg) \in ToSet(refused) THEN FixedAt(p) = {}
         ELSE \E k \in 1 .. Len(newbase) : FixedAt(p) = {k}
    /\ \A p, q \in DOMAIN whole : \A j \in FixedAt(p), k \in FixedAt(q) : p < q => j < k

OneLine(m) == Cardinality(ControlLines(Texts(m))) <= 1

\* Control info ends with a line, and no text begins like a line of it.
Orderly(m) ==
  /\ CtrlLen[m] > 0 => Text(m, CtrlLen[m]) \in LineEnds
  /\ CtrlLen[m] < TextLen[m] => Text(m, CtrlLen[m] + 1) \notin SOH

\* What is stored of a message is its own pieces and all of them, control info first.
\* Each piece is where it belongs if the message is orderly, else the beginning of the
\* text may have become control info.
IsOwn(msg, m) ==
  /\ msg.ctrl \o msg.text = Texts(m)
  /\ Orderly(m) => msg.ctrl = SubSeq(Texts(m), 1, CtrlLen[m])

\* Control info and text of a message are its own if they were there when fix began, and
\* the next header, the end of the file, NULs or the NUL of the text behind them, and if
\* control info is at most one line: more of them do not fit in ctrl, and no text is
\* certain then (fixarea.c:85-123, 195-205).
TextWhole ==
  doing = "fixed" =>
    \A p \in DOMAIN whole : \A k \in FixedAt(p) :
      whole[p].clean /\ OneLine(whole[p].msg) => IsOwn(newbase[k], whole[p].msg)

\* What a fix has made of the file (fixarea.c:178-226).
Fixed == WholeRecovered /\ TextWhole
=============================================================================
