-------------------------------- MODULE JamLink --------------------------------
(***************************************************************************)
(* "hptutil link" on one Jam area: JamLinkArea and JamLinkAreaByCRC of     *)
(* src/src/linkarea.c.  Each pair of messages is compared in memory; then  *)
(* the header of each message with a new link is written.                  *)
(***************************************************************************)
EXTENDS JamArea

CONSTANTS
  CRC,         \* MsgIdCRC or ReplyCRC of each id; of none it is -1 in a dword
  LongIsDword  \* has a long of the build no more bits than a dword?

ASSUME CRCAssumption ==
  /\ CRC \in [Id \cup {NoId} -> 0 .. Dword - 1]
  /\ CRC[NoId] = Dword - 1
  /\ NoId \notin 0 .. Dword - 1
  /\ LongIsDword \in BOOLEAN

VARIABLES
  byCRC,    \* is it hptutil -j link?
  msginfo,  \* memory: what link has found for each index entry
  i,        \* memory: the entry to write next
  goal      \* history: what the headers will be at the end

linkMemory == << byCRC, msginfo, i, goal >>

NoLink == byCRC = FALSE /\ msginfo = << >> /\ i = 0 /\ goal = << >>

EndLink ==
  pc' = "idle" /\ byCRC' = FALSE /\ msginfo' = << >> /\ i' = 0 /\ goal' = << >>

\* Fault: the address is compared as well.
WholeId(id) == id

\* Only the serial number of an id is compared, whoever gave it.
GetOnlyId(id) == IF id = NoId THEN NoId ELSE id.serial

\* Without -j, a message without a MSGID is left out, as a reply too.
IsLinked(crc, k) == CheckMsg(idx[k]) /\ (crc \/ text[idx[k]].msgid # NoId)

\* What is compared: with -j, "no MSGID" is known by -1L only if a dword can
\* have the value of that.
Msgid(crc, k) ==
  LET id == text[idx[k]].msgid
  IN  IF ~crc THEN GetOnlyId(id)
      ELSE IF CRC[id] = Dword - 1 /\ LongIsDword THEN NoId ELSE CRC[id]

Reply(crc, k) ==
  IF crc THEN CRC[text[idx[k]].reply] ELSE GetOnlyId(text[idx[k]].reply)

IsReply(crc, ii, k) == Msgid(crc, k) # NoId /\ Reply(crc, ii) = Msgid(crc, k)

\* The first test of the inner loop: entry ii is a reply to entry k.
LinkReply(x, crc, info, k, ii) ==
  IF ~IsReply(crc, ii, k) THEN info
  ELSE LET first == info[k].Reply1st = 0
           old(e) == x[idx[e]]
           num(e) == x[idx[e]].MsgNum
       IN  [info EXCEPT
              ![k].Reply1st = IF first THEN num(ii) ELSE @,
              ![k].rewrite = @ \/ (first /\ num(ii) # old(k).Reply1st),
              ![ii].ReplyTo = num(k),
              ![ii].rewrite = @ \/ num(k) # old(ii).ReplyTo]

\* Fault: a message is not marked for a new ReplyNext.
LinkNextUnmarked(x, info, k, ii) ==
  IF /\ ii > k /\ info[ii].ReplyTo # 0 /\ info[ii].ReplyTo = info[k].ReplyTo
     /\ info[k].ReplyNext = 0
  THEN [info EXCEPT ![k].ReplyNext = x[idx[ii]].MsgNum]
  ELSE info

\* The second one: both are replies to the same message.
LinkNext(x, info, k, ii) ==
  IF /\ ii > k /\ info[ii].ReplyTo # 0 /\ info[ii].ReplyTo = info[k].ReplyTo
     /\ info[k].ReplyNext = 0
  THEN [info EXCEPT ![k].ReplyNext = x[idx[ii]].MsgNum,
                    ![k].rewrite = @ \/ x[idx[ii]].MsgNum # x[idx[k]].ReplyNext]
  ELSE info

LinkPair(x, crc, info, k, ii) ==
  IF ii = k \/ ~IsLinked(crc, k) \/ ~IsLinked(crc, ii) THEN info
  ELSE LinkNext(x, LinkReply(x, crc, info, k, ii), k, ii)

Relinked(x, info) ==
  [x EXCEPT !.ReplyTo = info.ReplyTo, !.Reply1st = info.Reply1st,
            !.ReplyNext = info.ReplyNext]

\* What link finds.  Without -j a message is written if a link was set to another
\* value; with -j if any link differs, one that was not found as well.
LinkAll(x, crc) ==
  LET n == Len(idx)
      none == [k \in 1 .. n |->
                 [ReplyTo |-> 0, Reply1st |-> 0, ReplyNext |-> 0, rewrite |-> FALSE]]
      turns[k \in 0 .. n] ==
        LET turn[ii \in 0 .. n] ==
              IF ii = 0 THEN turns[k - 1] ELSE LinkPair(x, crc, turn[ii - 1], k, ii)
        IN  IF k = 0 THEN none ELSE turn[n]
      found == turns[n]
  IN  [k \in 1 .. Len(idx) |->
         [found[k] EXCEPT !.rewrite = IF ~crc \/ ~IsLinked(crc, k) THEN @
                                      ELSE Relinked(x[idx[k]], found[k]) # x[idx[k]]]]

\* The headers x when all that was found is written.
Result(x, info) ==
  [m \in Msgs |-> IF \E k \in 1 .. Len(idx) : idx[k] = m /\ info[k].rewrite
                  THEN Relinked(x[m], info[SelectInSeq(idx, LAMBDA e : e = m)])
                  ELSE x[m]]

ReadMsgs ==
  /\ pc = "idle" /\ ~Grown
  /\ \E crc \in BOOLEAN :
       LET info == LinkAll(hdr, crc)
       IN  byCRC' = crc /\ msginfo' = info /\ goal' = Result(hdr, info)
  /\ i' = 1
  /\ pc' = "link"
  /\ UNCHANGED files

\* Fault: ReplyTo is written only if a parent was found.
WriteParentFound ==
  /\ pc = "link" /\ i <= Len(idx)
  /\ hdr' = IF msginfo[i].rewrite
            THEN [hdr EXCEPT ![idx[i]] =
                    [Relinked(@, msginfo[i]) EXCEPT
                       !.ReplyTo = IF @ # 0 THEN @ ELSE hdr[idx[i]].ReplyTo]]
            ELSE hdr
  /\ i' = i + 1
  /\ UNCHANGED << state, idx, lrd, text, pc, byCRC, msginfo, goal >>

WriteLinks ==
  /\ pc = "link" /\ i <= Len(idx)
  /\ hdr' = IF msginfo[i].rewrite
            THEN [hdr EXCEPT ![idx[i]] = Relinked(@, msginfo[i])]
            ELSE hdr
  /\ i' = i + 1
  /\ UNCHANGED << state, idx, lrd, text, pc, byCRC, msginfo, goal >>

LinkDone == pc = "link" /\ i > Len(idx)

UnlockLinked == LinkDone /\ EndLink /\ UNCHANGED files

LinkStep == ReadMsgs \/ WriteLinks \/ UnlockLinked

-----------------------------------------------------------------------------
(* Properties. *)

\* What a link that comes to its end would make of the area as it is.
LinkResult == Result(hdr, LinkAll(hdr, byCRC))

\* A link that dies between two writes is completed by the next one of its kind:
\* at each moment a new one would come to the same end, which is reached when all is
\* written, so that a second link changes nothing (linkarea.c:421-445, 452-479, 597-625).
LinkRepeatable ==
  pc = "link" /\ Once(idx) => LinkResult = goal /\ (LinkDone => hdr = goal)

\* Entry r names entry p: both are active messages, and the serial numbers of REPLY
\* and MSGID are the same, or with -j their CRCs.
Names(r, p) ==
  LET reply == text[idx[r]].reply
      msgid == text[idx[p]].msgid
  IN  /\ r # p /\ CheckMsg(idx[r]) /\ CheckMsg(idx[p])
      /\ NoId \notin {reply, msgid}
      /\ IF byCRC THEN CRC[reply] = CRC[msgid] ELSE reply.serial = msgid.serial

\* Entry r is a reply to entry p: without -j, it needs a MSGID of its own.
Answers(r, p) == Names(r, p) /\ (byCRC \/ text[idx[r]].msgid # NoId)

\* With -j, no id has the CRC that stands for none, and a long can tell.
NoneKnown == byCRC => LongIsDword /\ \A id \in Id : CRC[id] # CRC[NoId]

\* The messages have numbers; 0 stands for no link.
AllNumbered == \A k \in 1 .. Len(idx) : CheckMsg(idx[k]) => hdr[idx[k]].MsgNum # 0

\* No two messages have the same number, as they may have when a sort died.
NumbersApart ==
  \A j, k \in 1 .. Len(idx) :
    CheckMsg(idx[j]) /\ CheckMsg(idx[k]) /\ hdr[idx[j]].MsgNum = hdr[idx[k]].MsgNum => j = k

\* Each reply comes to lead to the last message in the index that it answers, and
\* each message to its first reply (linkarea.c:71-92, 400-435, 560-584).
RepliesFound ==
  LinkDone /\ Once(idx) /\ NoneKnown /\ AllNumbered =>
    \A p \in 1 .. Len(idx) :
      LET parents == {q \in 1 .. Len(idx) : Answers(p, q)}
          replies == {r \in 1 .. Len(idx) : Answers(r, p)}
      IN  /\ parents # {} => hdr[idx[p]].ReplyTo = hdr[idx[Max(parents)]].MsgNum
          /\ replies # {} => hdr[idx[p]].Reply1st = hdr[idx[Min(replies)]].MsgNum

\* From one reply to the next: if the message that is answered comes first in the index,
\* and no other has its id, the chain of ReplyNext leads through all
\* its replies (linkarea.c:437-446, 587-591).
ChainComplete ==
  LinkDone /\ Once(idx) /\ NoneKnown /\ AllNumbered /\ NumbersApart =>
    \A p, r, s \in 1 .. Len(idx) :
      /\ p < r /\ r < s /\ Answers(r, p) /\ Answers(s, p)
      /\ \A q \in 1 .. Len(idx) : Answers(r, q) \/ Answers(s, q) => q = p
      /\ \A q \in r + 1 .. s - 1 : ~Answers(q, p)
      => hdr[idx[r]].ReplyNext = hdr[idx[s]].MsgNum

\* What a link that comes to its end has found (linkarea.c:400-449, 560-594).
LinksFound == RepliesFound /\ ChainComplete

\* "...is reply to the first message" (linkarea.c:573): a message that replies to
\* nothing does not come to be one.
NoFalseReplies ==
  LinkDone =>
    \A k \in 1 .. Len(idx) :
      CheckMsg(idx[k]) /\ text[idx[k]].reply = NoId => msginfo[k].ReplyTo = 0
=============================================================================
