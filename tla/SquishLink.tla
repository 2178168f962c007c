------------------------------ MODULE SquishLink ------------------------------
(***************************************************************************)
(* "hptutil link" on one Squish area: SquishLinkArea of                    *)
(* src/src/linkarea.c.  Each pair of messages is compared in memory; then  *)
(* the XMSG of each message with a new link is written.                    *)
(***************************************************************************)
EXTENDS SquishArea

VARIABLES
  msginfo,  \* memory: what link has found for each index entry
  i,        \* memory: the entry to write next
  goal      \* history: what XMSG of the messages will be at the end

linkMemory == << msginfo, i, goal >>

NoLink == msginfo = << >> /\ i = 0 /\ goal = << >>

EndLink == pc' = "idle" /\ msginfo' = << >> /\ i' = 0 /\ goal' = << >>

\* Fault: the address is compared as well.
WholeId(id) == id

\* Only the serial number of an id is compared, whoever gave it.
GetOnlyId(id) == IF id = NoId THEN NoId ELSE id.serial

IsLinked(k) == frame[sqi[k].ofs] = "normal"

Msgid(k) == GetOnlyId(text[sqi[k].ofs].msgid)
Reply(k) == GetOnlyId(text[sqi[k].ofs].reply)

IsReply(ii, k) ==
  /\ ii # k /\ IsLinked(ii) /\ IsLinked(k)
  /\ Msgid(k) # NoId /\ Reply(ii) = Msgid(k)

Room(n) == n < MAX_REPLY - 1

\* One turn of the inner loop; x is XMSG of each message as it was read.
LinkPair(x, info, k, ii) ==
  LET n == Len(info[k].replies)
      old(e) == x[sqi[e].ofs]
  IN  IF ~IsReply(ii, k) THEN info
      ELSE [info EXCEPT
              ![k].replies = IF Room(n) THEN Append(@, sqi[ii].umsgid) ELSE @,
              ![k].rewrite = @ \/ (Room(n) /\ sqi[ii].umsgid # old(k).replies[n + 1]),
              ![ii].replyto = sqi[k].umsgid,
              ![ii].rewrite = @ \/ sqi[k].umsgid # old(ii).replyto]

\* found[k] is what the first k turns of the outer loop have found.
LinkAll(x) ==
  LET n == Len(sqi)
      none == [k \in 1 .. n |-> [replies |-> << >>, replyto |-> 0, rewrite |-> FALSE]]
      found[k \in 0 .. n] ==
        LET turn[ii \in 0 .. n] ==
              IF ii = 0 THEN found[k - 1] ELSE LinkPair(x, turn[ii - 1], k, ii)
        IN  IF k = 0 THEN none ELSE turn[n]
  IN  found[n]

\* XMSG of a message with new links: also those not found are overwritten.
Rewritten(x, info) ==
  [x EXCEPT !.replyto = info.replyto,
            !.replies = [k \in 1 .. MAX_REPLY |->
                           IF k <= Len(info.replies) THEN info.replies[k] ELSE 0]]

\* XMSG of the messages when all that was found is written.
Result(x, info) ==
  [f \in Frames |-> IF \E k \in 1 .. Len(sqi) : sqi[k].ofs = f /\ info[k].rewrite
                    THEN Rewritten(x[f], info[SelectInSeq(sqi, LAMBDA e : e.ofs = f)])
                    ELSE x[f]]

ReadMsgs ==
  /\ pc = "idle"
  /\ LET info == LinkAll(xmsg)
     IN  msginfo' = info /\ goal' = Result(xmsg, info)
  /\ i' = 1
  /\ pc' = "link"
  /\ UNCHANGED files

\* Fault: replyto is written only if a parent was found.
WriteParentFound ==
  /\ pc = "link" /\ i <= Len(sqi)
  /\ xmsg' = IF msginfo[i].rewrite
             THEN [xmsg EXCEPT ![sqi[i].ofs] =
                     [Rewritten(@, msginfo[i]) EXCEPT
                        !.replyto = IF @ # 0 THEN @ ELSE xmsg[sqi[i].ofs].replyto]]
             ELSE xmsg
  /\ i' = i + 1
  /\ UNCHANGED << frame, uid, sqi, sql, text, pc, msginfo, goal >>

WriteLinks ==
  /\ pc = "link" /\ i <= Len(sqi)
  /\ xmsg' = IF msginfo[i].rewrite
             THEN [xmsg EXCEPT ![sqi[i].ofs] = Rewritten(@, msginfo[i])]
             ELSE xmsg
  /\ i' = i + 1
  /\ UNCHANGED << frame, uid, sqi, sql, text, pc, msginfo, goal >>

LinkDone == pc = "link" /\ i > Len(sqi)

Unlock == LinkDone /\ EndLink /\ UNCHANGED files

LinkStep == ReadMsgs \/ WriteLinks \/ Unlock

-----------------------------------------------------------------------------
(* Properties. *)

\* What a link that comes to its end would make of the area as it is.
LinkResult == Result(xmsg, LinkAll(xmsg))

\* A link that dies between two writes is completed by the next one: at each
\* moment a new one would come to the same end, which is reached when all is
\* written, so that a second link changes nothing (linkarea.c:202, 213, 225-255).
LinkRepeatable ==
  pc = "link" /\ NoDuplicates(sqi) =>
    LinkResult = goal /\ (LinkDone => xmsg = goal)

\* Entry r is a reply to entry p: both are messages, and the numbers of REPLY and
\* MSGID are the same, whatever the addresses.
Answers(r, p) ==
  LET reply == text[sqi[r].ofs].reply
      msgid == text[sqi[p].ofs].msgid
  IN  /\ r # p /\ frame[sqi[r].ofs] = "normal" /\ frame[sqi[p].ofs] = "normal"
      /\ NoId \notin {reply, msgid} /\ reply.serial = msgid.serial

\* Each reply comes to lead to the last message in the index that it answers, and
\* each message to its replies in the order of the index, as many as there
\* is room for, the last place left out (linkarea.c:71-92, 180-222).
RepliesFound ==
  LinkDone /\ NoDuplicates(sqi) =>
    \A k \in 1 .. Len(sqi) :
      LET x == xmsg[sqi[k].ofs]
          parents == {p \in 1 .. Len(sqi) : Answers(k, p)}
          replies == {r \in 1 .. Len(sqi) : Answers(r, k)}
      IN  /\ parents # {} => x.replyto = sqi[Max(parents)].umsgid
          /\ \A r \in replies :
               LET n == Cardinality({q \in replies : q <= r})
               IN  n < MAX_REPLY => x.replies[n] = sqi[r].umsgid
          /\ x.replies[MAX_REPLY] = 0
=============================================================================
