-------------------------------- MODULE JamPack --------------------------------
(***************************************************************************)
(* "hptutil pack" on one Jam area: JamPackArea of src/src/packarea.c, up   *)
(* to the replacement of the files, which is PackFiles.                    *)
(*                                                                         *)
(* The live messages are copied to new files and numbered from 1 on.  The  *)
(* reply links, which are numbers of messages, and the last read numbers   *)
(* of the users are converted with delta, the count of numbers that the    *)
(* loop has left out so far.  All of it happens under the lock and on      *)
(* files of its own, so that the steps of the copy are those of one loop   *)
(* body each.                                                              *)
(***************************************************************************)
EXTENDS Integers, Sequences, FiniteSets, SequencesExt

CONSTANTS
  Msgs,        \* the messages of the area
  Cleared,     \* the entry 0xFFFFFFFF of a deleted message
  LinkFields,  \* Reply1st, ReplyTo and ReplyNext, which are treated alike
  FirstMsgs,   \* the values of BaseMsgNum before the first pack
  MaxUsers,    \* bound: the users with a last read number
  Dword        \* number of values of a dword (2^32 in the program)

ASSUME JamPackAssumption ==
  /\ IsFiniteSet(Msgs) /\ Cleared \notin Msgs
  /\ Dword \in Nat /\ Cardinality(Msgs) < Dword
  /\ FirstMsgs \subseteq Nat \ {0}
  /\ \A first \in FirstMsgs : first + Cardinality(Msgs) <= Dword
  /\ MaxUsers \in Nat

VARIABLES
  hdrinfo,    \* .jhr: BaseMsgNum, ActiveMsgs and highwater
  idx,        \* .jdx: the message of each entry, or Cleared
  rejected,   \* .jhr: the messages whose header does not pass CheckMsg
  links,      \* .jhr: the reply links of each message
  lrd,        \* .jlr: LastReadMsg of each user; HighReadMsg is treated alike
  pc,         \* the loop that runs
  HdrInfo,    \* memory: the copy of JAMHDRINFO
  i,          \* memory: the loop counter, from 1
  delta,      \* memory: BaseMsgNum - 1, and the entries left out so far
  msgnum,     \* memory: the next new number; 0 before the first message
  numinfo,    \* memory: the new number of each entry, or 0
  replyinfo,  \* memory: the links less delta, of each new message
  newidx,     \* .tmi: the new index
  newhdr,     \* .tmh: MsgNum and links of each copied message
  newlrd      \* .tml: the new last read numbers

area == << hdrinfo, idx, rejected, links, lrd >>
memory == << HdrInfo, i, delta, msgnum, numinfo, replyinfo >>
new == << newidx, newhdr, newlrd >>
vars == << area, pc, memory, new >>

oldmsgs == Len(idx)

\* The message number of the k-th entry, and the entry of a message.
Number(k) == hdrinfo.BaseMsgNum + k - 1
EntryOf(m) == CHOOSE k \in 1 .. Len(idx) : idx[k] = m

Entries == ToSet(idx) \ {Cleared}
Live == Entries \ rejected

-----------------------------------------------------------------------------
(* The initial states: an area in which purge has cleared some entries.  A   *)
(* link may lead to a message that was purged.                               *)

NoHdr == [MsgNum |-> 0, links |-> [f \in LinkFields |-> 0]]

InitArea(order, gone, first, top) ==
  /\ idx = [k \in 1 .. Len(order) |-> IF k \in gone THEN Cleared ELSE order[k]]
  /\ rejected \in SUBSET Entries
  /\ hdrinfo = [BaseMsgNum |-> first, ActiveMsgs |-> Cardinality(Live),
                highwater |-> top]
  /\ links \in [Msgs -> [LinkFields -> {0} \cup {Number(k) : k \in 1 .. oldmsgs}]]
  /\ \E users \in 0 .. MaxUsers :
       lrd \in [1 .. users -> {0} \cup {Number(k) : k \in 1 .. oldmsgs}]

Init ==
  /\ \E used \in SUBSET Msgs, first \in FirstMsgs :
       \E order \in SetToSeqs(used), gone \in SUBSET (1 .. Cardinality(used)),
          top \in {0, first + Cardinality(used) - 1} :
         InitArea(order, gone, first, top)
  /\ pc = "idle"
  /\ HdrInfo = hdrinfo /\ i = 1 /\ delta = 0 /\ msgnum = 0
  /\ numinfo = << >> /\ replyinfo = << >>
  /\ newidx = << >> /\ newhdr = [m \in Msgs |-> NoHdr] /\ newlrd = << >>

-----------------------------------------------------------------------------
(* The copy. *)

\* dword arithmetic: 0 - 1 is the largest dword.  Fault: no wrap.
SubInt(a, b) == a - b

Sub(a, b) == (a - b) % Dword

ReadHdrInfo ==
  /\ pc = "idle"
  /\ pc' = "copy"
  /\ HdrInfo' = [hdrinfo EXCEPT !.ActiveMsgs = 0]
  /\ i' = 1
  /\ delta' = hdrinfo.BaseMsgNum - 1
  /\ msgnum' = 0
  /\ numinfo' = [k \in 1 .. oldmsgs |-> 0]
  /\ replyinfo' = << >>
  /\ newidx' = << >> /\ newhdr' = [m \in Msgs |-> NoHdr] /\ newlrd' = << >>
  /\ UNCHANGED area

\* Fault: the numbers that are left out are not counted.
LeftOutNever(d) == d

LeftOut(d) == d + 1

SkipCleared ==
  /\ pc = "copy" /\ i <= oldmsgs
  /\ idx[i] = Cleared
  /\ HdrInfo' = [HdrInfo EXCEPT !.highwater = Sub(@, 1)]
  /\ delta' = LeftOut(delta)
  /\ i' = i + 1
  /\ UNCHANGED << area, pc, msgnum, numinfo, replyinfo, new >>

SkipRejected ==
  /\ pc = "copy" /\ i <= oldmsgs
  /\ idx[i] \in rejected
  /\ i' = i + 1
  /\ UNCHANGED << area, pc, HdrInfo, delta, msgnum, numinfo, replyinfo, new >>

\* Fault: the numbers are not counted on.
NextNumSame(n) == n

FirstNum(n) == IF n = 0 THEN 1 ELSE n
NextNum(n) == n + 1

CopyMsg ==
  /\ pc = "copy" /\ i <= oldmsgs
  /\ idx[i] \in Live
  /\ LET m == idx[i]
         num == FirstNum(msgnum)
     IN  /\ HdrInfo' = [HdrInfo EXCEPT
                          !.BaseMsgNum = IF msgnum = 0 THEN 1 ELSE @,
                          !.ActiveMsgs = @ + 1]
         /\ numinfo' = [numinfo EXCEPT ![i] = num]
         /\ replyinfo' = Append(replyinfo,
                                [f \in LinkFields |-> Sub(links[m][f], delta)])
         /\ newhdr' = [newhdr EXCEPT ![m] = [MsgNum |-> num, links |-> links[m]]]
         /\ newidx' = Append(newidx, m)
         /\ msgnum' = NextNum(num)
  /\ i' = i + 1
  /\ UNCHANGED << area, pc, delta, newlrd >>

EndOfCopy ==
  /\ pc = "copy" /\ i > oldmsgs
  /\ pc' = "relink"
  /\ i' = 1
  /\ UNCHANGED << area, HdrInfo, delta, msgnum, numinfo, replyinfo, new >>

-----------------------------------------------------------------------------
(* The second pass: links and last read numbers. *)

\* The array numinfo starts at 0.
Converted(link, less) ==
  IF less # 0 /\ less < oldmsgs THEN numinfo[less + 1] ELSE link

RelinkMsg ==
  /\ pc = "relink" /\ i <= HdrInfo.ActiveMsgs
  /\ newhdr' = [newhdr EXCEPT ![newidx[i]].links =
                  [f \in LinkFields |-> Converted(@[f], replyinfo[i][f])]]
  /\ i' = i + 1
  /\ UNCHANGED << area, pc, HdrInfo, delta, msgnum, numinfo, replyinfo, newidx,
                  newlrd >>

Moved(mark) == IF mark > delta THEN mark - delta ELSE 0

\* The end of the loop: JAMHDRINFO is written, and the last read file, if
\* the numbers have changed.
PackLastRead ==
  /\ pc = "relink" /\ i > HdrInfo.ActiveMsgs
  /\ pc' = "replace"
  /\ newlrd' = IF delta > 0 THEN [u \in 1 .. Len(lrd) |-> Moved(lrd[u])]
               ELSE << >>
  /\ UNCHANGED << area, memory, newidx, newhdr >>

Replace ==
  /\ pc = "replace"
  /\ hdrinfo' = HdrInfo
  /\ idx' = newidx
  /\ rejected' = {}
  /\ links' = [m \in Msgs |-> newhdr[m].links]
  /\ lrd' = newlrd
  /\ pc' = "idle"
  /\ UNCHANGED << memory, new >>

\* Between two packs, purge clears an entry (JamDelMsg of purgearea.c).
Purge(k) ==
  /\ pc = "idle"
  /\ idx[k] \in Live
  /\ idx' = [idx EXCEPT ![k] = Cleared]
  /\ hdrinfo' = [hdrinfo EXCEPT !.ActiveMsgs = Sub(@, 1)]
  /\ UNCHANGED << rejected, links, lrd, pc, memory, new >>

-----------------------------------------------------------------------------
Run ==
  \/ ReadHdrInfo \/ SkipCleared \/ SkipRejected \/ CopyMsg \/ EndOfCopy
  \/ RelinkMsg \/ PackLastRead \/ Replace

Next == Run \/ \E k \in 1 .. oldmsgs : Purge(k)

Spec == Init /\ [][Next]_vars

-----------------------------------------------------------------------------
(* Properties. *)

\* Types; in the first loop i names an entry, and in the second one a message
\* that was copied (packarea.c:473, 524).
TypeOK ==
  /\ hdrinfo \in [BaseMsgNum : Nat \ {0}, ActiveMsgs : 0 .. Dword - 1,
                  highwater : 0 .. Dword - 1]
  /\ idx \in Seq(Msgs \cup {Cleared})
  /\ rejected \subseteq Msgs
  /\ links \in [Msgs -> [LinkFields -> Nat]]
  /\ lrd \in Seq(Nat)
  /\ pc \in {"idle", "copy", "relink", "replace"}
  /\ HdrInfo \in [BaseMsgNum : Nat \ {0}, ActiveMsgs : Nat,
                  highwater : 0 .. Dword - 1]
  /\ i \in Nat \ {0}
  /\ pc = "copy" => i <= oldmsgs + 1
  /\ pc = "relink" => i <= Len(newidx) + 1
  /\ delta \in Nat /\ msgnum \in Nat
  /\ numinfo \in Seq(Nat)
  /\ replyinfo \in Seq([LinkFields -> 0 .. Dword - 1])
  /\ newidx \in Seq(Msgs)
  /\ newhdr \in [Msgs -> [MsgNum : Nat, links : [LinkFields -> Nat]]]
  /\ newlrd \in Seq(Nat)

\* The new number of a message, or 0 if it was not copied.
NewNumber(m) == IF m \in ToSet(newidx) THEN newhdr[m].MsgNum ELSE 0

\* The new area holds every live message once, in the old order, numbered from
\* BaseMsgNum on without a gap, and ActiveMsgs is their number
\* (packarea.c:473-521).
LiveRenumbered ==
  pc = "replace" =>
    /\ ToSet(newidx) = Live
    /\ \A j, k \in 1 .. Len(newidx) :
          j < k => EntryOf(newidx[j]) < EntryOf(newidx[k])
    /\ HdrInfo.ActiveMsgs = Len(newidx)
    /\ \A k \in 1 .. Len(newidx) :
          newhdr[newidx[k]].MsgNum = HdrInfo.BaseMsgNum + k - 1

\* The link f of m leads to entry k, and follows the message of that entry: to
\* its new number, or nowhere if it is gone.
Leads(m, f, k) == links[m][f] = Number(k)
Follows(m, f, k) == newhdr[m].links[f] = NewNumber(idx[k])

\* "Reply chains not killed." (README.md:18): links between messages that are
\* still there follow them.
ReplyChainsKept ==
  pc = "replace" =>
    \A m \in Live, f \in LinkFields, k \in 1 .. oldmsgs :
       Leads(m, f, k) /\ idx[k] \in Live \ {m} => Follows(m, f, k)

\* The last read number of a user in the new file, if it has one for him.
NewMark(u) == IF u \in DOMAIN newlrd THEN newlrd[u] ELSE 0

\* The live messages that a user has read, before and after the pack.
ReadBefore(u) == {m \in Live : Number(EntryOf(m)) <= lrd[u]}
ReadAfter(u) == {m \in Live : NewNumber(m) <= NewMark(u)}

\* Where no number is left out, nothing is written to the new last read file.
MarksForgotten == hdrinfo.BaseMsgNum = 1 /\ Cleared \notin ToSet(idx)

\* No unread message is passed over, unless a header was rejected: the last
\* read numbers move too far back, never too far forward (packarea.c:553-576).
NothingUnreadSkipped ==
  pc = "replace" /\ rejected \cap Entries = {} =>
    \A u \in 1 .. Len(lrd) : ReadAfter(u) \subseteq ReadBefore(u)

\* What a user has to read again are at most as many messages as entries were
\* cleared behind the last one read; or all of them, because the pack has found no
\* number to leave out (packarea.c:470-480, 553-577).
ReadAgainBounded ==
  pc = "replace" =>
    \A u \in 1 .. Len(lrd) :
       IF MarksForgotten THEN ReadAfter(u) = {}
       ELSE Cardinality(ReadBefore(u) \ ReadAfter(u))
              <= Cardinality({k \in 1 .. oldmsgs :
                                idx[k] = Cleared /\ Number(k) > lrd[u]})

\* Last read numbers err on one side only, and by how much; every user keeps one, or
\* nobody does (packarea.c:549-577).
LastReadsErrBack ==
  /\ NothingUnreadSkipped /\ ReadAgainBounded
  /\ pc = "replace" => Len(newlrd) = IF MarksForgotten THEN 0 ELSE Len(lrd)

\* "no lastread changing" (README.md:16): what a user has read is read after the pack,
\* and nothing else.
ReadStaysRead ==
  pc = "replace" => \A u \in 1 .. Len(lrd) : ReadAfter(u) = ReadBefore(u)

\* "In Jam base first letter also non 1" (README.md:15-16): as for Squish, the first
\* letter that stays keeps its number.
FirstNumberKept ==
  pc = "replace" /\ newidx # << >> =>
    newhdr[newidx[1]].MsgNum = Number(EntryOf(newidx[1]))

\* Of what README.md:15-18 says that pack keeps in a Jam base (the first number, what is
\* read, reply chains), each pack of an area without damaged headers keeps something.
\* That is less than README.md says, so that one pack that violates it refutes all of
\* it (packarea.c:494, 530-543, 553-577).
KeepsSomething ==
  rejected = {} => ReplyChainsKept \/ ReadStaysRead \/ FirstNumberKept
=============================================================================
