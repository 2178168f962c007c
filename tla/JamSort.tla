-------------------------------- MODULE JamSort --------------------------------
(***************************************************************************)
(* "hptutil sort" on one Jam area: JamSortArea and SortJamArea of          *)
(* src/src/sortarea.c.  The messages behind the last one read are ordered  *)
(* by date, numbered anew and written back one after the other, without    *)
(* the cleared entries between them, and the index is cut behind them.     *)
(***************************************************************************)
EXTENDS JamArea, DateSort

VARIABLES
  lastread,  \* memory: the highest LastReadMsg
  jamsort,   \* memory: the list of the messages to sort
  idxPos,    \* memory: number of entries in front of the next one to write
  firstnum,  \* memory: the next new number
  before,    \* history: the index as it was when the lock was taken
  moved      \* history: a user has read on since .jlr was read

sortMemory == << lastread, jamsort, idxPos, firstnum >>
sortHistory == << before, moved >>

NoSort ==
  /\ lastread = 0 /\ jamsort = << >> /\ idxPos = 0 /\ firstnum = 0
  /\ before = << >> /\ moved = FALSE

EndSort ==
  /\ pc' = "idle"
  /\ lastread' = 0 /\ jamsort' = << >> /\ idxPos' = 0 /\ firstnum' = 0
  /\ before' = << >> /\ moved' = FALSE

\* .jlr is read before the lock is tried.
ReadLrd ==
  /\ pc = "idle"
  /\ pc' = "sort"
  /\ lastread' = Max({lrd[u] : u \in Users} \cup {0})
  /\ UNCHANGED << files, jamsort, idxPos, firstnum, sortHistory >>

\* Fault: the first message after the last one read is left out as well.
StartBehindNext == IF lastread = 0 THEN 0 ELSE (lastread - BaseMsgNum + 2) % Dword

\* Fault: it is computed in a type that is wider than a dword.
StartInWide == IF lastread = 0 THEN 0 ELSE (lastread - BaseMsgNum + 1) % (Dword * Dword)

\* The entries in front of the first one to sort, in dword arithmetic.
Start == IF lastread = 0 THEN 0 ELSE (lastread - BaseMsgNum + 1) % Dword

\* The places behind the first ones whose entry is neither cleared nor rejected.
Active(s, from) == {k \in from + 1 .. Len(s) : CheckMsg(s[k])}

\* The places up to n, in their order.
InOrder(places, n) ==
  LET met[k \in 0 .. n] ==
        IF k = 0 THEN << >> ELSE IF k \in places THEN Append(met[k - 1], k) ELSE met[k - 1]
  IN  met[n]

\* The messages to sort.
Behind(s, from) ==
  LET at == InOrder(Active(s, from), Len(s))
  IN  [k \in 1 .. Len(at) |-> [msg |-> s[at[k]], time |-> text[s[at[k]]].date]]

\* The number of the first of them, or of the first one that has a number.
FirstNum(msgs) ==
  LET k == SelectInSeq(msgs, LAMBDA x : hdr[x.msg].MsgNum # 0)
  IN  IF k = 0 THEN 0 ELSE hdr[msgs[k].msg].MsgNum

LockToSort ==
  /\ pc = "sort"
  /\ LET msgs == Behind(idx, Start)
     IN  /\ idxPos' = Start
         /\ jamsort' = SortByDate(msgs)
         /\ firstnum' = FirstNum(msgs)
  /\ before' = idx
  /\ pc' = "sortmsg"
  /\ UNCHANGED << files, lastread, moved >>

SortLocked == pc = "sort" /\ EndSort /\ UNCHANGED files

\* Fault: the old links stay.
RenumberedOnly(x, num) == [x EXCEPT !.MsgNum = num]

Renumbered(x, num) == Unlinked(num)

WriteHdr ==
  /\ pc = "sortmsg" /\ jamsort # << >>
  /\ hdr' = [hdr EXCEPT ![jamsort[1].msg] = Renumbered(@, firstnum)]
  /\ pc' = "sortidx"
  /\ UNCHANGED << state, idx, lrd, text, sortMemory, sortHistory >>

\* Fault: the number is counted on in both writes.
CountOnTwice(n) == (n + 2) % Dword

CountOn(n) == (n + 1) % Dword

WriteIdx ==
  /\ pc = "sortidx"
  /\ idx' = [idx EXCEPT ![idxPos + 1] = jamsort[1].msg]
  /\ idxPos' = idxPos + 1
  /\ firstnum' = CountOn(firstnum)
  /\ jamsort' = Tail(jamsort)
  /\ pc' = "sortmsg"
  /\ UNCHANGED << state, hdr, lrd, text, lastread, sortHistory >>

\* A file of n entries: cut, or extended by entries that were never written.
Sized(s, n) == [k \in 1 .. n |-> IF k <= Len(s) THEN s[k] ELSE Zero]

Chsize ==
  /\ pc = "sortmsg" /\ jamsort = << >>
  /\ idx' = Sized(idx, idxPos)
  /\ pc' = "sorted"
  /\ UNCHANGED << state, hdr, lrd, text, sortMemory, sortHistory >>

Unlock == pc = "sorted" /\ EndSort /\ UNCHANGED files

SortStep ==
  ReadLrd \/ LockToSort \/ SortLocked \/ WriteHdr \/ WriteIdx \/ Chsize \/ Unlock

-----------------------------------------------------------------------------
(* Properties. *)

Sorting == pc \in {"sortmsg", "sortidx"}

\* A sort is done: the active messages behind the last one read stand in the order
\* of their dates, each of them once, with dwords for numbers that are counted up and
\* without links, and nothing else is behind the last one read; the index in front of them is
\* as it was (sortarea.c:357-373, 457-497).
TailSorted ==
  pc = "sorted" /\ ~Grown =>
    LET n == Start
        old == Behind(before, n)
    IN  /\ SubSeq(idx, 1, n) = SubSeq(before, 1, n)
        /\ Len(idx) = n + Len(old)
        /\ IsSortOf(Behind(idx, n), old)
        /\ Once(before) =>
             \A k \in n + 1 .. Len(idx) :
               /\ hdr[idx[k]] = Unlinked(hdr[idx[k]].MsgNum)
               /\ k > n + 1 => hdr[idx[k]].MsgNum = (hdr[idx[k - 1]].MsgNum + 1) % Dword

\* Sort touches only what nobody has read: to every user the same messages are
\* read as before, unless a user reads on meanwhile (sortarea.c:420-442, 457-466).
ReadKept ==
  pc = "sorted" /\ ~moved => \A u \in Users : ReadBy(u, idx) = ReadBy(u, before)

\* What a sort that comes to its end has done (sortarea.c:357-373, 420-497).
SortResult == TailSorted /\ ReadKept
=============================================================================
