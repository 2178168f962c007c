------------------------------ MODULE SquishSort ------------------------------
(***************************************************************************)
(* "hptutil sort" on one Squish area: SquishSortArea and SortSquishArea of *)
(* src/src/sortarea.c.  The messages behind the last one read are ordered  *)
(* by date, numbered anew, and written back one after the other.           *)
(***************************************************************************)
EXTENDS SquishArea, DateSort

VARIABLES
  lastuid,  \* memory: the highest umsgid in .sql (umsgid of SquishSortArea)
  sqsort,   \* memory: the list of the messages to sort
  idxPos,   \* memory: number of entries in front of them
  first,    \* memory: the next new umsgid (umsgid of SortSquishArea)
  before,   \* history: the index as it was when the lock was taken
  moved     \* history: a user has read on since .sql was read

sortMemory == << lastuid, sqsort, idxPos, first >>
sortHistory == << before, moved >>

NoSort ==
  /\ lastuid = 0 /\ sqsort = << >> /\ idxPos = 0 /\ first = 0
  /\ before = << >> /\ moved = FALSE

EndSort ==
  /\ pc' = "idle"
  /\ lastuid' = 0 /\ sqsort' = << >> /\ idxPos' = 0 /\ first' = 0
  /\ before' = << >> /\ moved' = FALSE

\* .sql is read before the lock is tried.
ReadSql ==
  /\ pc = "idle"
  /\ pc' = "sort"
  /\ lastuid' = Max({sql[u] : u \in Users} \cup {0})
  /\ UNCHANGED << files, sqsort, idxPos, first, sortHistory >>

\* The place of the last message read; 0 if the index does not name it.
Lastread(idx) == SelectInSeq(idx, LAMBDA e : lastuid # 0 /\ e.umsgid = lastuid)

\* Fault: the message that was read last is sorted as well.
BehindAndRead(idx, from) ==
  LET front == IF from = 0 THEN 0 ELSE from - 1
  IN  [k \in 1 .. Len(idx) - front |->
         [ofs |-> idx[front + k].ofs, time |-> text[idx[front + k].ofs].date]]

\* The messages to sort, whatever the type of their frames.
Behind(idx, from) ==
  [k \in 1 .. Len(idx) - from |->
     [ofs |-> idx[from + k].ofs, time |-> text[idx[from + k].ofs].date]]

LockToSort ==
  /\ pc = "sort"
  /\ LET lastread == Lastread(sqi)
     IN  /\ idxPos' = lastread
         /\ sqsort' = SortByDate(Behind(sqi, lastread))
         /\ first' = IF lastread < Len(sqi) THEN sqi[lastread + 1].umsgid ELSE 0
  /\ before' = sqi
  /\ pc' = "sortmsg"
  /\ UNCHANGED << files, lastuid, moved >>

SortLocked == pc = "sort" /\ EndSort /\ UNCHANGED files

\* Fault: the old links stay.
LinksKept(x) == x

LinksCut(x) == [x EXCEPT !.replyto = 0, !.replies = NoReplies]

WriteXmsg ==
  /\ pc = "sortmsg" /\ sqsort # << >>
  /\ xmsg' = [xmsg EXCEPT ![sqsort[1].ofs] = [LinksCut(@) EXCEPT !.umsgid = first]]
  /\ pc' = "sortidx"
  /\ UNCHANGED << frame, uid, sqi, sql, text, sortMemory, sortHistory >>

\* Fault: the umsgid is counted on in both writes.
CountOnTwice(n) == n + 2

CountOn(n) == n + 1

WriteSqidx ==
  /\ pc = "sortidx"
  /\ sqi' = [sqi EXCEPT ![idxPos + 1] = [ofs |-> sqsort[1].ofs, umsgid |-> first]]
  /\ idxPos' = idxPos + 1
  /\ first' = CountOn(first)
  /\ sqsort' = Tail(sqsort)
  /\ pc' = "sortmsg"
  /\ UNCHANGED << frame, xmsg, uid, sql, text, lastuid, sortHistory >>

\* The files are closed, which gives up the lock.
Sorted == pc = "sortmsg" /\ sqsort = << >>

CloseSorted == Sorted /\ EndSort /\ UNCHANGED files

SortStep ==
  ReadSql \/ LockToSort \/ SortLocked \/ WriteXmsg \/ WriteSqidx \/ CloseSorted

-----------------------------------------------------------------------------
(* Properties. *)

Sorting == pc \in {"sortmsg", "sortidx"}

\* A sort is done: the messages behind the last one read stand in the order of
\* their dates, each of them once, with umsgids that are counted up from the
\* first one they had, in the index and in XMSG, and their reply links are cut; the
\* index in front is as it was (sortarea.c:140-151, 238-265).
TailSorted ==
  Sorted =>
    LET n == Lastread(before)
    IN  /\ SubSeq(sqi, 1, n) = SubSeq(before, 1, n)
        /\ IsSortOf(Behind(sqi, n), Behind(before, n))
        /\ NoDuplicates(before) =>
             \A k \in n + 1 .. Len(sqi) :
               /\ sqi[k].umsgid = before[n + 1].umsgid + k - n - 1
               /\ xmsg[sqi[k].ofs] = Unlinked(sqi[k].umsgid)

\* Index entries are in the order of their umsgids at every moment, also in the
\* middle of a sort or after one that died, and uid is above all of them
\* (sortarea.c:257, 140-151).
UmsgidsAscend ==
  /\ \A j, k \in 1 .. Len(sqi) : j < k => sqi[j].umsgid < sqi[k].umsgid
  /\ \A k \in 1 .. Len(sqi) : sqi[k].umsgid < uid

\* What a sort that dies costs: a message is missing from the index only if its new
\* place is further back than the old one; as many are missing as
\* others are named twice (sortarea.c:140-151).
MissingMovesBack ==
  Sorting /\ NoDuplicates(before) =>
    LET n == Lastread(before)
        old == Behind(before, n)
    IN  \A p \in 1 .. Len(old) :
          NewPlace(old, p) <= p => old[p].ofs \in Offsets(sqi)

\* Sort touches only what nobody has read: to every user the same messages are
\* read as before, unless a user reads on meanwhile, or the message that was read
\* last has been purged (sortarea.c:201-223, 238-247).
ReadKept ==
  Sorted /\ ~moved /\ lastuid \in {before[k].umsgid : k \in 1 .. Len(before)} \cup {0} =>
    \A u \in Users : ReadBy(u, sqi) = ReadBy(u, before)

\* What a sort that comes to its end has done (sortarea.c:140-151, 201-265).
SortResult == TailSorted /\ ReadKept
=============================================================================
