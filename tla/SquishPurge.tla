----------------------------- MODULE SquishPurge -----------------------------
(***************************************************************************)
(* "hptutil purge" on one Squish area: SquishPurgeArea and SquishDelMsg of *)
(* src/src/purgearea.c.                                                    *)
(*                                                                         *)
(* The program reads SQBASE and the whole index into memory, unlinks every *)
(* message that has to go with up to three header writes of its own, and   *)
(* writes SQBASE and the index back after the last message.  Each write of *)
(* a file is a step, so that a crash may fall between any two of them.     *)
(* All of it happens while byte 0 of the .sqd file is locked; an area      *)
(* whose files do not open or whose lock is taken is left alone, which is  *)
(* no step here.                                                           *)
(***************************************************************************)
EXTENDS SquishBase

CONSTANTS
  XMsgs,      \* the kinds of messages: local, sent, day written, day arrived
  Areas,      \* the values of keepUnread, killRead, purge and max
  LastReads,  \* the contents of the .sql file: a umsgid for each user
  LastDay,    \* bound: the day on which the model stops
  MaxCrashes  \* bound: the number of crashes

ASSUME PurgeAssumption ==
  /\ XMsgs \subseteq [local : BOOLEAN, sent : BOOLEAN,
                      date_written : Nat, date_arrived : Nat]
  /\ Areas \subseteq [keepUnread : BOOLEAN, killRead : BOOLEAN,
                      purge : Nat, max : Nat]
  /\ LastReads \subseteq Seq(Nat)
  /\ LastDay \in Nat
  /\ MaxCrashes \in Nat

VARIABLES
  hdrs,      \* .sqd: the header of each frame
  xmsg,      \* .sqd: the message of each frame
  damaged,   \* .sqd: the frames whose header has lost its id, SQHDRID
  base,      \* .sqd: the SQBASE at the head of the file
  sqi,       \* .sqi: the index
  sql,       \* .sql: the last read umsgid of each user
  area,      \* the area's keywords
  curtime,   \* the day on which the program runs
  pc,        \* the next statement of the program
  sqbase,    \* memory: the copy of SQBASE
  sqidx,     \* memory: the copy of the index; msgs is its length
  sqhdr,     \* memory: the header of the message being deleted
  i,         \* memory: the loop counter, from 1
  lastread,  \* memory: index of the message that everyone has read
  chain,     \* history: the linked frames in the order of the links
  read,      \* history: the messages that every user had read
  crash      \* history: number of crashes, and what the last one left

files == << hdrs, xmsg, damaged, base, sqi, sql >>
memory == << sqbase, sqidx, sqhdr, i, lastread >>
history == << chain, read, crash >>
vars == << files, area, curtime, pc, memory, history >>

NoHdr == [next_frame |-> NULL_FRAME, prev_frame |-> NULL_FRAME,
          frame_type |-> "normal"]

-----------------------------------------------------------------------------
(* The initial states: a sound base, in which the order of the index may   *)
(* differ from the order of the links, as it does after a sort.            *)

InitArea(order, free) ==
  /\ hdrs = HdrsOf(chain, free)
  /\ sqi = [k \in 1 .. Len(order) |-> [ofs |-> order[k], umsgid |-> k]]
  /\ base = [num_msg |-> Len(chain), high_msg |-> Len(chain),
             begin_frame |-> FirstOf(chain), last_frame |-> LastOf(chain),
             free_frame |-> FirstOf(free), last_free_frame |-> LastOf(free)]
  /\ read = {order[k] : k \in {k \in 1 .. Len(order) :
                sql # << >> /\ \A u \in 1 .. Len(sql) : k <= sql[u]}}

Init ==
  /\ sql \in LastReads
  /\ \E used \in SUBSET Frames :
       \E order \in SetToSeqs(used), free \in SetToSeqs(Frames \ used) :
         chain \in SetToSeqs(used) /\ InitArea(order, free)
  /\ xmsg \in [Frames -> XMsgs]
  /\ damaged \in SUBSET Frames
  /\ area \in Areas
  /\ curtime \in 0 .. LastDay
  /\ pc = "idle"
  /\ sqbase = base /\ sqidx = << >> /\ sqhdr = NoHdr /\ i = 1 /\ lastread = 0
  /\ crash = [count |-> 0, left |-> "sound"]

-----------------------------------------------------------------------------
(* Reading: what the run starts from. *)

\* The least of the umsgids of the users, but the loop starts from 0.
LeastUmsgid(users) == Min({0} \cup ToSet(users))

\* The number of the message whose umsgid this is; 0 if there is none.
IndexOf(idx, umsgid) ==
  IF umsgid # 0 /\ \E k \in 1 .. Len(idx) : idx[k].umsgid = umsgid
  THEN CHOOSE k \in 1 .. Len(idx) :
         /\ idx[k].umsgid = umsgid
         /\ \A j \in 1 .. k - 1 : idx[j].umsgid # umsgid
  ELSE 0

ReadBase ==
  /\ pc = "idle"
  /\ sqi # << >>
  /\ pc' = "examine"
  /\ sqbase' = base
  /\ sqidx' = sqi
  /\ i' = 1
  /\ lastread' = IndexOf(sqi, LeastUmsgid(sql))
  /\ UNCHANGED << files, area, curtime, sqhdr, history >>

-----------------------------------------------------------------------------
(* The loop over the messages. *)

\* Fault: the test for MSGSENT is the wrong way round.
UnsentSwapped(x) == x.local /\ x.sent

Unsent(x) == x.local /\ ~x.sent

\* Fault: the dates are mixed up.
ExpiredSwapped(x, day, a) ==
  LET msgtime == IF x.local THEN x.date_arrived ELSE x.date_written
  IN  a.purge # 0 /\ day >= msgtime /\ day - msgtime > a.purge

\* In whole days: mail written here dates from the day it was written,
\* other mail from the day it arrived.
Expired(x, day, a) ==
  LET msgtime == IF x.local THEN x.date_written ELSE x.date_arrived
  IN  a.purge # 0 /\ day >= msgtime /\ day - msgtime > a.purge

\* Fault: one message more than the keyword says.
TooManyOffByOne(num_msg, a) == a.max # 0 /\ num_msg > a.max + 1

TooMany(num_msg, a) == a.max # 0 /\ num_msg > a.max

\* The message may go.
MayGo(f) ==
  /\ f \notin damaged
  /\ ~Unsent(xmsg[f])
  /\ area.keepUnread => lastread >= sqbase.num_msg

\* One of the keywords asks for it.
Asked(f) ==
  \/ area.killRead /\ lastread >= sqbase.num_msg
  \/ Expired(xmsg[f], curtime, area)
  \/ TooMany(sqbase.num_msg, area)

\* Fault: a message that is free already is kept.
MustGoOnce(f) == MayGo(f) /\ Asked(f) /\ hdrs[f].frame_type = "normal"

MustGo(f) == MayGo(f) /\ Asked(f)

KeepMsg ==
  /\ pc = "examine" /\ i <= Len(sqidx)
  /\ ~MustGo(sqidx[i].ofs)
  /\ i' = i + 1
  /\ UNCHANGED << files, area, curtime, pc, sqbase, sqidx, sqhdr, lastread,
                  history >>

\* The header is read; the first half of SquishDelMsg is next.
DelMsg ==
  /\ pc = "examine" /\ i <= Len(sqidx)
  /\ MustGo(sqidx[i].ofs)
  /\ sqhdr' = hdrs[sqidx[i].ofs]
  /\ pc' = "relinkPrev"
  /\ UNCHANGED << files, area, curtime, sqbase, sqidx, i, lastread, history >>

-----------------------------------------------------------------------------
(* SquishDelMsg: the frame leaves the list, then becomes free. *)

Prev == sqhdr.prev_frame
Succ == sqhdr.next_frame

\* Fault: the message before is not written.
RelinkedPrevLost(h) == h

RelinkedPrev(h) ==
  IF Prev # NULL_FRAME THEN [h EXCEPT ![Prev].next_frame = Succ] ELSE h

RelinkedNext(h) ==
  IF Succ # NULL_FRAME THEN [h EXCEPT ![Succ].prev_frame = Prev] ELSE h

RelinkPrev ==
  /\ pc = "relinkPrev"
  /\ hdrs' = RelinkedPrev(hdrs)
  /\ sqbase' =
       [sqbase EXCEPT
          !.begin_frame = IF Prev = NULL_FRAME THEN Succ ELSE @,
          !.last_frame = IF Prev # NULL_FRAME /\ Succ = NULL_FRAME
                         THEN Prev ELSE @]
  /\ pc' = "relinkNext"
  /\ UNCHANGED << xmsg, damaged, base, sqi, sql, area, curtime, sqidx, sqhdr,
                  i, lastread, history >>

RelinkNext ==
  /\ pc = "relinkNext"
  /\ hdrs' = RelinkedNext(hdrs)
  /\ LET pos == sqidx[i].ofs
     IN  sqbase' =
           [sqbase EXCEPT
              !.begin_frame = IF Succ # NULL_FRAME /\ Prev = NULL_FRAME
                              THEN Succ ELSE @,
              !.last_frame = IF Succ = NULL_FRAME THEN Prev ELSE @,
              !.last_free_frame = IF sqbase.free_frame # NULL_FRAME
                                  THEN pos ELSE @,
              !.free_frame = IF @ = NULL_FRAME THEN pos ELSE @]
  /\ pc' = "markFree"
  /\ UNCHANGED << xmsg, damaged, base, sqi, sql, area, curtime, sqidx, sqhdr,
                  i, lastread, history >>

Unlinked(c, f) ==
  IF f \in ToSet(c) THEN RemoveAt(c, PlaceOf(c, f)) ELSE c

\* Fault: (*pi)-- is forgotten.
AfterDelSkips(k) == k + 1

\* The entry goes from the index; (*pi)-- undoes the i++ of the loop.
Closed(idx, k) == RemoveAt(idx, k)
AfterDel(k) == k

MarkFree ==
  /\ pc = "markFree"
  /\ LET pos == sqidx[i].ofs
     IN  /\ hdrs' = [hdrs EXCEPT ![pos] = [sqhdr EXCEPT !.frame_type = "free"]]
         /\ chain' = Unlinked(chain, pos)
  /\ sqbase' = [sqbase EXCEPT !.num_msg = Dec(@), !.high_msg = Dec(@)]
  /\ sqidx' = Closed(sqidx, i)
  /\ i' = AfterDel(i)
  /\ pc' = "examine"
  /\ UNCHANGED << xmsg, damaged, base, sqi, sql, area, curtime, sqhdr,
                  lastread, read, crash >>

-----------------------------------------------------------------------------
(* After the loop: SQBASE, the index, and its length. *)

WriteBase ==
  /\ pc = "examine" /\ i > Len(sqidx)
  /\ base' = sqbase
  /\ pc' = "writeSqi"
  /\ UNCHANGED << hdrs, xmsg, damaged, sqi, sql, area, curtime, memory,
                  history >>

\* The entries behind the new ones stay until the file is truncated.
WriteSqi ==
  /\ pc = "writeSqi"
  /\ sqi' = sqidx \o SubSeq(sqi, Len(sqidx) + 1, Len(sqi))
  /\ pc' = "truncate"
  /\ UNCHANGED << hdrs, xmsg, damaged, base, sql, area, curtime, memory,
                  history >>

Forget ==
  /\ sqbase' = base /\ sqidx' = << >> /\ sqhdr' = NoHdr
  /\ i' = 1 /\ lastread' = 0

Truncate ==
  /\ pc = "truncate"
  /\ sqi' = SubSeq(sqi, 1, Len(sqidx))
  /\ pc' = "idle"
  /\ crash' = [crash EXCEPT !.left = IF @ = "dirty" THEN "sound" ELSE @]
  /\ Forget
  /\ UNCHANGED << hdrs, xmsg, damaged, base, sql, area, curtime, chain, read >>

-----------------------------------------------------------------------------
(* Between runs a day passes, or the sysop edits the configuration. *)

NextDay ==
  /\ pc = "idle" /\ curtime < LastDay
  /\ curtime' = curtime + 1
  /\ UNCHANGED << files, area, pc, memory, history >>

Reconfigure ==
  /\ pc = "idle"
  /\ area' \in Areas
  /\ UNCHANGED << files, curtime, pc, memory, history >>

\* The program dies.  Up to the write of SQBASE the base and the index on
\* disk are the old ones; from there to the end they disagree.
Crash ==
  /\ pc # "idle" /\ crash.count < MaxCrashes
  /\ crash' = [count |-> crash.count + 1,
               left |-> IF crash.left = "torn" \/ pc \in {"writeSqi", "truncate"}
                        THEN "torn" ELSE "dirty"]
  /\ pc' = "idle"
  /\ Forget
  /\ UNCHANGED << files, area, curtime, chain, read >>

-----------------------------------------------------------------------------
Run ==
  \/ ReadBase \/ KeepMsg \/ DelMsg \/ RelinkPrev \/ RelinkNext \/ MarkFree
  \/ WriteBase \/ WriteSqi \/ Truncate

Next == Run \/ NextDay \/ Reconfigure

Spec == Init /\ [][Next]_vars

\* A crash, and the same command again on the same day.
CrashNext == Run \/ Crash

CrashSpec == Init /\ [][CrashNext]_vars

-----------------------------------------------------------------------------
(* The purge of a Squish area implements Purge: a message is a frame, and it *)
(* leaves when its header is written with the free bit.                      *)

P == INSTANCE Purge WITH
       Messages <- Frames,
       live <- {f \in Offsets(sqi) : hdrs[f].frame_type = "normal"},
       message <- [f \in Frames |->
                     [local |-> xmsg[f].local, sent |-> xmsg[f].sent,
                      day |-> IF xmsg[f].local THEN xmsg[f].date_written
                              ELSE xmsg[f].date_arrived]],
       uncounted <- 0,
       read <- read,
       area <- area,
       today <- curtime

\* Messages leave one at a time, and only when the keywords allow it.
ImplementsPurge == P!Spec

-----------------------------------------------------------------------------
(* Properties. *)

\* The contents of the files, the memory and the history have their types;
\* in the statements of SquishDelMsg (purgearea.c:55) i is an entry's number.
TypeOK ==
  /\ hdrs \in [Frames -> SQHDR]
  /\ xmsg \in [Frames -> XMsgs]
  /\ damaged \subseteq Frames
  /\ base \in SQBASE
  /\ sqi \in Seq(SQIDX)
  /\ sql \in LastReads
  /\ area \in Areas
  /\ curtime \in 0 .. LastDay
  /\ pc \in {"idle", "examine", "relinkPrev", "relinkNext", "markFree",
             "writeSqi", "truncate"}
  /\ sqbase \in SQBASE
  /\ sqidx \in Seq(SQIDX)
  /\ sqhdr \in SQHDR
  /\ i \in 1 .. Len(sqidx) + 1
  /\ pc \in {"relinkPrev", "relinkNext", "markFree"} => i <= Len(sqidx)
  /\ pc # "idle" => Len(sqidx) <= Len(sqi)
  /\ lastread \in Nat
  /\ chain \in Seq(Frames)
  /\ read \subseteq Frames
  /\ crash \in [count : Nat, left : {"sound", "dirty", "torn"}]

\* b and idx describe the list of frames: its ends, its length twice, and one
\* entry for each frame.
Describes(b, idx) ==
  /\ b.begin_frame = FirstOf(chain) /\ b.last_frame = LastOf(chain)
  /\ b.num_msg = Len(chain) /\ b.high_msg = Len(chain)
  /\ NoDuplicates(idx)
  /\ Offsets(idx) = ToSet(chain)

\* Before and after a run, and in memory whenever the loop looks at the next
\* message, the links, both ends, the counters and the index agree on one
\* list of messages, whatever was deleted before and in whatever order the
\* index names it (purgearea.c:66-100, 114-118, 304-307).
ListSound ==
  /\ pc = "idle" => Linked(hdrs, chain, "normal") /\ Describes(base, sqi)
  /\ pc = "examine" => Linked(hdrs, chain, "normal") /\ Describes(sqbase, sqidx)

\* Why ListSound holds: between the writes of SquishDelMsg the message that
\* goes is still in chain, and what the writes so far have changed follows from
\* its header, sqhdr.
Deleting == pc \in {"relinkPrev", "relinkNext", "markFree"}
Victim == sqidx[i].ofs

VictimInv ==
  Deleting => \E p \in 1 .. Len(chain) :
                 chain[p] = Victim /\ sqhdr = LinkAt(chain, p, "normal")

LinksInv ==
  \A k \in 1 .. Len(chain) :
     hdrs[chain[k]] =
       [next_frame |-> IF pc \in {"relinkNext", "markFree"}
                          /\ After(chain, k) = Victim
                       THEN Succ ELSE After(chain, k),
        prev_frame |-> IF pc = "markFree" /\ Before(chain, k) = Victim
                       THEN Prev ELSE Before(chain, k),
        frame_type |-> "normal"]

\* The files count while nothing is in memory, and again when they are written.
CurrentBase == IF pc \in {"idle", "writeSqi", "truncate"} THEN base ELSE sqbase
CurrentSqi == IF pc = "idle" THEN sqi ELSE sqidx

EndsInv ==
  /\ CurrentBase.begin_frame =
       IF pc \in {"relinkNext", "markFree"} /\ Prev = NULL_FRAME
       THEN Succ ELSE FirstOf(chain)
  /\ CurrentBase.last_frame =
       IF Succ = NULL_FRAME /\ \/ pc = "markFree"
                               \/ pc = "relinkNext" /\ Prev # NULL_FRAME
       THEN Prev ELSE LastOf(chain)

IndexInv ==
  /\ CurrentBase.num_msg = Len(chain) /\ CurrentBase.high_msg = Len(chain)
  /\ NoDuplicates(CurrentSqi)
  /\ Offsets(CurrentSqi) = ToSet(chain)
  /\ pc = "truncate" => SubSeq(sqi, 1, Len(sqidx)) = sqidx

\* The inductive invariant of a program that does not crash (purgearea.c:66-118).
ListInv == Distinct(chain) /\ VictimInv /\ LinksInv /\ EndsInv /\ IndexInv

\* When the loop ends, at most area.max messages are left, or nothing that is
\* left could go: max counts protected messages too (purgearea.c:287-289).
MaxEnforced ==
  pc = "writeSqi" /\ area.max # 0 /\ ~area.keepUnread =>
    \/ sqbase.num_msg <= area.max
    \/ \A k \in 1 .. Len(sqidx) :
          sqidx[k].ofs \in damaged \/ P!Unsent(sqidx[k].ofs)

\* The keyword max takes the first messages of the index that may go: no
\* message that may go survives in front of a deleted one, unless that one was
\* too old (purgearea.c:216, 271, 289).
OldestFirst ==
  pc = "writeSqi" =>
    \A j, k \in 1 .. Len(sqi) :
       /\ j < k
       /\ sqi[j].ofs \in Offsets(sqidx)
       /\ sqi[k].ofs \notin Offsets(sqidx)
       => \/ sqi[j].ofs \in damaged \/ P!Unsent(sqi[j].ofs)
          \/ P!TooOld(sqi[k].ofs)

\* No message that the keyword purge is meant for outlives a run: the loop
\* does not skip the entry that moves into the place of a deleted one
\* (purgearea.c:116-118, 271).
OldPurged ==
  pc = "writeSqi" /\ ~area.keepUnread =>
    \A k \in 1 .. Len(sqidx) :
       LET f == sqidx[k].ofs
       IN  P!TooOld(f) => f \in damaged \/ P!Unsent(f)

\* The keywords are enforced when the loop ends, and max takes the oldest
\* (purgearea.c:216-302).
Enforced == MaxEnforced /\ OldestFirst /\ OldPurged

\* The message that is being deleted may go (purgearea.c:228).
VictimMayGo == Deleting => ~Unsent(xmsg[Victim])

\* A frame with local mail that was not sent never becomes free, however
\* often the program dies and runs again (purgearea.c:228).
UnsentKept ==
  [][\A f \in Frames :
        hdrs[f].frame_type = "normal" /\ P!Unsent(f)
        => hdrs'[f].frame_type = "normal"]_vars

\* A run that starts over after a crash repeats the deletions that are already
\* in the headers and ends with a sound base, provided that the crash did not
\* fall between the write of SQBASE and the end of the run
\* (purgearea.c:303-307).
CrashRecovers ==
  pc = "idle" /\ crash.left = "sound" =>
    Linked(hdrs, chain, "normal") /\ Describes(base, sqi)

\* The keyword killRead, "checked" according to README.md:9-10: when a run
\* ends, no message that everyone has read is left, if it may go.
KillReadPurges ==
  pc = "writeSqi" /\ area.killRead =>
    \A f \in read \cap Offsets(sqidx) :
       f \in damaged \/ P!Unsent(f)
=============================================================================
