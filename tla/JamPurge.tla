------------------------------- MODULE JamPurge -------------------------------
(***************************************************************************)
(* "hptutil purge" on one Jam area: JamPurgeArea and JamDelMsg of          *)
(* src/src/purgearea.c.                                                    *)
(*                                                                         *)
(* The .jhr file is a JAMHDRINFO followed by message headers, the .jdx     *)
(* file one entry per message number: the offset of its header, or         *)
(* 0xFFFFFFFF.  A message is deleted in three writes, each a step here:    *)
(* its header, its entry, and the JAMHDRINFO.  All of it happens while     *)
(* byte 0 of the .jhr file is locked; an area whose files do not open or   *)
(* whose lock is taken is left alone, which is no step here.               *)
(***************************************************************************)
EXTENDS Integers, Sequences, FiniteSets, SequencesExt

CONSTANTS
  Headers,    \* offsets of the headers in the .jhr file
  NoHeader,   \* the offset 0xFFFFFFFF
  Dword,      \* number of values of a dword (2^32 in the program)
  Msgs,       \* the kinds of messages: local, sent, day written, day processed
  Areas,      \* the values of keepUnread, killRead, purge and max
  LastReads,  \* the contents of the .jlr file: LastReadMsg of each user
  FirstMsg,   \* BaseMsgNum: the number of the first message
  LastDay,    \* bound: the day on which the model stops
  MaxCrashes  \* bound: the number of crashes

ASSUME JamAssumption ==
  /\ IsFiniteSet(Headers) /\ NoHeader \notin Headers
  /\ Dword \in Nat /\ Cardinality(Headers) < Dword
  /\ Msgs \subseteq [local : BOOLEAN, sent : BOOLEAN,
                     DateWritten : Nat, DateProcessed : Nat]
  /\ Areas \subseteq [keepUnread : BOOLEAN, killRead : BOOLEAN,
                      purge : Nat, max : Nat]
  /\ LastReads \subseteq Seq(Nat)
  /\ FirstMsg \in Nat \ {0}
  /\ LastDay \in Nat
  /\ MaxCrashes \in Nat

VARIABLES
  hdr,       \* .jhr: MsgNum and the attribute JMSG_DELETED of each header
  msg,       \* .jhr: what a header says of its message, never changed
  damaged,   \* .jhr: the headers without the signature of Jam
  hdrinfo,   \* .jhr: the JAMHDRINFO at the head of the file
  idx,       \* .jdx: the index
  lrd,       \* .jlr: the last read message number of each user
  area,      \* the area's keywords
  curtime,   \* the day on which the program runs
  pc,        \* the next statement of the program
  HdrInfo,   \* memory: the copy of JAMHDRINFO
  i,         \* memory: the loop counter, from 1
  lastread,  \* memory: the number up to which everyone has read
  read,      \* history: the messages that every user had read
  crash      \* history: number of crashes, and of those that left an entry
             \* of a deleted message, or its place in ActiveMsgs, as it was

files == << hdr, msg, damaged, hdrinfo, idx, lrd >>
memory == << HdrInfo, i, lastread >>
history == << read, crash >>
vars == << files, area, curtime, pc, memory, history >>

\* The headers that the index names.
Indexed == ToSet(idx) \ {NoHeader}

Live == {h \in Indexed : ~hdr[h].deleted}

-----------------------------------------------------------------------------
(* The initial states: the k-th entry belongs to message FirstMsg + k - 1,   *)
(* whose header is that of order[k], or which was deleted.  A header without  *)
(* an entry is one of a deleted message.                                      *)

InitArea(order, gone) ==
  /\ idx = [k \in 1 .. Len(order) |-> IF k \in gone THEN NoHeader ELSE order[k]]
  /\ hdr = [h \in Headers |->
              IF h \in Indexed
              THEN [MsgNum |-> FirstMsg + (CHOOSE k \in 1 .. Len(order) :
                                             order[k] = h) - 1,
                    deleted |-> FALSE]
              ELSE [MsgNum |-> 0, deleted |-> TRUE]]
  /\ hdrinfo = [ActiveMsgs |-> Cardinality(Live), ModCounter |-> 0]

Init ==
  /\ \E used \in SUBSET Headers :
       \E order \in SetToSeqs(used), gone \in SUBSET (1 .. Cardinality(used)) :
         InitArea(order, gone)
  /\ msg \in [Headers -> Msgs]
  /\ damaged \in SUBSET Headers
  /\ lrd \in LastReads
  /\ area \in Areas
  /\ curtime \in 0 .. LastDay
  /\ pc = "idle"
  /\ HdrInfo = hdrinfo /\ i = 1 /\ lastread = 0
  /\ read = {h \in Indexed :
               lrd # << >> /\ \A u \in 1 .. Len(lrd) : hdr[h].MsgNum <= lrd[u]}
  /\ crash = [count |-> 0, uncleared |-> 0, uncounted |-> 0]

-----------------------------------------------------------------------------
(* The loop over the index. *)

\* The least of the numbers of the users, but the loop starts from 0.
LeastRead(users) == Min({0} \cup ToSet(users))

ReadHdrInfo ==
  /\ pc = "idle"
  /\ pc' = "examine"
  /\ HdrInfo' = hdrinfo
  /\ i' = 1
  /\ lastread' = LeastRead(lrd)
  /\ UNCHANGED << files, area, curtime, history >>

\* Fault: the test for JMSG_SENT is left out.
UnsentNever(x) == FALSE

Unsent(x) == x.local /\ ~x.sent

\* In whole days: mail written here dates from the day it was written,
\* other mail from the day it was processed.
Expired(x, day, a) ==
  LET msgtime == IF x.local THEN x.DateWritten ELSE x.DateProcessed
  IN  a.purge # 0 /\ day > msgtime /\ day - msgtime > a.purge

\* Fault: one message less than the keyword says.
TooManyEarly(ActiveMsgs, a) == a.max # 0 /\ ActiveMsgs >= a.max

TooMany(ActiveMsgs, a) == a.max # 0 /\ ActiveMsgs > a.max

CheckMsg(h) == h \notin damaged /\ ~hdr[h].deleted

\* The entry names a message that may go, and a keyword asks for it.
MustGo(h) ==
  /\ h # NoHeader
  /\ CheckMsg(h)
  /\ ~Unsent(msg[h])
  /\ area.keepUnread => lastread >= hdr[h].MsgNum
  /\ \/ area.killRead /\ lastread >= hdr[h].MsgNum
     \/ Expired(msg[h], curtime, area)
     \/ TooMany(HdrInfo.ActiveMsgs, area)

KeepMsg ==
  /\ pc = "examine" /\ i <= Len(idx)
  /\ ~MustGo(idx[i])
  /\ i' = i + 1
  /\ UNCHANGED << files, area, curtime, pc, HdrInfo, lastread, history >>

-----------------------------------------------------------------------------
(* JamDelMsg. *)

\* dword arithmetic: 0 - 1 is the largest dword, and 0 comes after it.
Dec(n) == IF n = 0 THEN Dword - 1 ELSE n - 1
Inc(n) == IF n = Dword - 1 THEN 0 ELSE n + 1

\* Fault: the number of messages is not counted down.
CountedNever(info) == [info EXCEPT !.ModCounter = Inc(@)]

Counted(info) == [info EXCEPT !.ActiveMsgs = Dec(@), !.ModCounter = Inc(@)]

\* Fault: the header is not written.
DelMsgIdxOnly ==
  /\ pc = "examine" /\ i <= Len(idx)
  /\ MustGo(idx[i])
  /\ HdrInfo' = Counted(HdrInfo)
  /\ pc' = "writeIdx"
  /\ UNCHANGED << files, area, curtime, i, lastread, history >>

DelMsg ==
  /\ pc = "examine" /\ i <= Len(idx)
  /\ MustGo(idx[i])
  /\ HdrInfo' = Counted(HdrInfo)
  /\ hdr' = [hdr EXCEPT ![idx[i]].deleted = TRUE]
  /\ pc' = "writeIdx"
  /\ UNCHANGED << msg, damaged, hdrinfo, idx, lrd, area, curtime, i, lastread,
                  history >>

Cleared(x, k) == [x EXCEPT ![k] = NoHeader]

WriteIdx ==
  /\ pc = "writeIdx"
  /\ idx' = Cleared(idx, i)
  /\ pc' = "writeHdrInfo"
  /\ UNCHANGED << hdr, msg, damaged, hdrinfo, lrd, area, curtime, memory,
                  history >>

\* Fault: the next entry is read and not looked at.
AfterDelSkips(k) == k + 2

\* The write has left the file at the next entry.
AfterDel(k) == k + 1

WriteHdrInfo ==
  /\ pc = "writeHdrInfo"
  /\ hdrinfo' = HdrInfo
  /\ i' = AfterDel(i)
  /\ pc' = "examine"
  /\ UNCHANGED << hdr, msg, damaged, idx, lrd, area, curtime, HdrInfo, lastread,
                  history >>

Forget == HdrInfo' = hdrinfo /\ i' = 1 /\ lastread' = 0

Done ==
  /\ pc = "examine" /\ i > Len(idx)
  /\ pc' = "idle"
  /\ Forget
  /\ UNCHANGED << files, area, curtime, history >>

-----------------------------------------------------------------------------
(* Between runs a day passes, or the sysop edits the configuration. *)

NextDay ==
  /\ pc = "idle" /\ curtime < LastDay
  /\ curtime' = curtime + 1
  /\ UNCHANGED << files, area, pc, memory, history >>

Reconfigure ==
  /\ pc = "idle"
  /\ area' \in Areas
  /\ UNCHANGED << files, curtime, pc, memory, history >>

\* The program dies.  Once the header is written, CheckMsg rejects it and the
\* deletion is never completed.
Crash ==
  /\ pc # "idle" /\ crash.count < MaxCrashes
  /\ crash' = [count |-> crash.count + 1,
               uncleared |-> crash.uncleared
                             + IF pc = "writeIdx" THEN 1 ELSE 0,
               uncounted |-> crash.uncounted
                             + IF pc \in {"writeIdx", "writeHdrInfo"} THEN 1 ELSE 0]
  /\ pc' = "idle"
  /\ Forget
  /\ UNCHANGED << files, area, curtime, read >>

-----------------------------------------------------------------------------
Run == ReadHdrInfo \/ KeepMsg \/ DelMsg \/ WriteIdx \/ WriteHdrInfo \/ Done

Next == Run \/ NextDay \/ Reconfigure \/ Crash

Spec == Init /\ [][Next]_vars

-----------------------------------------------------------------------------
(* The purge of a Jam area implements Purge: a message is a header, and it   *)
(* leaves when the header is written with the attribute JMSG_DELETED.        *)

P == INSTANCE Purge WITH
       Messages <- Headers,
       live <- Live,
       message <- [h \in Headers |->
                     [local |-> msg[h].local, sent |-> msg[h].sent,
                      day |-> IF msg[h].local THEN msg[h].DateWritten
                              ELSE msg[h].DateProcessed]],
       uncounted <- crash.uncounted,
       read <- read,
       area <- area,
       today <- curtime

\* Messages leave one at a time, and only when the keywords allow it.
ImplementsPurge == P!Spec

-----------------------------------------------------------------------------
(* Properties. *)

\* The contents of the files, the memory and the history have their types;
\* no number of a message leaves the index (purgearea.c:328-347).
TypeOK ==
  /\ hdr \in [Headers -> [MsgNum : Nat, deleted : BOOLEAN]]
  /\ msg \in [Headers -> Msgs]
  /\ damaged \subseteq Headers
  /\ hdrinfo \in [ActiveMsgs : 0 .. Dword - 1, ModCounter : 0 .. Dword - 1]
  /\ idx \in Seq(Headers \cup {NoHeader})
  /\ lrd \in LastReads
  /\ area \in Areas
  /\ curtime \in 0 .. LastDay
  /\ pc \in {"idle", "examine", "writeIdx", "writeHdrInfo"}
  /\ HdrInfo \in [ActiveMsgs : 0 .. Dword - 1, ModCounter : 0 .. Dword - 1]
  /\ i \in 1 .. Len(idx) + 1
  /\ pc \in {"writeIdx", "writeHdrInfo"} => i <= Len(idx)
  /\ lastread \in Nat
  /\ read \subseteq Headers
  /\ crash \in [count : Nat, uncleared : Nat, uncounted : Nat]

\* Whenever the loop looks at the next entry, and between runs, ActiveMsgs is
\* the number of messages, and the index names these and no others, but for the
\* crashes: one before the write of the entry leaves a message in both for
\* ever, one before the write of the JAMHDRINFO in ActiveMsgs, and no other
\* crash leaves a trace (purgearea.c:335-346, 442; linkarea.c:295).
ActiveMsgsDrift ==
  pc \in {"idle", "examine"} =>
    /\ hdrinfo.ActiveMsgs = Cardinality(Live) + crash.uncounted
    /\ Cardinality(Indexed) = Cardinality(Live) + crash.uncleared

\* An entry gives up its header only when the header is marked as deleted, so
\* that no message is lost that a tool which reads the headers would still
\* find alive (purgearea.c:342-344).
MarkedBeforeCleared == \A h \in Headers \ Indexed : hdr[h].deleted

\* Why ActiveMsgsDrift and MarkedBeforeCleared hold, also between the writes
\* of JamDelMsg: no two entries name the same header, and each of the three
\* numbers knows which writes are still to come (purgearea.c:335-346).
CountInv ==
  /\ \A j, k \in 1 .. Len(idx) : idx[j] = idx[k] /\ idx[j] # NoHeader => j = k
  /\ pc = "writeIdx" => idx[i] \in Indexed /\ hdr[idx[i]].deleted
  /\ pc # "idle" => HdrInfo.ActiveMsgs = Cardinality(Live) + crash.uncounted
  /\ hdrinfo.ActiveMsgs = Cardinality(Live) + crash.uncounted
                          + IF pc \in {"writeIdx", "writeHdrInfo"} THEN 1 ELSE 0
  /\ Cardinality(Indexed) = Cardinality(Live) + crash.uncleared
                            + IF pc = "writeIdx" THEN 1 ELSE 0
  /\ MarkedBeforeCleared

\* The keyword max never takes the messages below the limit, except for one
\* for each deletion that a crash has left uncounted (purgearea.c:337, 492).
MaxKept ==
  pc = "writeIdx" /\ area.purge = 0 =>
    Cardinality(Live) + crash.uncounted >= area.max

\* When the loop ends, at most area.max messages are left, or nothing that is
\* left could go: max counts protected messages too (purgearea.c:490-497).
MaxEnforced ==
  pc = "examine" /\ i > Len(idx) /\ area.max # 0 /\ ~area.keepUnread =>
    \/ Cardinality(Live) <= area.max
    \/ \A h \in Live : h \in damaged \/ P!Unsent(h)

\* No message that the keyword purge is meant for outlives a run
\* (purgearea.c:471-488).
OldPurged ==
  pc = "examine" /\ i > Len(idx) /\ ~area.keepUnread =>
    \A h \in Live : P!TooOld(h) => h \in damaged \/ P!Unsent(h)

\* The keywords are enforced when the loop ends, and max takes no more than
\* that, whatever crashes have left (purgearea.c:423-498).
Enforced == MaxKept /\ MaxEnforced /\ OldPurged
=============================================================================
