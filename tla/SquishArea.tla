------------------------------ MODULE SquishArea ------------------------------
(***************************************************************************)
(* A Squish area as "hptutil sort" and "hptutil link" know it, and what    *)
(* other programs do to it.  Sort and link do not touch the links between  *)
(* the frames nor SQBASE: a frame is its type and its XMSG.                *)
(*                                                                         *)
(* Each message has a frame of its own; frames that were freed are not     *)
(* used again.  What is not in XMSG never changes and is a constant of the *)
(* message: its date, MSGID and REPLY.                                     *)
(***************************************************************************)
EXTENDS SquishBase

CONSTANTS
  Users,     \* the places of the .sql file
  Ids,       \* what follows the address in a MSGID (the serial number)
  Addresses, \* the address in front of it
  NoId,      \* no MSGID or REPLY
  Dates,     \* values of date_written
  MAX_REPLY  \* room for replies in XMSG

Id == [address : Addresses, serial : Ids]

ASSUME AreaAssumption ==
  /\ NoId \notin Id \cup Ids
  /\ Dates \subseteq Nat
  /\ MAX_REPLY \in Nat \ {0}
  /\ Cardinality(Frames) + 1 < Dword

VARIABLES
  frame,   \* .sqd: the type of each frame, or "none" if it is not there
  xmsg,    \* .sqd: XMSG of each frame
  uid,     \* .sqd: SQBASE.uid, the next umsgid
  sqi,     \* .sqi: the index
  sql,     \* .sql: the umsgid each user has read last, or 0
  text,    \* date, MSGID and REPLY of each message
  pc       \* what hptutil does

files == << frame, xmsg, uid, sqi, sql, text >>

NoReplies == [k \in 1 .. MAX_REPLY |-> 0]

Unlinked(id) == [umsgid |-> id, replyto |-> 0, replies |-> NoReplies]

\* The messages that will come, and an area that is still empty.
Texts == [Frames -> [date : Dates, msgid : Id \cup {NoId}, reply : Id \cup {NoId}]]

InitArea(messages) ==
  /\ frame = [f \in Frames |-> "none"]
  /\ xmsg = [f \in Frames |-> Unlinked(0)]
  /\ uid = 1
  /\ sqi = << >>
  /\ sql = [u \in Users |-> 0]
  /\ text = messages
  /\ pc = "idle"

\* The messages that a user has read, if the index is idx.
ReadBy(u, idx) == {idx[k].ofs : k \in {j \in 1 .. Len(idx) : idx[j].umsgid <= sql[u]}}

-----------------------------------------------------------------------------
(* Other programs.  They change an area only while hptutil does not hold the  *)
(* lock; a reader stores its last read message at any time, without a lock.   *)

Unlocked == pc \in {"idle", "sort"}

\* hpt toss stores a message at the end.
Toss(f) ==
  /\ Unlocked
  /\ frame[f] = "none"
  /\ frame' = [frame EXCEPT ![f] = "normal"]
  /\ xmsg' = [xmsg EXCEPT ![f] = Unlinked(uid)]
  /\ sqi' = Append(sqi, [ofs |-> f, umsgid |-> uid])
  /\ uid' = uid + 1
  /\ UNCHANGED << sql, text >>

\* hptutil purge frees a frame and removes its entry...
Purge(k) ==
  /\ Unlocked
  /\ frame' = [frame EXCEPT ![sqi[k].ofs] = "free"]
  /\ sqi' = RemoveAt(sqi, k)
  /\ UNCHANGED << xmsg, uid, sql, text >>

\* ...or dies before it writes the index.
PurgeDies(k) ==
  /\ Unlocked
  /\ frame' = [frame EXCEPT ![sqi[k].ofs] = "free"]
  /\ UNCHANGED << xmsg, uid, sqi, sql, text >>

ReadOn(u, k) ==
  /\ sqi[k].umsgid > sql[u]
  /\ sql' = [sql EXCEPT ![u] = sqi[k].umsgid]
  /\ UNCHANGED << frame, xmsg, uid, sqi, text >>

-----------------------------------------------------------------------------
AreaType ==
  /\ frame \in [Frames -> {"none", "normal", "free"}]
  /\ xmsg \in [Frames -> [umsgid : 0 .. Dword - 1, replyto : 0 .. Dword - 1,
                          replies : [1 .. MAX_REPLY -> 0 .. Dword - 1]]]
  /\ uid \in 1 .. Dword - 1
  /\ sqi \in Seq(SQIDX)
  /\ sql \in [Users -> 0 .. Dword - 1]
  /\ text \in Texts
  /\ pc \in {"idle", "sort", "sortmsg", "sortidx", "link"}
=============================================================================
