-------------------------------- MODULE JamArea --------------------------------
(***************************************************************************)
(* A Jam area as "hptutil sort" and "hptutil link" know it, and what other *)
(* programs do to it.  An entry of the index leads to a header; the number *)
(* of a message is in its header, and readers take it from the place of    *)
(* its entry.  What never changes is a constant of the message: its date,  *)
(* MSGID and REPLY.                                                        *)
(***************************************************************************)
EXTENDS Integers, Sequences, FiniteSets, SequencesExt

CONSTANTS
  Msgs,        \* the headers of the .jhr file
  Cleared,     \* the entry 0xFFFFFFFF of a deleted message
  Zero,        \* an entry in a part of the file that was never written
  Users,       \* the places of the .jlr file
  BaseMsgNum,  \* the number of the first entry
  OldMarks,    \* last read numbers from before BaseMsgNum was moved up
  Ids,         \* what follows the address in a MSGID (the serial number)
  Addresses,   \* the address in front of it
  NoId,        \* no MSGID or REPLY
  Dates,       \* values of DateWritten
  Dword        \* number of values of a dword (2^32 in the program)

Id == [address : Addresses, serial : Ids]

ASSUME AreaAssumption ==
  /\ IsFiniteSet(Msgs) /\ Cardinality({Cleared, Zero} \cup Msgs) = Cardinality(Msgs) + 2
  /\ BaseMsgNum \in Nat \ {0} /\ Dword \in Nat /\ BaseMsgNum + Cardinality(Msgs) < Dword
  /\ OldMarks \subseteq 0 .. BaseMsgNum - 2
  /\ NoId \notin Id \cup Ids
  /\ Dates \subseteq Nat

VARIABLES
  state,  \* .jhr: is the header not there, active, or marked as deleted
  hdr,    \* .jhr: number and links of each message
  idx,    \* .jdx: the message of each entry, Cleared or Zero
  lrd,    \* .jlr: LastReadMsg of each user, or 0
  text,   \* date, MSGID and REPLY of each message
  pc      \* what hptutil does

files == << state, hdr, idx, lrd, text >>

Texts == [Msgs -> [date : Dates, msgid : Id \cup {NoId}, reply : Id \cup {NoId}]]

JAMHDR == [MsgNum : 0 .. Dword - 1, ReplyTo : 0 .. Dword - 1,
           Reply1st : 0 .. Dword - 1, ReplyNext : 0 .. Dword - 1]

Unlinked(num) == [MsgNum |-> num, ReplyTo |-> 0, Reply1st |-> 0, ReplyNext |-> 0]

InitArea(messages) ==
  /\ state = [m \in Msgs |-> "none"]
  /\ hdr = [m \in Msgs |-> Unlinked(0)]
  /\ idx = << >>
  /\ lrd \in [Users -> {0} \cup OldMarks]
  /\ text = messages
  /\ pc = "idle"

Number(k) == BaseMsgNum + k - 1

\* The entry leads to a header that CheckMsg accepts.
CheckMsg(e) == e \in Msgs /\ state[e] = "active"

Grown == Zero \in ToSet(idx)

Once(s) == \A j, k \in 1 .. Len(s) : s[j] = s[k] /\ s[k] \in Msgs => j = k

\* The messages that a user has read, if the index is s.
ReadBy(u, s) == {s[k] : k \in {j \in 1 .. Len(s) : CheckMsg(s[j]) /\ Number(j) <= lrd[u]}}

-----------------------------------------------------------------------------
(* Other programs.  They change an area only while hptutil does not hold the  *)
(* lock; a reader stores its last read number at any time, without a lock.    *)
(* An area whose index was extended by unwritten entries is left alone.       *)

Unlocked == pc \in {"idle", "sort"} /\ ~Grown

\* hpt toss stores a message at the end.
Toss(m) ==
  /\ Unlocked
  /\ state[m] = "none"
  /\ state' = [state EXCEPT ![m] = "active"]
  /\ hdr' = [hdr EXCEPT ![m] = Unlinked(Number(Len(idx) + 1))]
  /\ idx' = Append(idx, m)
  /\ UNCHANGED << lrd, text >>

\* hptutil purge marks a header and clears its entry...
Purge(k) ==
  /\ Unlocked
  /\ CheckMsg(idx[k])
  /\ state' = [state EXCEPT ![idx[k]] = "deleted"]
  /\ idx' = [idx EXCEPT ![k] = Cleared]
  /\ UNCHANGED << hdr, lrd, text >>

\* ...or dies in between.
PurgeDies(k) ==
  /\ Unlocked
  /\ CheckMsg(idx[k])
  /\ state' = [state EXCEPT ![idx[k]] = "deleted"]
  /\ UNCHANGED << hdr, idx, lrd, text >>

ReadOn(u, k) ==
  /\ ~Grown
  /\ CheckMsg(idx[k])
  /\ Number(k) > lrd[u]
  /\ lrd' = [lrd EXCEPT ![u] = Number(k)]
  /\ UNCHANGED << state, hdr, idx, text >>

-----------------------------------------------------------------------------
AreaType ==
  /\ state \in [Msgs -> {"none", "active", "deleted"}]
  /\ hdr \in [Msgs -> JAMHDR]
  /\ idx \in Seq(Msgs \cup {Cleared, Zero})
  /\ lrd \in [Users -> 0 .. Dword - 1]
  /\ text \in Texts
  /\ pc \in {"idle", "sort", "sortmsg", "sortidx", "sorted", "link"}
=============================================================================
