------------------------------- MODULE JamChains -------------------------------
(***************************************************************************)
(* "hptutil sort" and "hptutil link" on one Jam area, in any order, while  *)
(* the tosser, purge and the readers do their work, and while hptutil may  *)
(* die between any two writes.                                             *)
(***************************************************************************)
EXTENDS JamSort, JamLink

CONSTANTS
  MaxRuns,    \* bound: how often sort or link is called
  MaxCrashes  \* bound: how often hptutil dies

ASSUME BoundsAssumption == MaxRuns \in Nat /\ MaxCrashes \in Nat

VARIABLES
  runs,     \* number of calls of sort or link
  crashes,  \* history: how often hptutil has died
  sorted,   \* history: the messages that the last sort has ordered, until
            \* something is purged, or a sort dies before it has cut the index
  skewed,   \* history: a sort has died, or has left out entries in front of
            \* the first message to sort
  raced     \* history: a user has read on while a sort was under way

history == << runs, crashes, sorted, skewed, raced >>
vars == << files, pc, sortMemory, sortHistory, linkMemory, history >>

InitWith(messages) ==
  /\ InitArea(messages) /\ NoSort /\ NoLink
  /\ runs = 0 /\ crashes = 0 /\ sorted = {} /\ skewed = FALSE /\ raced = FALSE

Init == \E messages \in Texts : InitWith(messages)

\* Every step but the first one of a call is taken whatever the bound.
Called ==
  IF pc = "idle" THEN ~Grown /\ runs < MaxRuns /\ runs' = runs + 1 ELSE UNCHANGED runs

Sort ==
  /\ SortStep
  /\ Called
  /\ sorted' = IF pc' = "sorted" THEN {idx'[k] : k \in Start + 1 .. Len(idx')} ELSE sorted
  /\ skewed' = (skewed \/ /\ LockToSort /\ jamsort' # << >>
                          /\ ~CheckMsg(idx[Start + 1]))
  /\ UNCHANGED << linkMemory, crashes, raced >>

Link ==
  /\ LinkStep
  /\ Called
  /\ UNCHANGED << sortMemory, sortHistory, crashes, sorted, skewed, raced >>

Other ==
  /\ \/ /\ \E m \in Msgs : Toss(m)
        /\ UNCHANGED << sorted, moved, raced >>
     \/ /\ \E k \in 1 .. Len(idx) : Purge(k) \/ PurgeDies(k)
        /\ sorted' = {}
        /\ UNCHANGED << moved, raced >>
     \/ /\ \E u \in Users, k \in 1 .. Len(idx) : ReadOn(u, k)
        /\ moved' = (pc \in {"sort", "sortmsg", "sortidx", "sorted"})
        /\ raced' = (raced \/ moved')
        /\ UNCHANGED sorted
  /\ UNCHANGED << pc, sortMemory, before, linkMemory, runs, crashes, skewed >>

\* hptutil dies, which gives up the lock.
Crash ==
  /\ pc # "idle" /\ crashes < MaxCrashes
  /\ EndSort /\ EndLink
  /\ crashes' = crashes + 1
  /\ sorted' = IF Sorting THEN {} ELSE sorted
  /\ skewed' = (skewed \/ Sorting)
  /\ UNCHANGED << files, runs, raced >>

Next == Sort \/ Link \/ Other \/ Crash

Spec == Init /\ [][Next]_vars

-----------------------------------------------------------------------------
(* Properties. *)

TypeOK ==
  /\ AreaType
  /\ lastread \in 0 .. Dword - 1 /\ idxPos \in 0 .. Dword - 1
  /\ firstnum \in 0 .. Dword - 1
  /\ jamsort \in Seq([msg : Msgs, time : Dates])
  /\ before \in Seq(Msgs \cup {Cleared}) /\ moved \in BOOLEAN
  /\ byCRC \in BOOLEAN
  /\ msginfo \in Seq([ReplyTo : 0 .. Dword - 1, Reply1st : 0 .. Dword - 1,
                      ReplyNext : 0 .. Dword - 1, rewrite : BOOLEAN])
  /\ i \in 0 .. Len(idx) + 1
  /\ runs \in 0 .. MaxRuns /\ crashes \in 0 .. MaxCrashes
  /\ sorted \subseteq Msgs /\ {skewed, raced} \subseteq BOOLEAN

\* The number in a header is that of the place in the index, from which readers
\* take it, as long as no sort dies, and none starts at entries that it leaves
\* out: the first number is that of the first message, not of the first place
\* (sortarea.c:469-496, 357-372).
NumbersMatch ==
  ~skewed /\ ~Sorting =>
    \A k \in 1 .. Len(idx) : CheckMsg(idx[k]) => hdr[idx[k]].MsgNum = Number(k)

\* Sort never makes the index longer, unless a user reads on meanwhile, so that a
\* message read is moved away, or the last message read is one from before
\* BaseMsgNum (sortarea.c:457-467, 372).
GrowsOnlyOutside ==
  Grown /\ ~raced => Max({lrd[u] : u \in Users}) \in 1 .. BaseMsgNum - 2

\* Ids with the same CRC have the same serial number.
CRCTellsApart == \A a, b \in Id : CRC[a] = CRC[b] => a.serial = b.serial

\* Where a long can tell -1L: each link of a message leads where it should, with -j after
\* every link, without it if the message was sorted, nothing was purged since, and a
\* link with -j in between was not misled by CRCs (sortarea.c:364, linkarea.c:459-474,
\* 604-622).
LinksTrue ==
  LinkDone /\ Once(idx) /\ ~skewed /\ LongIsDword =>
    \A k \in 1 .. Len(idx) :
      LET x == hdr[idx[k]]
          Leads(n, Test(_)) ==
            n # 0 => n - BaseMsgNum + 1 \in 1 .. Len(idx) /\ Test(n - BaseMsgNum + 1)
      IN  CheckMsg(idx[k]) /\ (byCRC \/ (idx[k] \in sorted /\ CRCTellsApart)) =>
            /\ Leads(x.ReplyTo, LAMBDA j : Names(k, j))
            /\ Leads(x.Reply1st, LAMBDA j : Names(j, k))
            /\ Leads(x.ReplyNext, LAMBDA j :
                       \E p \in 1 .. Len(idx) : Names(k, p) /\ Names(j, p))
=============================================================================
