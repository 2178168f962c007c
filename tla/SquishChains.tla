----------------------------- MODULE SquishChains -----------------------------
(***************************************************************************)
(* "hptutil sort" and "hptutil link" on one Squish area, in any order and  *)
(* number, while the tosser, purge and the readers do their work, and while *)
(* hptutil may die between any two writes.                                 *)
(***************************************************************************)
EXTENDS SquishSort, SquishLink

CONSTANTS
  MaxRuns,    \* bound: how often sort or link is called
  MaxCrashes  \* bound: how often hptutil dies

ASSUME BoundsAssumption == MaxRuns \in Nat /\ MaxCrashes \in Nat

VARIABLES
  runs,     \* number of calls of sort or link
  crashes,  \* history: how often hptutil has died
  sorted    \* history: the messages that the last sort has ordered, until
            \* something is purged or a sort dies

vars == << files, pc, sortMemory, sortHistory, linkMemory, runs, crashes,
           sorted >>

InitWith(messages) ==
  InitArea(messages) /\ NoSort /\ NoLink /\ runs = 0 /\ crashes = 0 /\ sorted = {}

Init == \E messages \in Texts : InitWith(messages)

\* Every step but the first one of a call is taken whatever the bound.
Called ==
  IF pc = "idle" THEN runs < MaxRuns /\ runs' = runs + 1 ELSE UNCHANGED runs

Sort ==
  /\ SortStep
  /\ Called
  /\ sorted' = IF Sorted THEN {sqi[k].ofs : k \in Lastread(before) + 1 .. Len(sqi)}
               ELSE sorted
  /\ UNCHANGED << linkMemory, crashes >>

Link ==
  /\ LinkStep
  /\ Called
  /\ UNCHANGED << sortMemory, sortHistory, crashes, sorted >>

Other ==
  /\ \/ /\ \E f \in Frames : Toss(f)
        /\ UNCHANGED << sorted, moved >>
     \/ /\ \E k \in 1 .. Len(sqi) : Purge(k) \/ PurgeDies(k)
        /\ sorted' = {}
        /\ UNCHANGED moved
     \/ /\ \E u \in Users, k \in 1 .. Len(sqi) : ReadOn(u, k)
        /\ moved' = (Sorting \/ pc = "sort")
        /\ UNCHANGED sorted
  /\ UNCHANGED << pc, sortMemory, before, linkMemory, runs, crashes >>

\* hptutil dies, which gives up the lock.
Crash ==
  /\ pc # "idle" /\ crashes < MaxCrashes
  /\ EndSort /\ EndLink
  /\ crashes' = crashes + 1
  /\ sorted' = IF Sorting THEN {} ELSE sorted
  /\ UNCHANGED << files, runs >>

Next == Sort \/ Link \/ Other \/ Crash

Spec == Init /\ [][Next]_vars

-----------------------------------------------------------------------------
(* Properties. *)

TypeOK ==
  /\ AreaType
  /\ lastuid \in 0 .. Dword - 1 /\ idxPos \in 0 .. Len(sqi) /\ first \in 0 .. Dword - 1
  /\ sqsort \in Seq([ofs : Frames, time : Dates])
  /\ before \in Seq(SQIDX) /\ moved \in BOOLEAN
  /\ msginfo \in Seq([replies : Seq(1 .. Dword - 1), replyto : 0 .. Dword - 1,
                      rewrite : BOOLEAN])
  /\ i \in 0 .. Len(sqi) + 1
  /\ runs \in 0 .. MaxRuns /\ crashes \in 0 .. MaxCrashes
  /\ sorted \subseteq Frames

\* "hptutil sort link": between messages that were sorted, and until the next
\* purge, each link leads where it should: to a message with the id that the
\* REPLY names, or to a reply.  Links that sort has not cut may lead anywhere
\* (sortarea.c:142-144, linkarea.c:225-250).
SortedLinked ==
  LinkDone /\ NoDuplicates(sqi) =>
    \A k \in 1 .. Len(sqi) :
      LET x == xmsg[sqi[k].ofs]
          Leads(n, Test(_)) == \E j \in 1 .. Len(sqi) : sqi[j].umsgid = n /\ Test(j)
      IN  sqi[k].ofs \in sorted /\ frame[sqi[k].ofs] = "normal" =>
            /\ x.replyto # 0 => Leads(x.replyto, LAMBDA j : Answers(k, j))
            /\ \A n \in 1 .. MAX_REPLY :
                 x.replies[n] # 0 => Leads(x.replies[n], LAMBDA j : Answers(j, k))
=============================================================================
