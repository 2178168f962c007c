------------------------------- MODULE PackFiles -------------------------------
(***************************************************************************)
(* The files of a packed area: how SquishPackArea and JamPackArea of       *)
(* src/src/packarea.c open, lock, copy, remove and rename them, while      *)
(* other programs of the node do their work or hptutil dies.               *)
(*                                                                         *)
(* An area has several parts (.sqd and .sqi, or .jhr, .jdx, .jdt, .jlr).   *)
(* Of each part there is an old file, and a new one that pack writes.  A   *)
(* name leads to a file or to none; a file lives on without a name while a *)
(* program has it open.  What a file holds is the set of the messages that *)
(* are complete in it.  Byte 0 of part 1 is the lock of the area.          *)
(***************************************************************************)
EXTENDS Integers, FiniteSets

CONSTANTS
  N,        \* number of parts: 2 for Squish, 4 for Jam
  Packers,  \* the processes that run "hptutil pack" on the area
  Mail,     \* the messages that the area may hold
  Files,    \* the files (inodes) that there may be at a time
  None,     \* no file, no process
  MaxPacks  \* bound: how often pack is started

Parts == 1 .. N

ASSUME PackFilesAssumption ==
  /\ N \in Nat \ {0}
  /\ IsFiniteSet(Files) /\ None \notin Files
  /\ None \notin Packers
  /\ MaxPacks \in Nat

VARIABLES
  old, new,       \* the file that the name of each part leads to
  content,        \* the messages in each file
  holder,         \* the process that holds the lock of each file
  pc,             \* the next statement of each packer
  part,           \* the part whose file is next
  fdOld, fdNew,   \* the files that a packer has open
  todo,           \* the messages a packer has still to copy
  fdToss,         \* the files that the tosser has open
  packs,          \* number of packs that were started
  stored,         \* history: every message that was stored
  left,           \* history: files that a packer has copied and unlocked
  late,           \* history: messages that were tossed into such a file
  overlap,        \* history: two packers have run at the same time
  torn            \* history: a packer has died between remove and rename, and
                  \* whether another one has started since

names == << old, new >>
packer == << pc, part, fdOld, fdNew, todo >>
history == << packs, stored, left, late, overlap, torn >>
vars == << names, content, holder, packer, fdToss, history >>

NoFiles == [k \in Parts |-> None]

Init ==
  /\ old \in [Parts -> Files]
  /\ \A j, k \in Parts : old[j] = old[k] => j = k
  /\ new = NoFiles
  /\ stored \in SUBSET Mail
  /\ content = [f \in Files |-> IF \E k \in Parts : old[k] = f THEN stored ELSE {}]
  /\ holder = [f \in Files |-> None]
  /\ pc = [p \in Packers |-> "idle"]
  /\ part = [p \in Packers |-> 1]
  /\ fdOld = [p \in Packers |-> NoFiles]
  /\ fdNew = [p \in Packers |-> NoFiles]
  /\ todo = [p \in Packers |-> {}]
  /\ fdToss = NoFiles
  /\ packs = 0
  /\ left = {} /\ late = {} /\ overlap = FALSE /\ torn = "no"

\* What can be read of the area, or of any files under these names.
Readable(n) ==
  IF \E k \in Parts : n[k] = None THEN {}
  ELSE {m \in Mail : \A k \in Parts : m \in content[n[k]]}

-----------------------------------------------------------------------------
(* Steps of one packer. *)

\* The statement after this one: the same for the next part, or the next one.
\* Fault: the parts are not counted from 1 again.
GoOnPast(p, next) ==
  /\ pc' = IF part[p] = N THEN [pc EXCEPT ![p] = next] ELSE pc
  /\ part' = [part EXCEPT ![p] = @ + 1]

GoOn(p, next) ==
  /\ pc' = IF part[p] = N THEN [pc EXCEPT ![p] = next] ELSE pc
  /\ part' = [part EXCEPT ![p] = IF @ = N THEN 1 ELSE @ + 1]

GoTo(p, next) == pc' = [pc EXCEPT ![p] = next] /\ part' = [part EXCEPT ![p] = 1]

\* Nothing leads to a free file.
Free(f) ==
  \A k \in Parts : /\ f \notin {old[k], new[k], fdToss[k]}
                   /\ \A q \in Packers : f \notin {fdOld[q][k], fdNew[q][k]}

Start(p) ==
  /\ pc[p] = "idle" /\ packs < MaxPacks
  /\ GoTo(p, "openNew")
  /\ packs' = packs + 1
  /\ overlap' = (overlap \/ \E q \in Packers \ {p} : pc[q] # "idle")
  /\ torn' = IF torn = "no" THEN "no" ELSE "overrun"
  /\ UNCHANGED << names, content, holder, fdOld, fdNew, todo, fdToss, stored,
                  left, late >>

\* Open_File(..., fop_wpb): a file of this name is emptied, or one is made.
OpenNew(p) ==
  LET k == part[p]
  IN  /\ pc[p] = "openNew"
      /\ \E f \in Files :
           /\ IF new[k] = None THEN Free(f) ELSE f = new[k]
           /\ new' = [new EXCEPT ![k] = f]
           /\ fdNew' = [fdNew EXCEPT ![p][k] = f]
           /\ content' = [content EXCEPT ![f] = {}]
           /\ left' = left \ {f}
      /\ GoOn(p, "openOld")
      /\ UNCHANGED << old, holder, fdOld, todo, fdToss, packs, stored, late,
                      overlap, torn >>

Closed(p) ==
  /\ fdOld' = [fdOld EXCEPT ![p] = NoFiles]
  /\ fdNew' = [fdNew EXCEPT ![p] = NoFiles]
  /\ todo' = [todo EXCEPT ![p] = {}]

OpenOld(p) ==
  LET k == part[p]
  IN  /\ pc[p] = "openOld" /\ old[k] # None
      /\ fdOld' = [fdOld EXCEPT ![p][k] = old[k]]
      /\ GoOn(p, "lock")
      /\ UNCHANGED << names, content, holder, fdNew, todo, fdToss, history >>

\* The new files stay behind, empty.
OldMissing(p) ==
  /\ pc[p] = "openOld" /\ old[part[p]] = None
  /\ GoTo(p, "idle")
  /\ Closed(p)
  /\ UNCHANGED << names, content, holder, fdToss, history >>

\* Fault: the area is not locked.
LockNever(p) ==
  /\ pc[p] = "lock"
  /\ todo' = [todo EXCEPT ![p] = Readable(fdOld[p])]
  /\ GoTo(p, "copy")
  /\ UNCHANGED << names, content, holder, fdOld, fdNew, fdToss, history >>

\* The messages are counted once, under the lock (oldmsgs).
Lock(p) ==
  /\ pc[p] = "lock" /\ holder[fdOld[p][1]] = None
  /\ holder' = [holder EXCEPT ![fdOld[p][1]] = p]
  /\ todo' = [todo EXCEPT ![p] = Readable(fdOld[p])]
  /\ GoTo(p, "copy")
  /\ UNCHANGED << names, content, fdOld, fdNew, fdToss, history >>

Locked(p) ==
  /\ pc[p] = "lock" /\ holder[fdOld[p][1]] # None
  /\ GoTo(p, "removeNew")
  /\ Closed(p)
  /\ UNCHANGED << names, content, holder, fdToss, history >>

\* Fault: the step is taken again and again.
RemoveNewStays(p) ==
  /\ pc[p] = "removeNew"
  /\ new' = [new EXCEPT ![part[p]] = None]
  /\ UNCHANGED << old, content, holder, packer, fdToss, history >>

RemoveNew(p) ==
  /\ pc[p] = "removeNew"
  /\ new' = [new EXCEPT ![part[p]] = None]
  /\ GoOn(p, "idle")
  /\ UNCHANGED << old, content, holder, fdOld, fdNew, todo, fdToss, history >>

CopyMsg(p) ==
  /\ pc[p] = "copy"
  /\ \E m \in todo[p] :
       /\ content' = [f \in Files |-> IF \E k \in Parts : fdNew[p][k] = f
                                      THEN content[f] \cup {m} ELSE content[f]]
       /\ todo' = [todo EXCEPT ![p] = @ \ {m}]
  /\ UNCHANGED << names, holder, pc, part, fdOld, fdNew, fdToss, history >>

\* Fault: a message is left out.
AllButOne(p) == Cardinality(todo[p]) <= 1

AllCopied(p) == todo[p] = {}

\* The old files are given up, and closed.
Unlock(p) ==
  /\ pc[p] = "copy" /\ AllCopied(p)
  /\ holder' = [holder EXCEPT ![fdOld[p][1]] = None]
  /\ left' = left \cup {fdOld[p][1]}
  /\ GoTo(p, "remove")
  /\ Closed(p)
  /\ UNCHANGED << names, content, fdToss, packs, stored, late, overlap,
                  torn >>

\* remove(sqd), remove(sqi).
RemoveOld(p) ==
  /\ pc[p] = "remove"
  /\ old' = [old EXCEPT ![part[p]] = None]
  /\ GoOn(p, "rename")
  /\ UNCHANGED << new, content, holder, fdOld, fdNew, todo, fdToss, history >>

\* rename(newsqd, sqd), rename(newsqi, sqi): fails if there is no new file.
Rename(p) ==
  LET k == part[p]
  IN  /\ pc[p] = "rename"
      /\ old' = IF new[k] = None THEN old ELSE [old EXCEPT ![k] = new[k]]
      /\ new' = [new EXCEPT ![k] = None]
      /\ GoOn(p, "idle")
      /\ UNCHANGED << content, holder, fdOld, fdNew, todo, fdToss, history >>

Pack(p) ==
  \/ OpenNew(p) \/ OpenOld(p) \/ OldMissing(p) \/ Lock(p) \/ Locked(p)
  \/ RemoveNew(p) \/ CopyMsg(p) \/ Unlock(p) \/ RemoveOld(p) \/ Rename(p)

-----------------------------------------------------------------------------
(* The other programs, and the death of a packer. *)

\* The tosser opens the area, and stores messages in the files it has open
\* while it holds the lock.
TossOpen ==
  /\ fdToss = NoFiles /\ \A k \in Parts : old[k] # None
  /\ fdToss' = old
  /\ UNCHANGED << names, content, holder, packer, history >>

Toss ==
  /\ fdToss # NoFiles /\ holder[fdToss[1]] = None
  /\ \E m \in Mail \ stored :
       /\ content' = [f \in Files |-> IF \E k \in Parts : fdToss[k] = f
                                      THEN content[f] \cup {m} ELSE content[f]]
       /\ stored' = stored \cup {m}
       /\ late' = IF fdToss[1] \in left THEN late \cup {m} ELSE late
  /\ UNCHANGED << names, holder, packer, fdToss, packs, left, overlap, torn >>

TossClose ==
  /\ fdToss # NoFiles
  /\ fdToss' = NoFiles
  /\ UNCHANGED << names, content, holder, packer, history >>

Crash(p) ==
  /\ pc[p] # "idle"
  /\ GoTo(p, "idle")
  /\ Closed(p)
  /\ holder' = [f \in Files |-> IF holder[f] = p THEN None ELSE holder[f]]
  /\ torn' = IF torn = "no" /\ pc[p] \in {"remove", "rename"} THEN "torn" ELSE torn
  /\ UNCHANGED << names, content, fdToss, packs, stored, left, late, overlap >>

-----------------------------------------------------------------------------
Tosser == TossOpen \/ Toss \/ TossClose

Next == Tosser \/ \E p \in Packers : Start(p) \/ Pack(p) \/ Crash(p)

Spec == Init /\ [][Next]_vars /\ \A p \in Packers : WF_vars(Pack(p))

-----------------------------------------------------------------------------
(* Properties. *)

TypeOK ==
  /\ old \in [Parts -> Files \cup {None}] /\ new \in [Parts -> Files \cup {None}]
  /\ content \in [Files -> SUBSET Mail]
  /\ holder \in [Files -> Packers \cup {None}]
  /\ pc \in [Packers -> {"idle", "openNew", "openOld", "lock", "removeNew", "copy",
                         "remove", "rename"}]
  /\ part \in [Packers -> Parts]
  /\ fdOld \in [Packers -> [Parts -> Files \cup {None}]]
  /\ fdNew \in [Packers -> [Parts -> Files \cup {None}]]
  /\ todo \in [Packers -> SUBSET Mail]
  /\ fdToss \in [Parts -> Files \cup {None}]
  /\ packs \in 0 .. MaxPacks
  /\ stored \subseteq Mail /\ late \subseteq stored
  /\ left \subseteq Files
  /\ overlap \in BOOLEAN /\ torn \in {"no", "torn", "overrun"}

AllIdle == \A p \in Packers : pc[p] = "idle"

\* Packs that run one at a time lose no mail, except what is tossed into files
\* that are copied already and not yet replaced, even if they die before the
\* first removal (packarea.c:112-267, 308-626).
MailKept ==
  AllIdle /\ ~overlap /\ torn = "no" => stored \ late \subseteq Readable(old)

\* If a pack dies between the first removal and the last renaming, each part of
\* each message is still under the old or the new name, until the next pack
\* starts, which empties the new files (packarea.c:112-123, 245-248, 591-598).
Recoverable ==
  ~overlap /\ torn # "overrun" =>
    \A m \in stored \ late, k \in Parts :
       \E n \in {old[k], new[k]} : n # None /\ m \in content[n]

\* Every pack comes to its end, also when others hold the lock: it is tried
\* once only (packarea.c:162, 250-259).
Termination == \A p \in Packers : pc[p] # "idle" ~> pc[p] = "idle"
=============================================================================
