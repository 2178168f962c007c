# Verification of hptutil

hptutil maintains the message bases of a Fidonet node: it sorts, links,
purges, packs and repairs areas in Squish and Jam format.  This directory holds
TLA+ models of the program in `src/`, configurations that check them with TLC,
and proofs that TLAPS checks.

## The system

hptutil is a batch program.  `main` (`src/src/hptutil.c`) parses the command
line, reads the configuration and calls `sortAreas`, `linkAreas`, `purgeAreas`
and `packAreas`, in this order.  Each of them walks over the areas that a list
names, or over all areas, and opens the files of each area for itself.  Nothing
is kept in memory from one area, or one command, to the next: **the files are
the only channel** between the commands, between two runs, and between hptutil
and the other programs of the node (the tosser hpt, the mail readers).  A
program that changes an area locks byte 0 of its main file.

| component | state | operations | hard behaviour |
|---|---|---|---|
| driver (`hptutil.c`, the loops of the four `*Areas`) | the importlog, the list of `-i`, command line | call commands, open a list, treat its areas, remove it | the tosser writes the list that hptutil reads and removes; commands of one call share a list; being killed |
| purge, Squish (`purgearea.c:55-321`) | `.sqd`: SQBASE, frames with links; `.sqi`: index; `.sql`: last reads | unlink a frame, free it; write SQBASE, index | doubly linked list and index changed together; writes spread over the run; crash and rerun |
| purge, Jam (`purgearea.c:328-511`) | `.jhr`: JAMHDRINFO, headers; `.jdx`: index; `.jlr` | mark a header, clear an entry, write JAMHDRINFO | three writes per deletion; crash between them |
| pack, Squish (`packarea.c:90-267`) | the files above and `.tmd`, `.tmi` | copy the live frames, replace both files | lock given up before the files are replaced; crash between removal and renaming; two packs |
| pack, Jam (`packarea.c:274-627`) | the four files and four new ones | copy, renumber messages, links and last reads | offsets of links; eight file operations |
| sort, Squish and Jam (`sortarea.c`) | index and messages behind the last read one | insertion sort by date, rewrite in place | first message to sort; new umsgids; crash in the middle |
| link, Squish and Jam (`linkarea.c`) | reply links of the messages | find parents by MSGID, string or CRC | order of parent and replies; stale links; full reply tables |
| fix, Squish (`fixarea.c`) | a damaged `.sqd`, a new base | scan for the headers of frames, store what follows in a new base | lost and spoilt records, no lock, messages that smapi refuses |
| undelete (`undelete.c`) | none | none: it is a stub | none |

What makes each of them correct:

* *purge*: only messages that the keywords `keepUnread`, `killRead`, `purge` and
  `max` allow to go, never unsent mail; all that must go goes; the base stays
  sound, or becomes sound again by a second run.
* *driver*: an area with new mail is not forgotten; a list is removed only when
  it was worked through; `-k` keeps it.
* *pack*: every live message survives, exactly once, in the order of the index;
  at no point do the only copies lie in files that the next run truncates.
* *sort*: a permutation, sorted by date, of the messages behind the last read
  one; umsgids ascend and numbers match the places in the index, also after a crash.
* *link*: each message leads to what it answers and to its answers; a second link changes nothing,
  and completes one that died.
* *fix*: every message whose header and XMSG are whole is in the new base once, with its own control info and text.

## The modules

| module | models |
|---|---|
| `SquishBase` | the records of a Squish base, lists of frames |
| `Purge` | abstract: what a purge promises of an area of any format |
| `SquishPurge` | `SquishPurgeArea` and `SquishDelMsg`; implements `Purge` |
| `SquishPurge_proofs` | lemmas on lists of frames; theorems |
| `JamPurge` | `JamPurgeArea` and `JamDelMsg`; implements `Purge` |
| `JamPurge_proofs` | theorems |
| `DateSort` | `AddSQSORT` and `AddJAMSORT`, and the definition of a sort they are checked against |
| `SquishArea`, `SquishSort`, `SquishLink` | a Squish area as sort and link see it, with the other programs; `SquishSortArea`; `SquishLinkArea` |
| `SquishChains` | composes the three: sort and link in any order, with crashes |
| `JamArea`, `JamSort`, `JamLink`, `JamChains` | the same for Jam: `JamSortArea`; `JamLinkArea` and `JamLinkAreaByCRC` |
| `SquishFile`, `SquishPack`, `SquishFix` | the `.sqd` file record by record; what `SquishPackArea` copies; `SquishFixArea` |
| `SquishRepair` | composes the three: pack and fix in any order, with a tosser and damage |
| `JamPack` | the copy, renumbering and relinking of `JamPackArea` |
| `PackFiles` | the files, the lock and the replacement of `SquishPackArea` and `JamPackArea`, with other programs and crashes |
| `Hptutil` | `main` and the loops over the areas |
| `DateSort_proofs` | lemmas on numbers and sequences that the other proofs use; theorems |
| `SquishChains_proofs`, `JamChains_proofs`, `JamPack_proofs`, `PackFix_proofs`, `Hptutil_proofs` | theorems |
| `MCSquishPurge`, `MCJamPurge`, `MCSquishChains`, `MCJamChains`, `MCSquishRepair`, `MCJamPack`, `MCPackFiles`, `MCHptutil` | instances for TLC |

An operator whose comment begins with "Fault:" is no part of the model: it stands for a plausible bug in the
definition behind it, and a property that the definition keeps is violated with it in its place.

### SquishPurge

The files are the variables `hdrs`, `xmsg`, `damaged`, `base` (of `.sqd`), `sqi` and
`sql`; the locals of `SquishPurgeArea` are `sqbase`, `sqidx`, `sqhdr`, `i` and
`lastread`, and `pc` is the next statement.  Each action does what the program
does up to and including its next write to a file: `ReadBase` (everything before
the loop), `KeepMsg` and `DelMsg` (the tests of one message), `RelinkPrev`, `RelinkNext`
and `MarkFree` (the three writes of `SquishDelMsg`), `WriteBase`, `WriteSqi` and
`Truncate` (what follows the loop).  `NextDay` and `Reconfigure` happen between runs.
`Crash` ends a run between any two writes.

Three history variables tell what the properties need: `chain`, the frames in the
order in which a sound list links them; `read`, the messages that every user
has read at the start; and `crash`.  The index starts in any order, because
`hptutil sort` changes it without touching the links.

Left out: texts, subjects, the high water mark and `skip_msg`, which the code
copies and never looks at; the size of frames.  Days are whole.  A `.sqd` or `.sqi` that
does not open, a lock that is taken and an empty index end the call without any
change, and are no steps.

### JamPurge

`hdr`, `msg`, `damaged`, `hdrinfo`, `idx` and `lrd` are the files.  A deletion is three
steps, `DelMsg` (the header), `WriteIdx` and `WriteHdrInfo`.  The loop reads the
index from the file again and again, so that there is no copy of it in memory.
`CheckMsg` rejects a header that is marked as deleted, so that no later run takes up
a deletion that a crash has cut short.  `crash.uncleared` counts the crashes
after the first of the three writes, `crash.uncounted` those after the second.

### Purge

One variable matters: `live`.  `PurgeMessage(m)` takes one message out of it, and its guard says
what the keywords mean; `max` counts the messages and what crashes have left in the count (`uncounted`).  A Squish message is live while the index names
its frame and the frame is normal, a Jam message while the index names its header and
the header is not marked.

### JamPack

`hdrinfo`, `idx`, `rejected`, `links` and `lrd` are the old files, `newidx`, `newhdr` and `newlrd`
the new ones; the other variables are the locals of `JamPackArea`.  `ReadHdrInfo` is
everything before the first loop, `SkipCleared`, `SkipRejected` and `CopyMsg` are the three ways
through its body, `RelinkMsg` is the body of the second loop, `PackLastRead` what
follows, and `Replace` puts the new files in place (how that can fail is `PackFiles`).  `Purge`
clears an entry between two packs.  The three links of a message are
treated alike, one statement after the other, and so are LastReadMsg and HighReadMsg; the
constant `LinkFields` names as many of the links as a run needs.  Texts, subfields and the
offsets of headers are left out, and so is `ModCounter`, which nothing reads.

### SquishSort, SquishLink, SquishChains

Sort and link look at the type and the XMSG of a frame and at the index; they touch neither the links between frames
nor SQBASE.  So `SquishArea` has `frame`, `xmsg`, `sqi`, `sql` and the next umsgid `uid`; date, MSGID and
REPLY never change and are a constant of each message (`text`).  An id is an address and a serial number, because `GetOnlyId`
drops the address.  `Toss`, `Purge`, `PurgeDies` (a purge killed before it writes the index) and `ReadOn` are the other programs: the
first three only while nobody holds the lock, a reader at any time.

`ReadSql` reads the last read marks before the lock is tried; `LockToSort` locks, looks for the last read entry and fills
the list with the entries behind it, `AddSORT` being the insertion of the code; `WriteXmsg` and `WriteSqidx` are its two writes per message.
`ReadMsgs` is both loops of `SquishLinkArea` that work in memory, `LinkPair` one turn of the inner one, `WriteLinks` one turn of the writing loop.  `Crash`
ends sort or link at any step.

### JamSort, JamLink, JamChains

As above, with what is different in Jam: sort starts at a number computed in dwords (`Start`), leaves out entries that
`CheckMsg` rejects, gives the first message the number it has (or, if that is 0, the number of the first one that has another: `FirstNum`), counts on in dwords, and cuts or extends the index to what it has
written (`Chsize`; an entry that was never written is `Zero`).  An area that was extended is not followed further.  `OldMarks` are last read numbers from
before BaseMsgNum.  `JamLink` has the second kind of link, ReplyNext, and both ways to compare ids: by text, or with `-j` by
CRC, where `Msgid` includes the comparison of a dword with `-1L` (`LongIsDword`).  CRC is a constant function, without collisions in the runs.

### SquishFile, SquishPack, SquishFix, SquishRepair

`sqd` is a sequence of cells: SQBASE, a SQHDR, an XMSG or a piece of control info or text.  An offset is a place in it, so that frames begin
anywhere and a write may hit the middle of one.  `Skip` and `Copy` are the two ways through the loop of `SquishPackArea`; `ClearTail` is what
it does behind the loop: it seeks for the last entry of the new index behind the end of that index, so that `sqidx` stays the
entry read last from the *old* one.  `Replace` puts the new files in place.
`FixOpen`, `NotFound`, `FixMsg`, `FixDone` and `FixClose` are the statements of `SquishFixArea`; `findHdrId` looks for the next header
from where the file stands, and what is in front of the next header is the control info and text of the message.  `formatMsg` splits it: the
lines that begin with `\001` (`SOH`), each up to its CR or NUL, are control info, the NUL being stepped over, and what follows is the text, up to a NUL.
What each cell begins and ends with (`SOH`, `CR`, `NUL`) are constants.  `ctrl` is made as long as one line whatever it holds (`fixarea.c:103`, `111`), so that
the second line is written behind its end: `Formatted` lets the message be spoilt or not then, and `FixDies` lets the program die of it.  smapi may refuse
a message.  The tosser writes a frame piece by piece, also during a fix, which asks for no lock, and goes on in a file that was damaged.  `Damage` spoils a cell or
removes it, between two tosses.
`doing` says whether hptutil packs, fixes or does not run.  Two history variables are for the properties: `whole` holds the messages that were whole when a fix began,
by their offsets, and whether their text was; `gone` those that a pack has left out.

Left out of these: entries with offset -1, frames that are reused, `ModCounter`, the conversion of dates by smapi, areas without a handle in fix; what the bytes
of an XMSG are as text, when one stands where a text should (it may end or spoil the message, `Scanned` and `Fits`); what a write behind
the end of `ctrl` does to any other message than the one at hand; holes of less than two NULs; damage in the middle of a toss.  A
damaged base has lost its index (`sqi` is empty) and is not packed.

### PackFiles

What the two pack functions do to files is the same, with two parts (`.sqd`,
`.sqi`) or four; the run has four.  A name leads to a file or to none; a program that has a file
open keeps it when its name is removed or given to another.  `Start`,
`OpenNew`, `OpenOld`, `Lock`, `CopyMsg`, `Unlock`, `RemoveOld` and `Rename` are the statements of the
function, one per part where the code has one per part; `OldMissing` and
`Locked` are its early returns.  The tosser is external: it opens the
area, stores messages under the lock and closes it.  `Crash` ends a packer at
any step; the system then gives up its locks.

Five history variables say what the properties have to leave out.  `left` holds the files that
were copied and unlocked, and `late` the messages that were stored in such a file: it is about to be
removed.  `overlap` says that two packs have run at the same time.
`torn` says that a pack died between the first removal and the last renaming, and whether another one
was started since.  `stored` is all the mail there ever was.

Left out: a file that cannot be created for want of permissions or space, and
`exit(1)` on a failing seek.

### Hptutil

Treating an area is one step that appends to `done`; what it does to the base
is the subject of the other modules.  Reading a line and treating its area are
one step, but reading the end, closing the list and removing it are steps
apart, because the tosser (`Toss`, external, modelled from how the code uses the
importlog) may write in between, as at any other step.  `late` and `lost` are the areas
whose names it adds behind an end that was already read, and those of them whose list was
then removed.  `Kill` ends the program anywhere.

## The runs

| run | bounds | shows |
|---|---|---|
| `squish_purge` | 3 frames, days 0-2, 4 settings of the keywords, all orders of links and index, at most one damaged header | `TypeOK`, `ListSound`, `Enforced`, refinement of `Purge` |
| `squish_purge_crash` | the same, 2 crashes | `CrashRecovers`, `UnsentKept` |
| `squish_purge_killread` | as `squish_purge` | counterexample to README.md, see below |
| `jam_purge` | 3 headers, BaseMsgNum 5, days 0-2, 4 settings, 2 crashes | `TypeOK`, `ActiveMsgsDrift`, `MarkedBeforeCleared`, `Enforced`, refinement of `Purge` |
| `squish_sort_link` | 3 messages, 4 threads, 2 orders of dates, 1 reader, MAX_REPLY 2, 3 calls of sort or link, 1 crash | `TypeOK`, `SortResult`, `UmsgidsAscend`, `MissingMovesBack`, `LinkRepeatable`, `RepliesFound`, `SortedLinked` |
| `jam_sort_link` | the same, BaseMsgNum 4, one old last read number, with and without `-j` | `TypeOK`, `SortResult`, `NumbersMatch`, `GrowsOnlyOutside`, `LinkRepeatable`, `LinksFound`, `LinksTrue` |
| `jam_link_crc` | as `jam_sort_link`, a long wider than a dword | counterexample to linkarea.c:573 |
| `squish_repair` | 3 messages with 2, 1 and 2 cells of control info and text, one of them with two lines of control info, all indexes over them, 2 damaged cells, 1 refused message per fix, any number of packs and fixes | `RepairTypeOK`, `Packed`, `Fixed`, `GoneStaysAway`, `PackAndFixEnd` |
| `jam_pack` | 3 messages, BaseMsgNum 1 or 3, 1 kind of link, at most 1 user and 1 rejected header, all sets of cleared entries | `TypeOK`, `LiveRenumbered`, `LastReadsErrBack` |
| `jam_pack_keeps` | as `jam_pack` | counterexample to three statements of README.md |
| `pack_files` | 4 parts (Jam), 2 packers, the tosser, 2 messages, 2 packs in all, any number of crashes | `TypeOK`, `MailKept`, `Recoverable`, termination |
| `driver` | 3 areas, 2 lists of at most 2 lines, the tosser and a kill at any time | `TypeOK`, `FreshListed`, `RemovedWhenRead` |

A run is about one component, and a property with several parts is the conjunction of named ones: `Enforced` (purge) of `MaxEnforced`,
`OldPurged` and `OldestFirst` (Squish) or `MaxKept` (Jam); `SortResult` of `TailSorted` and `ReadKept`; `LinksFound` of
`RepliesFound` and `ChainComplete`; `LastReadsErrBack` of `NothingUnreadSkipped`, `ReadAgainBounded` and how many users keep a number; `Packed` of
`AllPacked`, `ChainPacked` and `InOrderUnspoilt`; `Fixed` of `WholeRecovered` and `TextWhole`.

Three frames are enough for every case of `SquishDelMsg`: first, middle, last and
only message, two deletions side by side, a survivor on either side, and a frame
that was free before.  `Dword` is 8, so that counting down from 0 wraps
within the model.  Two crashes let a rerun crash as well.  The symmetry of
frames and headers is broken by hand (`MCInit`): the index lists them in ascending
order.  `squish_purge_crash` does not check for deadlock, because runs stop when
the index is empty.  The kinds of mail are chosen so that each date and each flag
matters: sent local mail is old by the day it was written and young by the
day it arrived.

`ListSound` is the claim a sysop cares about; `ListInv` is the inductive invariant behind it.  `OldestFirst` and `MaxEnforced` say which messages `max` takes and how
many.  `CrashRecovers` is exact: a crash before SQBASE is written is healed by the same
command on the same day, because the loop repeats every deletion, and unlinking a frame
twice changes nothing.  A crash after SQBASE is written is not healed: the next run
counts the messages down a second time (`crash.left = "torn"`).  Nor is a crash after
which the day or the keywords change, because the deletions are then not
repeated; that case is outside the specification `CrashSpec`.

`ActiveMsgsDrift` says what a crash costs a Jam area: after a crash before the
entry is written, the message stays in the index and in `ActiveMsgs` for ever; after one before the
JAMHDRINFO is written it stays in `ActiveMsgs` only; no other crash leaves a trace.
`MaxKept` bounds what the wrong count costs when `max` is applied.

Three messages in `JamPack` give a link over a cleared entry, one from behind it, and one to
each side; `Dword` is 16 there, so that counting down from 0 wraps.  The area is packed again after further
purges, without a bound.  `NothingUnreadSkipped` and `ReadAgainBounded` speak of every user of the old area, also of one
who has no number in the new last read file: he has to read everything again.  BaseMsgNum 1 without a cleared entry is the case
in which that happens to all of them (`MarksForgotten`), and BaseMsgNum 3 one in which it does not although nothing was cleared.

Three messages in `SquishChains` and `JamChains` are the least for two replies to one message, for a chain whose end comes first in the
index, and for a list that is inserted into at the front, in the middle and at the end.  The threads (`MCThreads`) also have a message between two that it relates,
two messages with one serial number and, in Jam, a reply without a MSGID.  MAX_REPLY is 2, so that the second reply meets the place that is never used.
Three calls are a sort and two links, or a sort that dies, a sort and a link.  Messages are tossed in the order of their names.  Neither run
checks for deadlock: when the calls are used up and all mail is tossed, read and purged, nothing is left to do.
`NoDuplicates(before)` and `Once(idx)` leave out an index that a dead sort has left with an entry twice; `MissingMovesBack`,
`UmsgidsAscend` and `NumbersMatch` say what is left then.  `skewed` in `JamChains` marks the areas in which `NumbersMatch` is known to fail: a sort has died, or has
started at entries it leaves out (below).  `raced` marks that a user has read on during a sort.

In `SquishRepair`, messages of 2, 1 and 2 cells let an old offset fall on a header, an XMSG, a text or behind the end of the new
file.  The first message has control info that ends with a NUL and a text that does; the text of the second begins like control info and ends where the next
header begins; the third has two lines of control info, of which the second does not fit.  Two damaged cells are a header and the XMSG of the next frame, or both
ends of one frame, so that one message runs into another.  Two bounds of `MCSquishRepair` keep the state space, and the check of liveness on it, small:
what is damaged is a file in which the order of the messages is that of their names and from which pack has left out nothing (`MCDamage`), and nothing is
tossed after the second damage (`MCToss`); after the first one the tosser goes on.
The run does not check for deadlock: when all mail is tossed, hptutil need not run again.

`MaxPacks` bounds the number of packs: two let one pack start while another one runs, and one follow another that has died or
was completed.  `MCFiles` is large
enough that `OpenNew` always finds a free file, and a new file is
always the first that is free, since the names of files do not matter.  The
run does not check for deadlock: when all packs have run and all mail is stored, nothing may be left to do.

### Fairness

hptutil is a sequential program without waiting: the lock is tried once.  So `PackFiles` assumes weak fairness of the steps of
each packer, whatever the others do, and `SquishRepair` of the steps of hptutil once it runs; with that, `Termination` and `PackAndFixEnd` say that
neither a lock, nor a file that the tosser makes longer, nor a header that is found keeps them from their end.  Nothing is assumed of the tosser, the damage
or the start of a program.  The loops of the other modules count an index once from its front to its end; no
property of theirs needs fairness, and none is assumed.

## What the checks found

* `killRead` never deletes anything, in either format: the least last-read
  mark is searched from 0 (`purgearea.c:185`, `409`).  For the same reason `keepUnread`
  keeps everything, as long as the area is not empty.
* Pack of a Jam area keeps nothing of what README.md:15-18 says it does ("In Jam base first letter also non 1, no lastread changing", "Reply chains not
  killed.").  `KeepsSomething` asks of each pack only that it keeps one of the three, so that its counterexample, one pack of an area without damaged headers, refutes them all:
  * it numbers from 1 (`packarea.c:494`; `FirstNumberKept`);
  * it takes all cleared entries off every last read number, also those behind it (`ReadStaysRead`), and where there is nothing to take off it puts
    an empty last read file in the place of the old one, so that everything is unread (`packarea.c:553-577`; `MarksForgotten` in `LastReadsErrBack`);
  * it converts reply links with a table index that is right only if exactly one entry was left out in front of the message with the
    link (`packarea.c:502-504`, `530-543`; `ReplyChainsKept`), so that a reply may lead to another message or to none.
* `-j link` compares a dword with `-1L` (`linkarea.c:574`): where a long is wider, each message that replies to nothing becomes a
  reply to a message without a MSGID.

What the properties say of cases that a reader of the code may not expect:

* The end of a Squish pack clears `next_frame` of the entry that it read last (`packarea.c:230-236`).  If that was copied, its offset is the new one by then, and the last
  frame ends the chain as it should.  If it was not, the offset is one in the *old* file, and the last frame leads to the end of the new one
  (`ChainPacked`).  That is harmless if the index is in the order of the file; after a sort, one cell of another message may be spoilt (`AllPacked`, `InOrderUnspoilt`).
* A pack of a Jam area moves last read numbers back, never forward, unless it leaves out a header that `CheckMsg` rejects: those are not counted in delta
  (`LastReadsErrBack`).
* Fix stores a message as it was only if its control info is at most one line (`TextWhole`), and it tells control info from text only if
  the former ends with a CR or NUL (`IsOwn`); if it does not, the first line of the text becomes control info.
* A sort that dies leaves a message out of the index, but only one that was to move back (`MissingMovesBack`).
* A Jam sort whose first entry is cleared numbers from the first message but writes from the first entry: numbers and places disagree from
  then on (`NumbersMatch`, `sortarea.c:469-496`).
* A last read number from before BaseMsgNum, or a reader during a sort, can make a Jam sort extend the index by entries
  that were never written (`GrowsOnlyOutside`).
* Link leaves an old link alone when it finds no new one: only links that a sort has cut, or all of them with `-j`, are true afterwards
  (`SortedLinked`, `LinksTrue`).  A sort has cut them as soon as it has cut the index, even if it dies before it unlocks the area.
* In a Jam area link compares numbers of messages where it means messages (`linkarea.c:433-435`): when a sort has died and two messages have
  one number, ReplyNext may lead to a reply to the other one.  It takes 4 messages; the proof of `ChainComplete` did not go through without
  `NumbersApart`.  A message with the number 0 leads nowhere, as 0 stands for no link (`AllNumbered`).
* With `-j` an id whose CRC is 0xFFFFFFFF is taken for none and its replies are not found (`NoneKnown`), and links by CRC that a plain link
  leaves alone later are true only as far as CRCs tell ids apart (`CRCTellsApart`).
* The last place for replies in an XMSG is never used (`RepliesFound`), and ids are compared without their addresses.

Read in the code, without a run of its own:

* JamPurgeArea computes the least last-read mark from 0, too (`purgearea.c:409`).
* `last_free_frame` stays 0 after the first deletion (`purgearea.c:102-109`).
* `link` removes the list of `-i`, and `purge` and `pack` of the same call then treat all areas (`linkarea.c:758`); `-k` keeps every list.
* Several commands run in the order sort, link, purge, pack (`hptutil.c:428-446`); README.md:39-40 names another one.
* `purge` and `pack` ignore the importlog of fidoconfig (`purgearea.c:581`, `packarea.c:695`).
* The second line of control info is written behind the end of `ctrl` (`fixarea.c:103-104`, `111-112`): the model lets anything come of it.
* Pack of a Jam area counts `highwater` down below 0, and does not renumber it (`packarea.c:479`).
* "Sorting started from lastread" (README.md:20-22): if the message read last has been purged, Squish sort starts from the
  first entry (`sortarea.c:238-247`).

Two packs of one area at the same time are not safe: the second one empties the new files of the first
before it tries the lock, and the first one then removes the old files.  `MailKept` and `Recoverable` leave these behaviours
out (`overlap`), since no text of the repository promises them.

## The proofs

`SquishPurge_proofs` holds for every set of frames, every message, keyword,
day and last-read file, under the assumptions `FramesAssumption` (finitely many frames,
none at offset 0), `DwordAssumption` (their number fits in a dword) and
`PurgeAssumption` (types of the parameters).

* `TypeCorrect`, `CrashTypeCorrect`: `TypeOK`, with and without crashes.
* `ListInvariant`: `ListInv` is inductive.  `ListSound` alone is not: between the writes of
  `SquishDelMsg` links, ends and index disagree.  `ListInv` says how: the victim is still in `chain`
  (`VictimInv`), its header in memory is the link at its place, each other header
  differs from its place in `chain` exactly by the writes that were made (`LinksInv`), and so do the ends
  (`EndsInv`); counters and index still count the victim (`IndexInv`).  `MarkFree` takes the victim out of `chain`,
  and `UnlinkedFrame` (a lemma on lists) turns the patched links into the links of the shorter list.
* `ListCorrect`: `ListSound` follows.
* `UnsentIsKept`: `UnsentKept`, with any number of crashes, from the fact that the message being
  deleted is never unsent (`VictimMayGo`).
* `PurgeImplemented`: each step of a Squish run that is not cut short is a `PurgeMessage` of `Purge` or leaves
  `live` alone.  The proof needs that the index in memory lists each live frame once
  (`ListInv`), that the marks of the readers are never counted (`LeastUmsgidIsZero`), and that the tests of the
  loop are those of the abstract guard (`PurgeInv`).
* `KeywordsEnforced`: `Enforced`.  The property speaks of the end of the loop, so that the invariant `LoopInv` has to say what is true of the entries that the loop has
  passed: each is protected, or no keyword asks for it (`Kept`; that stays true because `num_msg` only falls), and none that may go survives in front of
  one that `max` took (`FirstGoFirst`).  Entry `i` in memory is entry `i + Gone` of the file, which ties the two together.

* `RecoveredAfterCrash`: `CrashRecovers`, for any number of crashes, each of them anywhere before SQBASE is written.  What the loop does is determined by
  the files that it starts from, of which only the frames change, so all the runs until one ends do the same: `IsCourse` is the sequence of their moments (index
  and counter in memory, and the list that is left).  The inductive invariant, `RecoveryInv`, says that a run is on that course (`Track`): it has come to moment `q`, and the runs that were cut
  short to `d` at the most, whose list is `chain`.  The headers on the disk are then a mixture of the links of many moments.  `LinksOn` says
  of which: a frame that is still in the list of moment `q` has the link of this moment or of a later one, so that the header of the next victim is right
  although a run before may have freed it already (`VictimLinks`), and a frame that has left the list has some link that it once had.  At the end of the loop
  there are no later moments, and the links are those of the list that is left (`CourseEnds`).

`JamPurge_proofs` holds for every number of headers and crashes, under the assumptions of `JamPurge`.

* `TypeCorrect`: `TypeOK`.
* `CountInvariant`: `CountInv` is inductive.  It relates the three counts, ActiveMsgs in memory and on disk and
  the entries of the index, at each of the three writes of a deletion, and says
  which headers are marked but not cleared.
* `DriftExact` and `MarkedFirst` follow: `ActiveMsgsDrift` and `MarkedBeforeCleared`.
* `KeywordsEnforced`: `Enforced`, crashes included, from the same fact about the entries that the loop has passed (`Passed`); `MaxKept` is
  part of the invariant.
* `PurgeImplemented`: `JamPurge` implements `Purge`, crashes included; `CountInv` ties ActiveMsgs to
  `live` and `uncounted`.

`JamPack_proofs` holds for every set of messages, every BaseMsgNum and every number of users, under `JamPackAssumption`: there are finitely many messages, and their
numbers are dwords.

* `Invariance`: `IInv` is inductive.  `Once`: the index names each message once, also after a pack.  During a pack, `Counted` ties the counters and tables in memory to the new index;
  `Copied` says that it holds the live messages among the entries in front of `Ahead`, in their order and numbered; `Delta` that delta and the messages copied so far make up the
  number of the last entry, or less if a header was rejected.  `FewMovedOver` is what makes `ReadAgainBounded` inductive: for every last read number, the messages
  up to it whose new number plus delta is higher are no more than the entries cleared behind it.  Each cleared entry raises delta by one, which moves at
  most one more message over a number behind that entry, and none over another number.  `LeavesOut` says when delta is 0: as long as numbers begin with 1 and no cleared entry
  was passed.  So at the end it decides whether there is a new last read number for each user or for none (`LastReadsMoved`).
* `Typed`, `Renumbered`, `LastReadsErr`: `TypeOK`, `LiveRenumbered` and `LastReadsErrBack`.

`PackFix_proofs` is about pack and fix.  Its first part, on `SquishRepair`, holds for every set of messages with texts of any length, every index over
their frames, any number of damaged cells and refused messages, under `SquishFileAssumption` and `SquishFixAssumption` (types of the constants, finitely many messages).

* `RepairInvariance`: `RepairInv` is inductive.  `Packed` and `Fixed` alone say nothing before the last moment.  `FileSound` says what the file
  promises to both: no XMSG is in it twice, the frames of the index are in front of `end_frame` and apart from each other, what the tosser has
  written so far is behind it, piece by piece in its place, and unless something was damaged there are no messages behind that.
  `GoneSound` says that what pack has left out is neither in the file nor in the new base, and `Idle` that no memory is left when hptutil does not run.
* `PackSound` carries a pack from entry to entry.  `Copied`: the new index holds the messages among the first `i` entries at their places, header and text.  `Chained`: their frames are
  one behind the other and linked.  `Origins`: each new XMSG is from an entry that was read, so that none is there twice.  `LastRead` says what is in `sqidx` and `sqhdr`, which
  `ClearTail` makes use of: an old offset, which by `NotReached` is behind the new end if the index is in the order of the file (`InOrderUnspoilt`).  When the tail is
  cleared, `NewSound` is `FileSound` of the new files.
* `FixSound` carries a fix from header to header.  `StillWhole`: a message that was whole is still where it was, and its text is still followed by what ends it, whatever the tosser writes.
  `Stands`: a message in front of `pos` is in the new base once, with its text, or was refused; one behind it is not yet there.  The headers in front of
  `pos` were found one after the other, and a header is no part of a text, so that none is passed over (`findHdrId`).
* What fix makes of a text that is all there is in `CleanRead` and `CleanText`: whatever ends it, what is scanned is the message's own cells, and
  others only behind the NUL of its text; the two parts that `formatMsg` makes of it are all of it, and where control info ends with its line, each
  cell is in the part that it belongs to (`BodyOf`, from where its first line without `\001` begins).  Of a message with more lines nothing is proved but that it is stored.
* The initial files are the values of a recursive function (`FileOf`).  Its facts, as that no message is twice in such a file, are carried from frame to frame
  with `RowExists` and `InductionOverSet` of `DateSort_proofs`.
* `RepairTyped`, `PackDone`, `FixRecovers`, `GoneForGood`: `RepairTypeOK`, `Packed`, `Fixed` and `GoneStaysAway`.

The second part, on `PackFiles`, holds for every number of parts, packers, packs, messages and crashes.

* `FilesTyped`: `TypeOK`.
* `FilesInvariance`: `FilesInv` is inductive.  A packer that has opened an old file has it, whoever else runs (`OldOpen`).  As long as packs have not
  overlapped and none was started on what another one had torn (`Promised`), `Safe` says where the mail is: a packer has the files open that the names lead to (`OpenFiles`);
  what it has copied or has still to copy is all there is (`Copying`); the old files hold everything until the first of them is
  removed (`OldFiles`), the new ones from then on (`Removing`), part by part under their new name (`Renaming`); and what a death in between
  leaves (`TornFiles`).  `MailKept` alone is not inductive: it speaks only of moments at which no pack runs.
* `NoMailLost`, `MailRecoverable`: `MailKept` and `Recoverable` follow.

`Hptutil_proofs` holds for every configuration, every command line and every number of areas and lists (`HptutilAssumption`: the types of
these, finitely many areas).

* `Typed`: `TypeOK`.  `TypeInv` adds which commands are left, that the list which is read is the one of the current command, and that it is
  not read past its end.
* `ListDealtWith`: `RemovedWhenRead`.  `LinesDone` says that the lines of a list in front of the current one are dealt with, and at its end all
  but the late ones.
* `FreshAreasListed`: `FreshListed`, if `-i` never names the importlog of fidoconfig (`OwnLists`; else the list that another command removes is the one that
  link needs).  `FreshInv` adds that, while link reads the list, the areas with new mail are in what it has still to read.

`DateSort_proofs`: `SortByDateSorts`, the list that `AddSQSORT` and `AddJAMSORT` build holds each message once, by date, those of one date
in reversed order, for every list of messages.  The sort is a recursive function, and the lemmas `InductionOverSet` and `InductionOverRow`
take the place of the induction theorems of the library: they speak of a set instead of a predicate and follow from the least number
outside of it.  `NewPlaceBijection` says that the places that `IsSortOf` gives to the messages are all different and all taken.

`SquishChains_proofs` holds for every number of messages, ids, users, runs and crashes, under the assumptions of `SquishArea`,
`SquishLink` and `SquishChains`; `SquishArea` assumes that umsgids fit in a dword, and that "none" is not a serial number.

* `Invariance`: `IInv` is inductive.  `Area` relates index, frames and umsgids, and `Memory` says what is in memory outside of a sort.
  During a sort, the list in memory is what is left of the new order (`Progress`); the entries up to `idxPos` name
  the messages of the new order and the others what they named when the lock was taken (`Written`); and a message that was
  written has no links and the number of its new place (`Renumbered`).  `SortResult` speaks only of the end; without the three
  parts nothing would be known of the steps before it.
* `Typed`, `AscendAlways`, `MissingMoved`, `SortDone`: `TypeOK`, `UmsgidsAscend`, `MissingMovesBack` and `SortResult`.
* `LinkInvariance`: `LinkInv` adds what link needs.  `Linking`: there are XMSG, those at the start of the link, such that the table in memory is what
  there is to find in them, and unless the index names a message twice, `goal` is what writing all marked entries makes of them, and the
  messages of the first `i - 1` entries are as in `goal`, the others as at the start.  `LastPlaceEmpty`: the last place for a reply is always 0; link leaves it out when it compares, but overwrites it,
  so without this a second link could change something.  `TossedOnly`: index and `sorted` name only messages that were tossed, which a toss does not change.
  `SortedLead`: links of messages in `sorted` lead to messages that answer or are answered.
* What link finds is known in closed form (`LinkAllFinds`): after turn `k` of the outer loop and `ii` of the inner one, the replies of an entry are
  those of the pairs compared so far.  `LinkAllInduction` carries it from pair to pair.
* `LinkRepeated`, `LinkFinds`, `SortedLinks`: `LinkRepeatable`, `RepliesFound` and `SortedLinked`.

`JamChains_proofs` does the same for Jam, for every BaseMsgNum, and for a dword of every size that numbers fit in.

* `Invariance`: the parts of `IInv` are `Area`, `Memory`, `Progress` and `Written` as above; `Marks`, which keeps the last read numbers
  within the index while nobody reads on during a sort, and finds the culprit if the index grows; `Counted`, the numbers in the headers that were
  written; and `Placed`, which says that numbers are places unless `skewed`.
* `Typed`, `NumbersStay`, `GrowsOutside`, `SortDone`: `TypeOK`, `NumbersMatch`, `GrowsOnlyOutside` and `SortResult`.
* `LinkInvariance`: `LinkInv` adds `Linking`, which says the same as in Squish, and `SortedLead`.
* There is no closed form of what link finds in a Jam area, since ReplyNext of one message depends on what was found for another before.
  `LinkAllRuns` unrolls the two recursive functions of `LinkAll` into a table of all turns (`Steps`), `LinkPairFinds` says what one turn
  changes, and `InductionOverTurns` carries a fact from turn to turn.  The facts are: ReplyTo, Reply1st and ReplyNext have their value from the turn
  on in which the pair is compared (`ParentFound`, `FirstFound`, `ChainFound`); whatever is found leads from a reply to what it answers or back
  (`RunLeads`); two links over headers that differ only in links find the same (`SameRuns`), so a link begun in the midst of another
  comes to the same end.
* `LinkRepeated`, `LinkFinds`, `SortedLinks`: `LinkRepeatable`, `LinksFound` and `LinksTrue`.

That link keeps to its types follows from `LinkAllFinds` in Squish, and from `TurnTypes` in Jam.

So each invariant that a run checks is proved for every value of the constants.  Only checked: liveness (`Termination`, `PackAndFixEnd`), which is out of the
provers' reach under fairness.  The runs that expect a counterexample have nothing to prove.

## Not modelled

Build files, ports and the manual; output, the log and the messages of the command line parser; the libraries smapi,
huskylib and fidoconfig, which appear as the steps that read and write records; what is named as left out above.
All components with a state are modelled.
