------------------------------- MODULE Hptutil -------------------------------
(***************************************************************************)
(* The command line of hptutil: main of src/src/hptutil.c and the loops    *)
(* over the areas that it calls (sortAreas, linkAreas, purgeAreas and      *)
(* packAreas).  Each of them works on the areas that a list, the importlog *)
(* file, names, or on all areas of fidoconfig.  The tosser, hpt, adds the  *)
(* areas that got new mail to the importlog of fidoconfig.                 *)
(*                                                                         *)
(* What a command does to the base of an area is the subject of other      *)
(* modules; here an area is only treated or left alone.  Reading a line of *)
(* the list and treating its area is one step, closing and removing the    *)
(* list are two more.                                                      *)
(***************************************************************************)
EXTENDS Integers, Sequences, FiniteSets, SequencesExt

CONSTANTS
  Areas,        \* the names of the areas of fidoconfig
  Lists,        \* the paths of the files that may be lists of areas
  None,         \* no path, no file
  Configs,      \* importlog, LinkWithImportlog, nopack, nolink and ignored
  CommandLines, \* what, keepImportLog and altImportLog
  MaxLines      \* bound: length of a list

Commands == {"sort", "link", "purge", "pack", "fix", "undel"}

ASSUME HptutilAssumption ==
  /\ IsFiniteSet(Areas)
  /\ None \notin Lists /\ None \notin Areas /\ None \notin Seq(Areas)
  /\ Configs \subseteq [importlog : Lists \cup {None},
                        LinkWithImportlog : {"lwiNo", "lwiYes", "lwiKill"},
                        nopack : SUBSET Areas, nolink : SUBSET Areas,
                        ignored : SUBSET Areas]
  /\ CommandLines \subseteq [what : SUBSET Commands, keepImportLog : BOOLEAN,
                             altImportLog : Lists \cup {None}]
  /\ MaxLines \in Nat \ {0}

VARIABLES
  config,   \* fidoconfig; ignored: the areas that are neither Jam nor Squish
  disk,     \* the lists: None, or the names of areas
  argv,     \* the command line
  left,     \* the commands that main has still to call, the current one first
  pc,       \* "idle", "open", "area", "close" or "remove"
  f,        \* the list that the current command reads, None for all areas
  line,     \* the next line of the list, or area of fidoconfig
  fresh,    \* history: the areas with mail that no link has seen
  late,     \* history: the areas added to a list behind its end
  lost,     \* history: those of them whose list was removed
  done      \* history: the steps << command, area >> of this call

vars == << config, disk, argv, left, pc, f, line, fresh, late, lost, done >>

\* The areas of fidoconfig in the order of their declaration.
AllAreas == SetToSeq(Areas)

Init ==
  /\ config \in Configs
  /\ disk = [p \in Lists |-> None]
  /\ argv \in CommandLines
  /\ left = << >> /\ pc = "idle" /\ f = None /\ line = 1
  /\ fresh = {} /\ late = {} /\ lost = {} /\ done = << >>

-----------------------------------------------------------------------------
(* main. *)

Asked(what, c) == IF c \in what THEN << c >> ELSE << >>

\* The order in which main asks for the commands; fix and undel stand alone.
Called(what) ==
  IF "fix" \in what THEN << "fix" >>
  ELSE IF "undel" \in what THEN << "undel" >>
  ELSE Asked(what, "sort") \o Asked(what, "link")
       \o Asked(what, "purge") \o Asked(what, "pack")

Start ==
  /\ pc = "idle"
  /\ argv' \in CommandLines
  /\ Called(argv'.what) # << >>
  /\ left' = Called(argv'.what)
  /\ pc' = "open"
  /\ done' = << >>
  /\ UNCHANGED << config, disk, f, line, fresh, late, lost >>

-----------------------------------------------------------------------------
(* sortAreas, linkAreas, purgeAreas, packAreas. *)

\* main replaces config->importlog by the file of the option -i; purgeAreas
\* and packAreas know only that option.
ImportLog ==
  IF argv.altImportLog # None THEN argv.altImportLog ELSE config.importlog

SortList == ImportLog
LinkList == IF config.LinkWithImportlog = "lwiNo" THEN None ELSE ImportLog
PurgeList == argv.altImportLog
PackList == argv.altImportLog

ListOf(c) ==
  CASE c = "sort" -> SortList
    [] c = "link" -> LinkList
    [] c = "purge" -> PurgeList
    [] c = "pack" -> PackList

Lines == IF f = None THEN AllAreas ELSE disk[f]

\* Fault: the result of fopen is not looked at.
OpenedUnchecked(c) == ListOf(c)

\* A list that cannot be opened counts for all areas.
Opened(c) ==
  IF ListOf(c) # None /\ disk[ListOf(c)] # None THEN ListOf(c) ELSE None

OpenList ==
  /\ pc = "open"
  /\ Head(left) \in {"sort", "link", "purge", "pack"}
  /\ f' = Opened(Head(left))
  /\ line' = 1
  /\ pc' = "area"
  /\ UNCHANGED << config, disk, argv, left, fresh, late, lost, done >>

\* fixArea works on the base that the command line names, undeleteMsgs on none.
NoAreas ==
  /\ pc = "open"
  /\ Head(left) \in {"fix", "undel"}
  /\ left' = Tail(left)
  /\ pc' = "idle"
  /\ UNCHANGED << config, disk, argv, f, line, fresh, late, lost, done >>

\* linkArea, purgeArea and packArea look for nolink and nopack; all four want
\* a Jam or a Squish base.
SortTreats(a) == a \notin config.ignored
LinkTreats(a) == a \notin config.nolink \cup config.ignored
PurgeTreats(a) == a \notin config.nopack \cup config.ignored
PackTreats(a) == a \notin config.nopack \cup config.ignored

Treated(c, a) ==
  CASE c = "sort" -> SortTreats(a)
    [] c = "link" -> LinkTreats(a)
    [] c = "purge" -> PurgeTreats(a)
    [] c = "pack" -> PackTreats(a)

\* The file is read while the areas are treated.
Area ==
  /\ pc = "area" /\ line <= Len(Lines)
  /\ LET c == Head(left)  a == Lines[line]
     IN  IF Treated(c, a)
         THEN /\ done' = Append(done, << c, a >>)
              /\ fresh' = IF c = "link" THEN fresh \ {a} ELSE fresh
         ELSE UNCHANGED << done, fresh >>
  /\ line' = line + 1
  /\ UNCHANGED << config, disk, argv, left, pc, f, late, lost >>

\* Fault: sortAreas removes the list too.
RemovesAfterSort ==
  f # None /\ config.LinkWithImportlog = "lwiKill" /\ ~argv.keepImportLog

\* sortAreas never removes the list.
Removes ==
  /\ f # None /\ Head(left) # "sort"
  /\ config.LinkWithImportlog = "lwiKill" /\ ~argv.keepImportLog

\* Fault: the last line of the list is left out.
AtEndEarly == line >= Len(Lines)

AtEnd == line > Len(Lines)

CloseList ==
  /\ pc = "area" /\ AtEnd
  /\ pc' = "close"
  /\ UNCHANGED << config, disk, argv, left, f, line, fresh, late, lost, done >>

NextCommand ==
  /\ left' = Tail(left)
  /\ pc' = IF Tail(left) = << >> THEN "idle" ELSE "open"
  /\ f' = None /\ line' = 1 /\ late' = {}

RemoveList ==
  /\ pc = "close"
  /\ disk' = IF Removes THEN [disk EXCEPT ![f] = None] ELSE disk
  /\ lost' = IF Removes THEN lost \cup late ELSE lost
  /\ NextCommand
  /\ UNCHANGED << config, argv, fresh, done >>

-----------------------------------------------------------------------------
(* Other processes. *)

\* The tosser puts mail into an area and adds its name to the importlog of
\* fidoconfig.
Toss ==
  \E a \in Areas \ (config.nolink \cup config.ignored) :
    LET log == config.importlog
        names == IF log = None \/ disk[log] = None THEN << >> ELSE disk[log]
    IN  /\ Len(names) < MaxLines
        /\ fresh' = fresh \cup {a}
        /\ disk' = IF log = None THEN disk
                   ELSE [disk EXCEPT ![log] = Append(names, a)]
        /\ late' = IF pc = "close" /\ f = log THEN late \cup {a} ELSE late
        /\ lost' = lost \ {a}
        /\ UNCHANGED << config, argv, left, pc, f, line, done >>

\* The sysop writes a list of his own.
WriteList ==
  /\ pc = "idle"
  /\ \E p \in Lists \ {config.importlog}, a \in Areas :
       disk' = [disk EXCEPT ![p] = << a >>]
  /\ UNCHANGED << config, argv, left, pc, f, line, fresh, late, lost, done >>

\* The program is killed.
Kill ==
  /\ pc # "idle"
  /\ left' = << >> /\ pc' = "idle" /\ f' = None /\ line' = 1 /\ late' = {}
  /\ UNCHANGED << config, disk, argv, fresh, lost, done >>

-----------------------------------------------------------------------------
Run == Start \/ OpenList \/ NoAreas \/ Area \/ CloseList \/ RemoveList

\* The tosser and hptutil know nothing of each other.
Next == Run \/ WriteList \/ Kill \/ Toss

Spec == Init /\ [][Next]_vars

-----------------------------------------------------------------------------
(* Properties. *)

\* The variables have their types, and the program has a command left to do
\* exactly while it runs (hptutil.c:418-447).
TypeOK ==
  /\ config \in Configs
  /\ disk \in [Lists -> Seq(Areas) \cup {None}]
  /\ argv \in CommandLines
  /\ left \in Seq(Commands)
  /\ pc \in {"idle", "open", "area", "close"}
  /\ (pc = "idle") = (left = << >>)
  /\ f \in Lists \cup {None}
  /\ line \in 1 .. MaxLines + Len(AllAreas) + 1
  /\ f # None => disk[f] # None
  /\ fresh \subseteq Areas
  /\ late \subseteq Areas /\ lost \subseteq Areas
  /\ done \in Seq(Commands \X Areas)

\* As long as -i never names the importlog of fidoconfig, the next "hptutil
\* link" reaches all new mail, whatever commands ran, failed or were killed
\* before: the areas with new mail are listed, or there is no list.  Only what
\* the tosser adds between the last read and the removal of the list is lost
\* (linkarea.c:706-762, purgearea.c:630-633, packarea.c:744-747).
FreshListed ==
  config.importlog # None =>
    \/ disk[config.importlog] = None
    \/ fresh \ lost \subseteq ToSet(disk[config.importlog])

\* A list is removed only when the command has come to the end of it, so that
\* each of its areas was treated or is not to be treated - except for areas
\* that the tosser adds between the last read and the removal
\* (linkarea.c:721-758).
RemovedWhenRead ==
  [][\A p \in Lists :
        disk[p] # None /\ disk'[p] = None =>
          \A a \in ToSet(disk[p]) \ late :
             Treated(Head(left), a) => << Head(left), a >> \in ToSet(done)]_vars
=============================================================================
