---------------------------- MODULE Hptutil_proofs ----------------------------
(***************************************************************************)
(* Proofs about Hptutil, for every set of areas and of lists, every        *)
(* fidoconfig and every sequence of calls, with the tosser, the sysop and  *)
(* kills in between.                                                       *)
(***************************************************************************)
EXTENDS Hptutil, SequenceTheorems, FiniteSetTheorems, TLAPS

-----------------------------------------------------------------------------
(* The inductive invariant. *)

AreaCommands == {"sort", "link", "purge", "pack"}

\* fix and undel are called alone, the others one after the other.
CommandsLeft == left \in {<< >>, << "fix" >>, << "undel" >>} \cup Seq(AreaCommands)

\* The list that is read is the one of the current command.
ListOpen ==
  IF pc \in {"area", "close"}
  THEN left \in Seq(AreaCommands) /\ f \in {None, ListOf(Head(left))}
  ELSE f = None

\* The program does not read past the end of a list.
LineOfList ==
  /\ \A p \in Lists : disk[p] # None => Len(disk[p]) <= MaxLines
  /\ pc = "area" => line <= Len(Lines) + 1

\* The lines before the current one, and at the end of the list all of them but
\* the late ones, are dealt with.
LinesDone ==
  f # None =>
    \A i \in 1 .. Len(disk[f]) :
      \/ pc = "area" /\ i >= line
      \/ pc = "close" /\ disk[f][i] \in late
      \/ Treated(Head(left), disk[f][i]) => << Head(left), disk[f][i] >> \in ToSet(done)

TypeInv == TypeOK /\ CommandsLeft /\ ListOpen /\ LineOfList

\* The option -i never names the importlog of fidoconfig.
OwnLists ==
  \A c \in Configs, a \in CommandLines :
    a.altImportLog # None => a.altImportLog # c.importlog

\* The areas with new mail are areas that link treats.
FreshLinked == fresh \cap (config.nolink \cup config.ignored) = {}

\* They are in the list, or there is none and they were lost with it.
FreshInList ==
  config.importlog # None =>
    IF disk[config.importlog] = None THEN fresh \subseteq lost
    ELSE fresh \ lost \subseteq ToSet(disk[config.importlog])

\* While link reads the list, they are in what it has still to read.
FreshAhead ==
  f # None /\ f = config.importlog /\ Head(left) = "link" =>
    /\ pc = "area" => \A a \in fresh \ lost :
                        \E i \in line .. Len(disk[f]) : disk[f][i] = a
    /\ pc = "close" => fresh \ lost \subseteq late

FreshInv == FreshLinked /\ FreshInList /\ FreshAhead

-----------------------------------------------------------------------------
(* Lists. *)

LEMMA ToSetOfSeq ==
  ASSUME NEW S, NEW s \in Seq(S)
  PROVE  ToSet(s) = {s[i] : i \in 1 .. Len(s)}
BY LenProperties DEF ToSet

LEMMA ToSetAppend ==
  ASSUME NEW S, NEW s \in Seq(S), NEW e \in S
  PROVE  ToSet(Append(s, e)) = ToSet(s) \cup {e}
<1> DEFINE t == Append(s, e)
<1>1. /\ t \in Seq(S) /\ Len(s) \in Nat /\ Len(t) = Len(s) + 1
      /\ \A i \in 1 .. Len(s) : t[i] = s[i]
      /\ t[Len(s) + 1] = e
  BY AppendProperties, LenProperties
<1>2. ToSet(t) = {t[i] : i \in 1 .. Len(t)} /\ ToSet(s) = {s[i] : i \in 1 .. Len(s)}
  BY <1>1, ToSetOfSeq
<1> HIDE DEF t
<1>3. ASSUME NEW x \in ToSet(t) PROVE x \in ToSet(s) \cup {e}
  BY <1>1, <1>2, <1>3
<1>4. ASSUME NEW x \in ToSet(s) \cup {e} PROVE x \in ToSet(t)
  <2>1. CASE x = e
    BY <2>1, <1>1, <1>2
  <2>2. CASE x \in ToSet(s)
    <3>1. PICK i \in 1 .. Len(s) : x = s[i]
      BY <2>2, <1>2
    <3>2. i \in 1 .. Len(t) /\ t[i] = x
      BY <3>1, <1>1
    <3> QED
      BY <3>2, <1>2
  <2> QED
    BY <2>1, <2>2, <1>4
<1> QED
  BY <1>3, <1>4 DEF t

\* The areas of fidoconfig in some order.
LEMMA AllAreasType == AllAreas \in Seq(Areas) /\ Len(AllAreas) \in Nat
<1> DEFINE n == Cardinality(Areas)
<1>1. n \in Nat /\ IsFiniteSet(Areas)
  BY HptutilAssumption, FS_CardinalityType
<1>2. \E g : g \in [1 .. n -> Areas] /\ IsInjective(g)
  <2>1. PICK g : g \in Bijection(1 .. n, Areas)
    BY <1>1, FS_NatBijection, FS_CountingElements DEF ExistsBijection
  <2> QED
    BY <2>1 DEF Bijection, Injection, IsInjective
<1>3. AllAreas \in [1 .. n -> Areas]
  BY <1>2 DEF AllAreas, SetToSeq
<1> QED
  BY <1>1, <1>3

\* The commands that main calls: fix or undel alone, or some of the others.
LEMMA CalledType ==
  ASSUME NEW what
  PROVE  Called(what) \in {<< "fix" >>, << "undel" >>} \cup Seq(AreaCommands)
<1>1. \A c \in AreaCommands : Asked(what, c) \in Seq(AreaCommands)
  BY DEF Asked
<1>2. /\ Asked(what, "sort") \in Seq(AreaCommands) /\ Asked(what, "link") \in Seq(AreaCommands)
      /\ Asked(what, "purge") \in Seq(AreaCommands) /\ Asked(what, "pack") \in Seq(AreaCommands)
  BY <1>1 DEF AreaCommands
<1>3. \A s, t \in Seq(AreaCommands) : s \o t \in Seq(AreaCommands)
  BY ConcatProperties
<1>4. Asked(what, "sort") \o Asked(what, "link") \in Seq(AreaCommands)
  BY <1>2, <1>3
<1>5. Asked(what, "sort") \o Asked(what, "link") \o Asked(what, "purge") \in Seq(AreaCommands)
  BY <1>2, <1>3, <1>4
<1>6. Asked(what, "sort") \o Asked(what, "link") \o Asked(what, "purge")
        \o Asked(what, "pack") \in Seq(AreaCommands)
  BY <1>2, <1>3, <1>5
<1> QED
  BY <1>6 DEF Called

-----------------------------------------------------------------------------
(* Types. *)

LEMMA ListOfType ==
  ASSUME TypeOK, NEW c \in AreaCommands
  PROVE  ListOf(c) \in Lists \cup {None}
<1>1. argv \in [what : SUBSET Commands, keepImportLog : BOOLEAN,
                altImportLog : Lists \cup {None}]
  BY HptutilAssumption DEF TypeOK
<1>2. config \in [importlog : Lists \cup {None},
                  LinkWithImportlog : {"lwiNo", "lwiYes", "lwiKill"},
                  nopack : SUBSET Areas, nolink : SUBSET Areas,
                  ignored : SUBSET Areas]
  BY HptutilAssumption DEF TypeOK
<1>3. argv.altImportLog \in Lists \cup {None} /\ config.importlog \in Lists \cup {None}
  BY <1>1, <1>2
<1> QED
  BY <1>3 DEF ListOf, SortList, LinkList, PurgeList, PackList, ImportLog, AreaCommands

\* A list that is open is a list of areas, also when all areas count for one.
LEMMA LinesType ==
  ASSUME TypeInv
  PROVE  /\ Lines \in Seq(Areas) /\ Len(Lines) \in Nat
         /\ Len(Lines) <= MaxLines + Len(AllAreas)
<1>1. CASE f = None
  BY <1>1, AllAreasType, HptutilAssumption DEF Lines
<1>2. CASE f # None
  <2>1. disk[f] \in Seq(Areas) /\ Len(disk[f]) <= MaxLines
    BY <1>2 DEF TypeInv, TypeOK, LineOfList
  <2> QED
    BY <2>1, <1>2, AllAreasType, LenProperties, HptutilAssumption DEF Lines
<1> QED
  BY <1>1, <1>2

\* The list of the tosser, and what he makes of it.
LEMMA TossedList ==
  ASSUME TypeInv, Toss
  PROVE  \E a \in Areas \ (config.nolink \cup config.ignored) :
           LET log == config.importlog
               names == IF log = None \/ disk[log] = None THEN << >> ELSE disk[log]
           IN  /\ names \in Seq(Areas) /\ Len(names) < MaxLines
               /\ fresh' = fresh \cup {a}
               /\ disk' = IF log = None THEN disk
                          ELSE [disk EXCEPT ![log] = Append(names, a)]
               /\ log \in Lists \cup {None}
               /\ late' = IF pc = "close" /\ f = log THEN late \cup {a} ELSE late
               /\ lost' = lost \ {a}
               /\ UNCHANGED << config, argv, left, pc, f, line, done >>
<1>1. config \in [importlog : Lists \cup {None},
                  LinkWithImportlog : {"lwiNo", "lwiYes", "lwiKill"},
                  nopack : SUBSET Areas, nolink : SUBSET Areas,
                  ignored : SUBSET Areas]
  BY HptutilAssumption DEF TypeInv, TypeOK
<1>2. config.importlog \in Lists \cup {None}
  BY <1>1
<1>3. disk \in [Lists -> Seq(Areas) \cup {None}]
  BY DEF TypeInv, TypeOK
<1>4. << >> \in Seq(Areas)
  OBVIOUS
<1> QED
  BY <1>2, <1>3, <1>4 DEF Toss

LEMMA InitTypeInv == Init => TypeInv
<1> SUFFICES ASSUME Init PROVE TypeInv
  OBVIOUS
<1>1. 1 \in 1 .. MaxLines + Len(AllAreas) + 1
  BY AllAreasType, HptutilAssumption
<1>2. TypeOK
  BY <1>1 DEF Init, TypeOK
<1>3. CommandsLeft /\ ListOpen /\ LineOfList
  BY DEF Init, CommandsLeft, ListOpen, LineOfList
<1> QED
  BY <1>2, <1>3 DEF TypeInv

\* The steps of the program keep the types, and the list within its bounds.
LEMMA RunTypeInv ==
  ASSUME TypeInv, Run
  PROVE  TypeInv'
<1> USE HptutilAssumption, AllAreasType
<1>0. /\ TypeOK /\ CommandsLeft /\ ListOpen /\ LineOfList
      /\ 1 \in 1 .. MaxLines + Len(AllAreas) + 1
      /\ left \in Seq(Commands) /\ AreaCommands \subseteq Commands
  BY DEF TypeInv, TypeOK, AreaCommands, Commands
<1>1. CASE Start
  <2>1. /\ left' \in {<< "fix" >>, << "undel" >>} \cup Seq(AreaCommands) /\ left' # << >>
    BY <1>1, CalledType DEF Start
  <2>2. left' \in Seq(Commands)
    <3>1. << "fix" >> \in Seq(Commands) /\ << "undel" >> \in Seq(Commands)
      BY DEF Commands
    <3>2. left' \in Seq(AreaCommands) => left' \in Seq(Commands)
      BY <1>0, SeqMonotonic
    <3> QED
      BY <2>1, <3>1, <3>2
  <2>3. << >> \in Seq(Commands \X Areas)
    OBVIOUS
  <2> QED
    BY <2>1, <2>2, <2>3, <1>0, <1>1
       DEF Start, TypeInv, TypeOK, CommandsLeft, ListOpen, LineOfList
<1>2. CASE OpenList
  <2>1. left \in Seq(AreaCommands) /\ Head(left) \in AreaCommands /\ left # << >>
    <3>1. left # << >> /\ Head(left) \notin {"fix", "undel"}
      BY <1>0, <1>2 DEF OpenList, TypeOK
    <3>2. left \in Seq(AreaCommands)
      BY <1>0, <3>1 DEF CommandsLeft
    <3> QED
      BY <3>1, <3>2, HeadTailProperties
  <2>2. ListOf(Head(left)) \in Lists \cup {None}
    BY <2>1, <1>0, ListOfType
  <2>3. /\ f' = Opened(Head(left)) /\ line' = 1 /\ pc' = "area"
        /\ UNCHANGED << config, disk, argv, left, fresh, late, lost, done >>
    BY <1>2 DEF OpenList
  <2>4. f' \in {None, ListOf(Head(left))} /\ (f' # None => disk[f'] # None)
    BY <2>3 DEF Opened
  <2>5. ListOpen'
    <3>1. ListOf(Head(left))' = ListOf(Head(left))
      BY <2>3 DEF ListOf, SortList, LinkList, PurgeList, PackList, ImportLog
    <3> QED
      BY <2>1, <2>3, <2>4, <3>1 DEF ListOpen
  <2>6. TypeOK' /\ CommandsLeft'
    BY <1>0, <2>1, <2>2, <2>3, <2>4 DEF TypeOK, CommandsLeft
  <2>7. line' <= Len(Lines)' + 1
    <3>1. CASE f' = None
      BY <3>1, <2>3 DEF Lines
    <3>2. CASE f' # None
      <4>1. disk'[f'] \in Seq(Areas)
        BY <2>2, <2>3, <2>4, <3>2, <1>0 DEF TypeOK
      <4>2. Len(disk'[f']) \in Nat
        BY <4>1, LenProperties
      <4> QED
        BY <4>2, <3>2, <2>3 DEF Lines
    <3> QED
      BY <3>1, <3>2
  <2> QED
    BY <2>3, <2>5, <2>6, <2>7, <1>0 DEF TypeInv, LineOfList
<1>3. CASE NoAreas
  <2>1. left \in {<< "fix" >>, << "undel" >>} /\ Tail(left) = << >>
    <3>1. left # << >> /\ Head(left) \notin AreaCommands
      BY <1>0, <1>3 DEF NoAreas, TypeOK, AreaCommands
    <3>2. left \notin Seq(AreaCommands)
      BY <3>1, HeadTailProperties
    <3>3. left \in {<< "fix" >>, << "undel" >>}
      BY <3>1, <3>2, <1>0 DEF CommandsLeft
    <3>4. left \in Seq(Commands) /\ Len(left) = 1
      BY <3>3, <1>0
    <3>5. Tail(left) \in Seq(Commands) /\ Len(Tail(left)) = 0
      BY <3>1, <3>4, HeadTailProperties
    <3> QED
      BY <3>3, <3>5, EmptySeq
  <2>2. << >> \in Seq(Commands)
    OBVIOUS
  <2> QED
    BY <2>1, <2>2, <1>0, <1>3 DEF NoAreas, TypeInv, TypeOK, CommandsLeft, ListOpen, LineOfList
<1>4. CASE Area
  <2>1. /\ pc = "area" /\ line <= Len(Lines) /\ line' = line + 1
        /\ UNCHANGED << config, disk, argv, left, pc, f, late, lost >>
    BY <1>4 DEF Area
  <2>2. Lines \in Seq(Areas) /\ Len(Lines) \in Nat /\ Len(Lines) <= MaxLines + Len(AllAreas)
    BY LinesType
  <2>3. line \in 1 .. Len(Lines) /\ line' \in 1 .. MaxLines + Len(AllAreas) + 1
    BY <2>1, <2>2, <1>0 DEF TypeOK
  <2>4. Lines[line] \in Areas
    BY <2>2, <2>3, ElementOfSeq
  <2>5. Head(left) \in Commands
    BY <2>1, <1>0, HeadTailProperties DEF TypeOK
  <2>6. done' \in Seq(Commands \X Areas) /\ fresh' \subseteq Areas
    <3>1. << Head(left), Lines[line] >> \in Commands \X Areas /\ done \in Seq(Commands \X Areas)
      BY <2>4, <2>5, <1>0 DEF TypeOK
    <3>2. Append(done, << Head(left), Lines[line] >>) \in Seq(Commands \X Areas)
      BY <3>1, AppendProperties
    <3> QED
      BY <3>1, <3>2, <1>0, <1>4 DEF Area, TypeOK
  <2>7. TypeOK'
    BY <2>1, <2>3, <2>6, <1>0 DEF TypeOK
  <2>8. Lines' = Lines /\ line' <= Len(Lines)' + 1
    BY <2>1, <2>2, <2>3 DEF Lines
  <2>9. ListOpen'
    <3>1. ListOf(Head(left))' = ListOf(Head(left))
      BY <2>1 DEF ListOf, SortList, LinkList, PurgeList, PackList, ImportLog
    <3> QED
      BY <2>1, <3>1, <1>0 DEF ListOpen
  <2> QED
    BY <2>1, <2>7, <2>8, <2>9, <1>0 DEF TypeInv, CommandsLeft, LineOfList
<1>5. CASE CloseList
  <2>1. /\ pc = "area" /\ pc' = "close"
        /\ UNCHANGED << config, disk, argv, left, f, line, fresh, late, lost, done >>
    BY <1>5 DEF CloseList
  <2>2. ListOf(Head(left))' = ListOf(Head(left))
    BY <2>1 DEF ListOf, SortList, LinkList, PurgeList, PackList, ImportLog
  <2>3. ListOpen'
    BY <2>1, <2>2, <1>0 DEF ListOpen
  <2> QED
    BY <2>1, <2>3, <1>0 DEF TypeInv, TypeOK, CommandsLeft, LineOfList
<1>6. CASE RemoveList
  <2>1. left # << >> /\ left \in Seq(AreaCommands)
    BY <1>0, <1>6 DEF RemoveList, ListOpen, TypeOK
  <2>2. Tail(left) \in Seq(AreaCommands) /\ Tail(left) \in Seq(Commands)
    BY <2>1, <1>0, HeadTailProperties DEF TypeOK
  <2>3. /\ left' = Tail(left) /\ pc' = IF Tail(left) = << >> THEN "idle" ELSE "open"
        /\ f' = None /\ line' = 1 /\ late' = {}
        /\ UNCHANGED << config, argv, fresh, done >>
    BY <1>6 DEF RemoveList, NextCommand
  <2>4. /\ disk' \in [Lists -> Seq(Areas) \cup {None}]
        /\ \A p \in Lists : disk'[p] \in {disk[p], None}
    BY <1>0, <1>6 DEF RemoveList, TypeOK
  <2>5. lost' \subseteq Areas
    BY <1>0, <1>6 DEF RemoveList, TypeOK
  <2> QED
    BY <2>2, <2>3, <2>4, <2>5, <1>0 DEF TypeInv, TypeOK, CommandsLeft, ListOpen, LineOfList
<1> QED
  BY <1>1, <1>2, <1>3, <1>4, <1>5, <1>6 DEF Run

\* So do the steps of the tosser and the sysop, and a kill.
LEMMA OthersTypeInv ==
  ASSUME TypeInv, Toss \/ WriteList \/ Kill
  PROVE  TypeInv'
<1> USE HptutilAssumption, AllAreasType
<1>0. /\ TypeOK /\ CommandsLeft /\ ListOpen /\ LineOfList
      /\ 1 \in 1 .. MaxLines + Len(AllAreas) + 1
      /\ disk \in [Lists -> Seq(Areas) \cup {None}]
  BY DEF TypeInv, TypeOK
<1>1. CASE Toss
  <2> DEFINE log == config.importlog
             names == IF log = None \/ disk[log] = None THEN << >> ELSE disk[log]
  <2>1. PICK a \in Areas \ (config.nolink \cup config.ignored) :
          /\ names \in Seq(Areas) /\ Len(names) < MaxLines
          /\ fresh' = fresh \cup {a}
          /\ disk' = IF log = None THEN disk ELSE [disk EXCEPT ![log] = Append(names, a)]
          /\ log \in Lists \cup {None}
          /\ late' = IF pc = "close" /\ f = log THEN late \cup {a} ELSE late
          /\ lost' = lost \ {a}
          /\ UNCHANGED << config, argv, left, pc, f, line, done >>
    BY <1>1, TossedList
  <2>2. /\ Append(names, a) \in Seq(Areas) /\ Len(Append(names, a)) = Len(names) + 1
        /\ Len(names) \in Nat /\ Append(names, a) # None
    <3>1. /\ Append(names, a) \in Seq(Areas) /\ Len(Append(names, a)) = Len(names) + 1
          /\ Len(names) \in Nat
      BY <2>1, AppendProperties, LenProperties
    <3> QED
      BY <3>1
  <2>3. /\ disk' \in [Lists -> Seq(Areas) \cup {None}]
        /\ \A p \in Lists : \/ disk'[p] = disk[p]
                            \/ p = log /\ disk'[p] = Append(names, a)
    BY <2>1, <2>2, <1>0
  <2>4. \A p \in Lists : disk[p] # None => disk'[p] # None /\ Len(disk[p]) <= Len(disk'[p])
    BY <2>1, <2>2, <2>3, <1>0
  <2>5. \A p \in Lists : disk'[p] # None => Len(disk'[p]) <= MaxLines
    BY <2>1, <2>2, <2>3, <1>0 DEF LineOfList
  <2>6. ListOpen'
    <3>1. ListOf(Head(left))' = ListOf(Head(left))
      BY <2>1 DEF ListOf, SortList, LinkList, PurgeList, PackList, ImportLog
    <3> QED
      BY <2>1, <3>1, <1>0 DEF ListOpen
  <2>7. pc = "area" => line' <= Len(Lines)' + 1
    <3>1. CASE f = None
      BY <3>1, <2>1, <1>0 DEF Lines, LineOfList
    <3>2. CASE f # None
      <4>1. f \in Lists /\ disk[f] # None
        BY <3>2, <1>0 DEF TypeOK
      <4>2. disk[f] \in Seq(Areas) /\ disk'[f] \in Seq(Areas)
        BY <4>1, <2>3, <2>4, <1>0
      <4>3. Len(disk[f]) \in Nat /\ Len(disk'[f]) \in Nat
        BY <4>2, LenProperties
      <4>4. Len(disk[f]) <= Len(disk'[f])
        BY <4>1, <2>4
      <4>5. pc = "area" => line <= Len(disk[f]) + 1
        BY <3>2, <1>0 DEF Lines, LineOfList
      <4> QED
        BY <3>2, <4>3, <4>4, <4>5, <2>1, <1>0 DEF Lines, TypeOK
    <3> QED
      BY <3>1, <3>2
  <2>8. TypeOK'
    BY <2>1, <2>3, <2>4, <1>0 DEF TypeOK
  <2> QED
    BY <2>1, <2>5, <2>6, <2>7, <2>8, <1>0 DEF TypeInv, CommandsLeft, LineOfList
<1>2. CASE WriteList
  <2>1. PICK p \in Lists, a \in Areas : disk' = [disk EXCEPT ![p] = << a >>]
    BY <1>2 DEF WriteList
  <2>2. /\ pc = "idle" /\ f = None
        /\ UNCHANGED << config, argv, left, pc, f, line, fresh, late, lost, done >>
    BY <1>0, <1>2 DEF WriteList, ListOpen
  <2>3. << a >> \in Seq(Areas) /\ Len(<< a >>) = 1 /\ 1 <= MaxLines
    OBVIOUS
  <2>4. /\ disk' \in [Lists -> Seq(Areas) \cup {None}]
        /\ \A q \in Lists : disk'[q] # None => Len(disk'[q]) <= MaxLines
    BY <2>1, <2>3, <1>0 DEF LineOfList
  <2> QED
    BY <2>2, <2>4, <1>0 DEF TypeInv, TypeOK, CommandsLeft, ListOpen, LineOfList
<1>3. CASE Kill
  <2>1. << >> \in Seq(Commands)
    OBVIOUS
  <2> QED
    BY <2>1, <1>0, <1>3 DEF Kill, TypeInv, TypeOK, CommandsLeft, ListOpen, LineOfList
<1> QED
  BY <1>1, <1>2, <1>3

LEMMA TypeInvariance == Spec => []TypeInv
<1>1. TypeInv /\ [Next]_vars => TypeInv'
  <2> SUFFICES ASSUME TypeInv, [Next]_vars PROVE TypeInv'
    OBVIOUS
  <2>1. CASE Next
    BY <2>1, RunTypeInv, OthersTypeInv DEF Next
  <2>2. CASE UNCHANGED vars
    <3>1. ListOf(Head(left))' = ListOf(Head(left)) /\ Lines' = Lines
      BY <2>2 DEF vars, ListOf, SortList, LinkList, PurgeList, PackList, ImportLog, Lines
    <3> QED
      BY <2>2, <3>1 DEF vars, TypeInv, TypeOK, CommandsLeft, ListOpen, LineOfList
  <2> QED
    BY <2>1, <2>2
<1> QED
  BY <1>1, InitTypeInv, PTL DEF Spec

\* The variables have their types, and the program has a command left to do
\* exactly while it runs; a list that is read does not go away, and is not read
\* past its end (hptutil.c:418-447, linkarea.c:721-758).
THEOREM Typed == Spec => []TypeOK
<1>1. TypeInv => TypeOK
  BY DEF TypeInv
<1> QED
  BY <1>1, TypeInvariance, PTL

-----------------------------------------------------------------------------
(* A list is removed only when it is dealt with. *)

LEMMA TreatedSame ==
  ASSUME UNCHANGED << config, left >>
  PROVE  \A a : Treated(Head(left), a)' <=> Treated(Head(left), a)
BY DEF Treated, SortTreats, LinkTreats, PurgeTreats, PackTreats

LEMMA LinesDoneInv ==
  ASSUME TypeInv, LinesDone, [Next]_vars
  PROVE  LinesDone'
<1> USE HptutilAssumption
<1>0. TypeOK /\ ListOpen /\ disk \in [Lists -> Seq(Areas) \cup {None}]
  BY DEF TypeInv, TypeOK
<1>1. CASE Start \/ NoAreas \/ WriteList
  <2>1. f = None /\ f' = f
    BY <1>0, <1>1 DEF Start, NoAreas, WriteList, ListOpen
  <2> QED
    BY <2>1 DEF LinesDone
<1>2. CASE OpenList
  <2>1. pc' = "area" /\ line' = 1
    BY <1>2 DEF OpenList
  <2> QED
    BY <2>1 DEF LinesDone
<1>3. CASE Area
  <2>1. /\ pc = "area" /\ line <= Len(Lines) /\ line' = line + 1 /\ line \in Nat
        /\ UNCHANGED << config, disk, argv, left, pc, f, late, lost >>
        /\ left \in Seq(AreaCommands) /\ left # << >>
    BY <1>0, <1>3 DEF Area, ListOpen, TypeOK
  <2> SUFFICES ASSUME f # None, NEW i \in 1 .. Len(disk[f]), i < line + 1,
                      Treated(Head(left), disk[f][i])
               PROVE  << Head(left), disk[f][i] >> \in ToSet(done')
    BY <2>1, TreatedSame DEF LinesDone
  <2>2. Lines = disk[f] /\ Lines \in Seq(Areas)
    BY LinesType DEF Lines
  <2>3. << Head(left), Lines[i] >> \in Commands \X Areas /\ done \in Seq(Commands \X Areas)
    <3>1. Head(left) \in Commands
      BY <2>1, <1>0, HeadTailProperties DEF TypeOK
    <3>2. Lines[i] \in Areas
      BY <2>2, ElementOfSeq
    <3> QED
      BY <3>1, <3>2, <1>0 DEF TypeOK
  <2>4. CASE i < line
    <3>0. \/ pc = "area" /\ i >= line
          \/ pc = "close" /\ disk[f][i] \in late
          \/ Treated(Head(left), disk[f][i])
               => << Head(left), disk[f][i] >> \in ToSet(done)
      BY DEF LinesDone
    <3>01. pc # "close" /\ ~(i >= line)
      BY <2>1, <2>4
    <3>1. << Head(left), Lines[i] >> \in ToSet(done)
      BY <3>0, <3>01, <2>2
    <3>2. done' = done \/ done' = Append(done, << Head(left), Lines[line] >>)
      BY <1>3 DEF Area
    <3>3. << Head(left), Lines[line] >> \in Commands \X Areas
      <4>1. line \in 1 .. Len(Lines)
        BY <2>1, <1>0 DEF TypeOK
      <4> QED
        BY <4>1, <2>2, <2>3, ElementOfSeq
    <3>4. ToSet(Append(done, << Head(left), Lines[line] >>))
            = ToSet(done) \cup {<< Head(left), Lines[line] >>}
      BY <3>3, <2>3, ToSetAppend
    <3>5. << Head(left), Lines[i] >> \in ToSet(done')
      BY <3>1, <3>2, <3>4, Zenon
    <3> QED
      BY <3>5, <2>2
  <2>5. CASE i = line
    <3>1. done' = Append(done, << Head(left), Lines[i] >>)
      BY <1>3, <2>2, <2>5 DEF Area
    <3> QED
      BY <3>1, <2>2, <2>3, ToSetAppend
  <2> QED
    BY <2>1, <2>4, <2>5
<1>4. CASE CloseList
  <2>1. /\ pc = "area" /\ line > Len(Lines) /\ line \in Nat
        /\ UNCHANGED << config, disk, argv, left, f, line, fresh, late, lost, done >>
    BY <1>0, <1>4 DEF CloseList, AtEnd, TypeOK
  <2> SUFFICES ASSUME f # None, NEW i \in 1 .. Len(disk[f]),
                      Treated(Head(left), disk[f][i])
               PROVE  << Head(left), disk[f][i] >> \in ToSet(done)
    BY <2>1, TreatedSame DEF LinesDone
  <2>2. Lines = disk[f] /\ Len(Lines) \in Nat
    BY LinesType DEF Lines
  <2> QED
    BY <2>1, <2>2 DEF LinesDone
<1>5. CASE RemoveList \/ Kill
  BY <1>5 DEF RemoveList, NextCommand, Kill, LinesDone
<1>6. CASE Toss
  <2> DEFINE log == config.importlog
             names == IF log = None \/ disk[log] = None THEN << >> ELSE disk[log]
  <2>1. PICK a \in Areas \ (config.nolink \cup config.ignored) :
          /\ names \in Seq(Areas) /\ Len(names) < MaxLines
          /\ disk' = IF log = None THEN disk ELSE [disk EXCEPT ![log] = Append(names, a)]
          /\ log \in Lists \cup {None}
          /\ late' = IF pc = "close" /\ f = log THEN late \cup {a} ELSE late
          /\ UNCHANGED << config, argv, left, pc, f, line, done >>
    BY <1>6, TossedList
  <2> SUFFICES ASSUME f # None, NEW i \in 1 .. Len(disk'[f]),
                      ~(pc = "area" /\ i >= line), ~(pc = "close" /\ disk'[f][i] \in late'),
                      Treated(Head(left), disk'[f][i])
               PROVE  << Head(left), disk'[f][i] >> \in ToSet(done)
    BY <2>1, TreatedSame DEF LinesDone
  <2>2. /\ f \in Lists /\ disk[f] # None /\ pc \in {"area", "close"} /\ line \in Nat
        /\ disk[f] \in Seq(Areas) /\ Len(disk[f]) \in Nat
        /\ f = log => names = disk[f]
    <3>1. f \in Lists /\ disk[f] # None /\ pc \in {"area", "close"} /\ line \in Nat
      BY <1>0 DEF TypeOK, ListOpen
    <3> QED
      BY <3>1, <1>0, LenProperties
  <2>3. f = log => /\ disk'[f] = Append(disk[f], a) /\ Len(disk'[f]) = Len(disk[f]) + 1
                   /\ \A j \in 1 .. Len(disk[f]) : disk'[f][j] = disk[f][j]
                   /\ disk'[f][Len(disk[f]) + 1] = a
    BY <2>1, <2>2, <1>0, AppendProperties
  <2>4. f # log => disk'[f] = disk[f]
    BY <2>1, <2>2, <1>0
  <2>5. i \in 1 .. Len(disk[f]) /\ disk'[f][i] = disk[f][i]
    <3>1. f = log => i # Len(disk[f]) + 1
      <4>1. pc = "close" /\ f = log => a \in late'
        BY <2>1
      <4>2. pc = "area" => line <= Len(disk[f]) + 1
        BY <2>2 DEF TypeInv, LineOfList, Lines
      <4> QED
        BY <4>1, <4>2, <2>2, <2>3
    <3> QED
      BY <3>1, <2>2, <2>3, <2>4
  <2>6. ~(pc = "close" /\ disk[f][i] \in late)
    BY <2>1, <2>5
  <2> QED
    BY <2>5, <2>6 DEF LinesDone
<1>7. CASE UNCHANGED vars
  BY <1>7, TreatedSame DEF vars, LinesDone
<1> QED
  BY <1>1, <1>2, <1>3, <1>4, <1>5, <1>6, <1>7 DEF Next, Run

\* A list is removed only when the command has read it to its end and dealt with
\* each of its areas, except those that the tosser added after that: whatever
\* commands, kills and tosses came before (linkarea.c:721-758).
THEOREM ListDealtWith == Spec => RemovedWhenRead
<1>1. Init => LinesDone
  BY DEF Init, LinesDone
<1>2. ASSUME TypeInv, LinesDone, [Next]_vars
      PROVE  [\A p \in Lists :
                disk[p] # None /\ disk'[p] = None =>
                  \A a \in ToSet(disk[p]) \ late :
                     Treated(Head(left), a) => << Head(left), a >> \in ToSet(done)]_vars
  <2> SUFFICES ASSUME ~UNCHANGED vars, NEW p \in Lists, disk[p] # None, disk'[p] = None,
                      NEW a \in ToSet(disk[p]) \ late, Treated(Head(left), a)
               PROVE  << Head(left), a >> \in ToSet(done)
    BY <1>2
  <2>1. pc = "close" /\ f = p /\ f # None
    <3>1. disk \in [Lists -> Seq(Areas) \cup {None}] /\ None \notin Lists
      BY <1>2, HptutilAssumption DEF TypeInv, TypeOK
    <3>2. ~WriteList
      <4> SUFFICES ASSUME WriteList PROVE FALSE
        OBVIOUS
      <4>1. PICK q \in Lists, b \in Areas : disk' = [disk EXCEPT ![q] = << b >>]
        BY DEF WriteList
      <4>2. << b >> # None
        <5>1. << b >> \in Seq(Areas)
          OBVIOUS
        <5> QED
          BY <5>1, HptutilAssumption
      <4> QED
        BY <4>1, <4>2, <3>1
    <3>3. ~Toss
      <4> SUFFICES ASSUME Toss PROVE FALSE
        OBVIOUS
      <4> DEFINE log == config.importlog
                 names == IF log = None \/ disk[log] = None THEN << >> ELSE disk[log]
      <4>1. PICK b \in Areas :
              /\ names \in Seq(Areas)
              /\ disk' = IF log = None THEN disk ELSE [disk EXCEPT ![log] = Append(names, b)]
        BY <1>2, TossedList
      <4>2. Append(names, b) # None
        <5> HIDE DEF names
        <5> QED
          BY <4>1, AppendProperties, HptutilAssumption
      <4> HIDE DEF names
      <4> QED
        BY <4>1, <4>2, <3>1
    <3>4. disk' # disk
      OBVIOUS
    <3>5. RemoveList
      BY <1>2, <3>2, <3>3, <3>4 DEF Next, Run, Start, OpenList, NoAreas, Area, CloseList, Kill
    <3> QED
      BY <3>1, <3>5 DEF RemoveList, Removes
  <2>2. disk[p] \in Seq(Areas)
    BY <1>2 DEF TypeInv, TypeOK
  <2>3. PICK i \in 1 .. Len(disk[p]) : disk[p][i] = a
    BY <2>2, ToSetOfSeq
  <2> QED
    BY <1>2, <2>1, <2>3 DEF LinesDone
<1> QED
  BY <1>1, <1>2, LinesDoneInv, TypeInvariance, PTL DEF Spec, RemovedWhenRead

-----------------------------------------------------------------------------
(* No new mail is forgotten. *)

\* The steps that leave the lists and the mail alone.
LEMMA RunFresh ==
  ASSUME TypeInv, FreshInv,
         Start \/ OpenList \/ NoAreas \/ CloseList \/ Kill \/ WriteList
  PROVE  FreshInv'
<1> USE HptutilAssumption
<1>0. /\ TypeOK /\ ListOpen /\ disk \in [Lists -> Seq(Areas) \cup {None}]
      /\ FreshLinked /\ FreshInList /\ FreshAhead
      /\ UNCHANGED << config, fresh, lost >>
  BY DEF TypeInv, TypeOK, FreshInv, Start, OpenList, NoAreas, CloseList, Kill, WriteList
<1>1. FreshLinked'
  BY <1>0 DEF FreshLinked
<1>2. FreshInList'
  <2>1. CASE WriteList
    <3>1. PICK p \in Lists \ {config.importlog} : \E a \in Areas :
            disk' = [disk EXCEPT ![p] = << a >>]
      BY <2>1 DEF WriteList
    <3>2. disk'[config.importlog] = disk[config.importlog]
      BY <3>1, <1>0
    <3> QED
      BY <3>2, <1>0 DEF FreshInList
  <2>2. CASE ~WriteList
    <3>1. disk' = disk
      BY <2>2 DEF Start, OpenList, NoAreas, CloseList, Kill
    <3> QED
      BY <3>1, <1>0 DEF FreshInList
  <2> QED
    BY <2>1, <2>2
<1>3. FreshAhead'
  <2>1. CASE Start \/ NoAreas \/ WriteList \/ Kill
    <3>1. f' = None
      BY <2>1, <1>0 DEF Start, NoAreas, WriteList, Kill, ListOpen
    <3> QED
      BY <3>1 DEF FreshAhead
  <2>2. CASE OpenList
    <3>1. /\ line' = 1 /\ pc' = "area" /\ UNCHANGED << config, disk, left, fresh, lost >>
          /\ f' # None => disk[f'] # None
      BY <2>2 DEF OpenList, Opened
    <3> SUFFICES ASSUME f' # None, f' = config.importlog, NEW a \in fresh \ lost
                 PROVE  \E i \in 1 .. Len(disk[f']) : disk[f'][i] = a
      BY <3>1 DEF FreshAhead
    <3>2. a \in ToSet(disk[f'])
      BY <3>1, <1>0 DEF FreshInList
    <3>3. disk[f'] \in Seq(Areas)
      <4>1. config.importlog \in Lists \cup {None}
        <5>1. config \in [importlog : Lists \cup {None},
                          LinkWithImportlog : {"lwiNo", "lwiYes", "lwiKill"},
                          nopack : SUBSET Areas, nolink : SUBSET Areas,
                          ignored : SUBSET Areas]
          BY <1>0 DEF TypeOK
        <5> QED
          BY <5>1
      <4> QED
        BY <4>1, <3>1, <1>0
    <3> QED
      BY <3>2, <3>3, ToSetOfSeq
  <2>3. CASE CloseList
    <3>1. /\ pc = "area" /\ pc' = "close" /\ line > Len(Lines) /\ line \in Nat
          /\ UNCHANGED << config, disk, argv, left, f, line, fresh, late, lost, done >>
      BY <2>3, <1>0 DEF CloseList, AtEnd, TypeOK
    <3>2. f # None => Lines = disk[f] /\ Len(Lines) \in Nat
      BY LinesType DEF Lines
    <3> QED
      BY <3>1, <3>2, <1>0 DEF FreshAhead
  <2> QED
    BY <2>1, <2>2, <2>3
<1> QED
  BY <1>1, <1>2, <1>3 DEF FreshInv

\* link takes an area off the list of those with new mail when it reads it.
LEMMA AreaFresh ==
  ASSUME TypeInv, FreshInv, Area
  PROVE  FreshInv'
<1> USE HptutilAssumption
<1>0. TypeOK /\ ListOpen /\ FreshLinked /\ FreshInList /\ FreshAhead
  BY DEF TypeInv, FreshInv
<1>1. /\ pc = "area" /\ line <= Len(Lines) /\ line' = line + 1 /\ line \in Nat
      /\ UNCHANGED << config, disk, argv, left, pc, f, late, lost >>
      /\ fresh' \subseteq fresh
  BY <1>0 DEF Area, TypeOK
<1>2. FreshLinked' /\ FreshInList'
  BY <1>0, <1>1 DEF FreshLinked, FreshInList
<1>3. FreshAhead'
  <2> SUFFICES ASSUME f # None, f = config.importlog, Head(left) = "link",
                      NEW a \in fresh' \ lost
               PROVE  \E i \in line + 1 .. Len(disk[f]) : disk[f][i] = a
    BY <1>1 DEF FreshAhead
  <2>1. PICK i \in line .. Len(disk[f]) : disk[f][i] = a
    BY <1>0, <1>1 DEF FreshAhead
  <2>2. Lines = disk[f] /\ Len(Lines) \in Nat
    BY LinesType DEF Lines
  <2>3. Lines[line] # a
    <3> SUFFICES ASSUME Lines[line] = a PROVE FALSE
      OBVIOUS
    <3>1. a \notin config.nolink \cup config.ignored
      BY <1>0, <1>1 DEF FreshLinked
    <3>2. Treated(Head(left), a)
      BY <3>1 DEF Treated, LinkTreats
    <3>3. fresh' = fresh \ {a}
      BY <3>2 DEF Area
    <3> QED
      BY <3>3
  <2> QED
    BY <2>1, <2>2, <2>3, <1>1
<1> QED
  BY <1>2, <1>3 DEF FreshInv

\* Only link removes the importlog, and only what the tosser added meanwhile goes.
LEMMA RemoveFresh ==
  ASSUME OwnLists, TypeInv, FreshInv, RemoveList
  PROVE  FreshInv'
<1> USE HptutilAssumption
<1> DEFINE log == config.importlog
<1>0. /\ TypeOK /\ ListOpen /\ disk \in [Lists -> Seq(Areas) \cup {None}]
      /\ FreshLinked /\ FreshInList /\ FreshAhead
      /\ config \in Configs /\ argv \in CommandLines
  BY DEF TypeInv, TypeOK, FreshInv
<1>1. /\ pc = "close" /\ f' = None /\ UNCHANGED << config, argv, fresh, done >>
      /\ disk' = IF Removes THEN [disk EXCEPT ![f] = None] ELSE disk
      /\ lost' = IF Removes THEN lost \cup late ELSE lost
  BY DEF RemoveList, NextCommand
<1>2. FreshLinked' /\ FreshAhead'
  BY <1>0, <1>1 DEF FreshLinked, FreshAhead
<1>3. FreshInList'
  <2> SUFFICES ASSUME log # None
               PROVE  IF disk'[log] = None THEN fresh \subseteq lost'
                      ELSE fresh \ lost' \subseteq ToSet(disk'[log])
    BY <1>1 DEF FreshInList
  <2>1. CASE ~Removes \/ f # log
    <3>1. disk'[log] = disk[log]
      BY <1>0, <1>1, <2>1
    <3>2. lost \subseteq lost'
      BY <1>1
    <3> QED
      BY <3>1, <3>2, <1>0 DEF FreshInList
  <2>2. CASE Removes /\ f = log
    <3>1. f # None /\ f = ListOf(Head(left)) /\ Head(left) # "sort"
      BY <1>0, <1>1, <2>2 DEF Removes, ListOpen
    <3>2. f # argv.altImportLog
      BY <3>1, <2>2, <1>0 DEF OwnLists
    <3>3. left # << >> /\ Head(left) \in AreaCommands
      <4>1. left # << >> /\ left \in Seq(AreaCommands)
        BY <1>0, <1>1 DEF TypeOK, ListOpen
      <4> QED
        BY <4>1, HeadTailProperties
    <3>4. Head(left) = "link"
      BY <3>1, <3>2, <3>3 DEF ListOf, PurgeList, PackList, AreaCommands
    <3>5. fresh \ lost \subseteq late
      BY <3>1, <3>4, <2>2, <1>0, <1>1 DEF FreshAhead
    <3>6. fresh \subseteq lost' /\ lost' = lost \cup late
      BY <3>5, <2>2, <1>1
    <3>7. disk'[log] = None
      <4>1. f \in Lists
        BY <3>1, <1>0 DEF TypeOK
      <4> QED
        BY <4>1, <2>2, <1>0, <1>1
    <3> QED
      BY <3>6, <3>7
  <2> QED
    BY <2>1, <2>2
<1> QED
  BY <1>2, <1>3 DEF FreshInv

\* The tosser lists each area to which it adds mail.
LEMMA TossFresh ==
  ASSUME TypeInv, FreshInv, Toss
  PROVE  FreshInv'
<1> USE HptutilAssumption
<1> DEFINE log == config.importlog
           names == IF log = None \/ disk[log] = None THEN << >> ELSE disk[log]
<1>0. /\ TypeOK /\ ListOpen /\ disk \in [Lists -> Seq(Areas) \cup {None}]
      /\ FreshLinked /\ FreshInList /\ FreshAhead
  BY DEF TypeInv, TypeOK, FreshInv
<1>1. PICK a \in Areas \ (config.nolink \cup config.ignored) :
        /\ names \in Seq(Areas)
        /\ fresh' = fresh \cup {a}
        /\ disk' = IF log = None THEN disk ELSE [disk EXCEPT ![log] = Append(names, a)]
        /\ log \in Lists \cup {None}
        /\ late' = IF pc = "close" /\ f = log THEN late \cup {a} ELSE late
        /\ lost' = lost \ {a}
        /\ UNCHANGED << config, argv, left, pc, f, line, done >>
  BY TossedList
<1>2. FreshLinked'
  BY <1>0, <1>1 DEF FreshLinked
<1>3. log # None => disk'[log] = Append(names, a)
  BY <1>0, <1>1
<1>4. Append(names, a) # None /\ ToSet(Append(names, a)) = ToSet(names) \cup {a}
  <2>1. \A s \in Seq(Areas) : /\ Append(s, a) \in Seq(Areas)
                              /\ ToSet(Append(s, a)) = ToSet(s) \cup {a}
    BY AppendProperties, ToSetAppend
  <2> HIDE DEF names
  <2> QED
    BY <1>1, <2>1
<1>5. FreshInList'
  <2> SUFFICES ASSUME log # None PROVE fresh' \ lost' \subseteq ToSet(names) \cup {a}
    BY <1>1, <1>3, <1>4 DEF FreshInList
  <2>1. disk[log] # None => fresh \ lost \subseteq ToSet(names)
    BY <1>0 DEF FreshInList
  <2>2. disk[log] = None => fresh \subseteq lost
    BY <1>0 DEF FreshInList
  <2>3. fresh' \ lost' \subseteq (fresh \ lost) \cup {a}
    BY <1>1
  <2> HIDE DEF log
  <2> QED
    BY <2>1, <2>2, <2>3
<1>6. FreshAhead'
  <2> SUFFICES ASSUME f # None, f = log, Head(left) = "link"
               PROVE  /\ pc = "area" => \A b \in fresh' \ lost' :
                                \E i \in line .. Len(disk'[f]) : disk'[f][i] = b
                      /\ pc = "close" => fresh' \ lost' \subseteq late'
    <3> HIDE DEF log, names
    <3>1. f' = f /\ left' = left /\ pc' = pc /\ line' = line /\ config'.importlog = log
      BY <1>1 DEF log
    <3> QED
      BY <3>1 DEF FreshAhead, log
  <2>1. /\ disk[f] # None /\ names = disk[f] /\ disk[f] \in Seq(Areas) /\ line \in Nat
        /\ Len(disk[f]) \in Nat
        /\ pc = "area" => line <= Len(disk[f]) + 1
    BY <1>0, <1>1, LenProperties DEF TypeOK, TypeInv, LineOfList, Lines
  <2>2. /\ Len(disk'[f]) = Len(disk[f]) + 1
        /\ \A j \in 1 .. Len(disk[f]) : disk'[f][j] = disk[f][j]
        /\ disk'[f][Len(disk[f]) + 1] = a
    BY <1>1, <1>3, <2>1, AppendProperties
  <2>3. ASSUME pc = "area", NEW b \in fresh' \ lost'
        PROVE  \E i \in line .. Len(disk'[f]) : disk'[f][i] = b
    <3>1. CASE b = a
      <4>1. Len(disk[f]) + 1 \in line .. Len(disk'[f])
        BY <2>1, <2>2, <2>3
      <4> QED
        BY <4>1, <3>1, <2>2
    <3>2. CASE b # a
      <4>1. b \in fresh \ lost
        BY <3>2, <1>1
      <4>2. PICK i \in line .. Len(disk[f]) : disk[f][i] = b
        BY <4>1, <2>3, <1>0 DEF FreshAhead
      <4>3. i \in 1 .. Len(disk[f]) /\ i \in line .. Len(disk'[f])
        <5>1. line >= 1
          BY <1>0 DEF TypeOK
        <5> QED
          BY <5>1, <2>1, <2>2
      <4> QED
        BY <4>2, <4>3, <2>2
    <3> QED
      BY <3>1, <3>2
  <2>4. pc = "close" => fresh' \ lost' \subseteq late'
    BY <1>0, <1>1 DEF FreshAhead
  <2> QED
    BY <2>3, <2>4
<1> QED
  BY <1>2, <1>5, <1>6 DEF FreshInv

\* If -i never names the importlog of fidoconfig, then whatever commands ran, were
\* killed or failed before, every area with new mail is in the importlog, or there
\* is none and link takes all areas - but for the areas that the tosser added after
\* the last read of a list that was then removed (linkarea.c:706-762).
THEOREM FreshAreasListed == OwnLists => (Spec => []FreshListed)
<1> SUFFICES ASSUME OwnLists PROVE Spec => []FreshListed
  OBVIOUS
<1>1. Init => FreshInv
  BY DEF Init, FreshInv, FreshLinked, FreshInList, FreshAhead
<1>2. TypeInv /\ FreshInv /\ [Next]_vars => FreshInv'
  <2>1. CASE Next
    BY <2>1, RunFresh, AreaFresh, RemoveFresh, TossFresh DEF Next, Run
  <2>2. CASE UNCHANGED vars
    BY <2>2 DEF vars, FreshInv, FreshLinked, FreshInList, FreshAhead
  <2> QED
    BY <2>1, <2>2
<1>3. FreshInv => FreshListed
  BY DEF FreshInv, FreshInList, FreshListed
<1> QED
  BY <1>1, <1>2, <1>3, TypeInvariance, PTL DEF Spec
=============================================================================
