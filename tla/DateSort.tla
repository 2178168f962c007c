------------------------------- MODULE DateSort -------------------------------
(***************************************************************************)
(* The sort of src/src/sortarea.c.  AddSQSORT and AddJAMSORT insert one    *)
(* message after the other into a list in memory that is ordered by date.  *)
(* An element of the list is a record with a field time.                   *)
(***************************************************************************)
EXTENDS Integers, Sequences, FiniteSets, SequencesExt

\* Fault: a message that is older than all others goes behind the first one.
PlaceBehindFirst(list, new) ==
  LET k == SelectInSubSeq(list, 2, Len(list), LAMBDA m : new.time <= m.time)
  IN  IF k = 0 THEN Len(list) + 1 ELSE k

\* The place of the first message that is not older.
PlaceOfNew(list, new) ==
  LET k == SelectInSeq(list, LAMBDA m : new.time <= m.time)
  IN  IF k = 0 THEN Len(list) + 1 ELSE k

AddSORT(list, new) == InsertAt(list, PlaceOfNew(list, new), new)

\* The list when the first n messages are in it.
SortByDate(msgs) ==
  LET sorted[n \in 0 .. Len(msgs)] ==
        IF n = 0 THEN << >> ELSE AddSORT(sorted[n - 1], msgs[n])
  IN  sorted[Len(msgs)]

-----------------------------------------------------------------------------
(* What it is to do.  The order of messages of one time is reversed. *)

NewPlace(msgs, p) ==
  1 + Cardinality({q \in 1 .. Len(msgs) :
                     \/ msgs[q].time < msgs[p].time
                     \/ msgs[q].time = msgs[p].time /\ q > p})

IsSortOf(list, msgs) ==
  /\ Len(list) = Len(msgs)
  /\ \A p \in 1 .. Len(msgs) : list[NewPlace(msgs, p)] = msgs[p]
=============================================================================
