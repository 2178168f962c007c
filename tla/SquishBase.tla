------------------------------ MODULE SquishBase ------------------------------
(***************************************************************************)
(* The Squish message base as its files hold it.  The .sqd file is a       *)
(* SQBASE header followed by frames; each frame begins with a SQHDR that   *)
(* links it into the doubly linked list of messages or into the list of    *)
(* free frames.  The .sqi file is a sequence of SQIDX entries, one per     *)
(* message, that name the frame by its offset.                             *)
(*                                                                         *)
(* Offsets are abstracted to the positive numbers of the set Frames;       *)
(* message texts and subjects do not occur.                                *)
(***************************************************************************)
EXTENDS Integers, Sequences, FiniteSets, SequencesExt

CONSTANTS
  Frames,   \* offsets of the frames of the .sqd file
  Dword     \* number of values of a dword (2^32 in the program)

ASSUME FramesAssumption == Frames \subseteq Nat \ {0} /\ IsFiniteSet(Frames)

\* The number of frames of a file fits in a dword.
ASSUME DwordAssumption == Dword \in Nat /\ Cardinality(Frames) < Dword

NULL_FRAME == 0

FrameRef == Frames \cup {NULL_FRAME}

SQHDR == [next_frame : FrameRef, prev_frame : FrameRef,
          frame_type : {"normal", "free"}]

SQBASE == [num_msg : 0 .. Dword - 1, high_msg : 0 .. Dword - 1,
           begin_frame : FrameRef, last_frame : FrameRef,
           free_frame : FrameRef, last_free_frame : FrameRef]

SQIDX == [ofs : Frames, umsgid : Nat]

\* dword arithmetic: 0 - 1 is the largest dword.
Dec(n) == IF n = 0 THEN Dword - 1 ELSE n - 1

-----------------------------------------------------------------------------
(* Lists of frames. *)

FirstOf(s) == IF s = << >> THEN NULL_FRAME ELSE s[1]

LastOf(s) == IF s = << >> THEN NULL_FRAME ELSE s[Len(s)]

Before(s, k) == IF k = 1 THEN NULL_FRAME ELSE s[k - 1]

After(s, k) == IF k = Len(s) THEN NULL_FRAME ELSE s[k + 1]

\* The links of the frame at place k of the list s.
LinkAt(s, k, type) ==
  [next_frame |-> After(s, k), prev_frame |-> Before(s, k), frame_type |-> type]

\* The headers h link the frames of s in the order of s.
Linked(h, s, type) == \A k \in 1 .. Len(s) : h[s[k]] = LinkAt(s, k, type)

Distinct(s) == \A j, k \in 1 .. Len(s) : s[j] = s[k] => j = k

PlaceOf(s, f) == CHOOSE k \in 1 .. Len(s) : s[k] = f

\* The headers of a file whose messages are linked as s and free frames as t.
HdrsOf(s, t) ==
  [f \in Frames |-> IF f \in ToSet(s) THEN LinkAt(s, PlaceOf(s, f), "normal")
                    ELSE LinkAt(t, PlaceOf(t, f), "free")]

\* The frames that an index names, and that it names each of them once.
Offsets(idx) == {idx[k].ofs : k \in 1 .. Len(idx)}

NoDuplicates(idx) ==
  \A j, k \in 1 .. Len(idx) : idx[j].ofs = idx[k].ofs => j = k
=============================================================================
