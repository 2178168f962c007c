---------------------------- MODULE MCSquishPurge ----------------------------
(* Instances of SquishPurge for TLC. *)
EXTENDS SquishPurge

MCFrames == 1 .. 3

Mail(local, sent, written, arrived) ==
  [local |-> local, sent |-> sent,
   date_written |-> written, date_arrived |-> arrived]

\* Unsent local mail, sent local mail that is old, and echomail that arrived
\* on the first day or later than it was written.
MCXMsgs == {Mail(TRUE, FALSE, 0, 0), Mail(TRUE, TRUE, 0, 2),
            Mail(FALSE, FALSE, 0, 0), Mail(FALSE, FALSE, 0, 1)}

Keywords(keepUnread, killRead, purge, max) ==
  [keepUnread |-> keepUnread, killRead |-> killRead,
   purge |-> purge, max |-> max]

MCAreas == {Keywords(FALSE, FALSE, 1, 0), Keywords(FALSE, TRUE, 0, 1),
            Keywords(FALSE, FALSE, 1, 2), Keywords(TRUE, TRUE, 1, 1)}

MCLastReads == {<< >>, << 2 >>}

\* The names of the frames do not matter: the index lists the first ones in
\* ascending order, the others are free.  The list may link them in another
\* order.  A free frame holds no message.
MCInit ==
  /\ Init
  /\ sqi # << >>
  /\ \A k \in 1 .. Len(sqi) : sqi[k].ofs = k
  /\ \A f \in Frames : f > Len(sqi) =>
       /\ xmsg[f] = Mail(FALSE, FALSE, 0, 0)
       /\ f \notin damaged
       /\ hdrs[f].prev_frame = IF f = Len(sqi) + 1 THEN NULL_FRAME ELSE f - 1
  /\ Cardinality(damaged) <= 1

MCSpec == MCInit /\ [][Next]_vars

MCCrashSpec == MCInit /\ [][CrashNext]_vars
=============================================================================
