------------------------------ MODULE MCJamPurge ------------------------------
(* Instances of JamPurge for TLC. *)
EXTENDS JamPurge

MCHeaders == 1 .. 3

Mail(local, sent, written, processed) ==
  [local |-> local, sent |-> sent,
   DateWritten |-> written, DateProcessed |-> processed]

\* Unsent local mail, sent local mail that is old, and echomail that was
\* processed on the first day or later than it was written.
MCMsgs == {Mail(TRUE, FALSE, 0, 0), Mail(TRUE, TRUE, 0, 2),
           Mail(FALSE, FALSE, 0, 0), Mail(FALSE, FALSE, 0, 1)}

Keywords(keepUnread, killRead, purge, max) ==
  [keepUnread |-> keepUnread, killRead |-> killRead,
   purge |-> purge, max |-> max]

MCAreas == {Keywords(FALSE, FALSE, 1, 0), Keywords(FALSE, TRUE, 0, 1),
            Keywords(FALSE, FALSE, 1, 2), Keywords(TRUE, TRUE, 1, 1)}

MCLastReads == {<< >>, << 6 >>}

\* The names of the headers do not matter: the index lists the first ones in
\* ascending order.  A header that no entry names is as good as any other.
MCInit ==
  /\ Init
  /\ \A k \in 1 .. Len(idx) : idx[k] \in {k, NoHeader}
  /\ \A h \in Headers \ Indexed :
       /\ msg[h] = Mail(FALSE, FALSE, 0, 0)
       /\ h \notin damaged
  /\ Cardinality(damaged) <= 1

MCSpec == MCInit /\ [][Next]_vars
=============================================================================
