------------------------------ MODULE MCJamPack ------------------------------
(* Instances of JamPack for TLC. *)
EXTENDS JamPack

MCMsgs == 1 .. 3

\* The names of the messages do not matter: the index lists the first ones in
\* ascending order.  A message without an entry has no links.
MCInit ==
  /\ Init
  /\ \A k \in 1 .. Len(idx) : idx[k] \in {k, Cleared}
  /\ \A m \in Msgs \ Entries, f \in LinkFields : links[m][f] = 0
  /\ Cardinality(rejected) <= 1

MCSpec == MCInit /\ [][Next]_vars
=============================================================================
