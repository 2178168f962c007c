----------------------------- MODULE MCPackFiles -----------------------------
(* Instances of PackFiles for TLC. *)
EXTENDS PackFiles

\* The names of the files do not matter: the area starts with the first ones.
MCInit == Init /\ \A k \in Parts : old[k] = k

MCFiles == 1 .. 4 * N

\* A new file is the first that is free.
FirstFree ==
  \A k \in Parts :
     new[k] = None /\ new'[k] # None =>
       \A f \in Files : f < new'[k] => ~Free(f)

MCNext == Next /\ FirstFree

MCSpec == MCInit /\ [][MCNext]_vars /\ \A p \in Packers : WF_vars(Pack(p))
=============================================================================
