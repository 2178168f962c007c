----------------------------- MODULE MCSquishRepair -----------------------------
(* An instance of SquishRepair for TLC. *)
EXTENDS SquishRepair

MCMsgs == 1 .. 3

\* 1: a line of control info that ends with a NUL, and a text that does.  2: a text that
\* begins like a line of control info and ends with nothing.  3: two lines of control
\* info, the second of which does not fit.
MCTextLen == << 2, 1, 2 >>
MCCtrlLen == << 1, 0, 2 >>
MCSOH == {Text(1, 1), Text(2, 1), Text(3, 1), Text(3, 2)}
MCCR == {Text(3, 1), Text(3, 2)}
MCNUL == {Text(1, 1), Text(1, 2)}

\* The messages are tossed in the order of their names.
MCInit ==
  \E n \in 0 .. Cardinality(Msgs) : \E types \in [1 .. n -> {"normal", "free"}] :
    LET ms == [k \in 1 .. n |-> k]
        file == FileOf(ms, types)
    IN  \E s \in SeqOf({0} \cup {p \in FIRST .. Len(file) : IsHdr(file, p)}, n) :
          InitWith(ms, types, s)

InOrder ==
  \A p, q \in 1 .. Len(sqd) :
    p < q /\ IsHdr(sqd, p) /\ IsHdr(sqd, q) => sqd[p].msg < sqd[q].msg

\* Bound: what is damaged is a file in which the order of the messages is that of their
\* names, and from which pack has left out nothing.
MCDamage == damaged' # damaged => gone = {} /\ InOrder

\* Bound: the last damage is behind the last toss.
MCToss ==
  tossing = << >> /\ tossing' # << >> =>
    /\ damaged < MaxDamage
    /\ \A m \in Msgs : m < tossing'[1] => m \in Stored(sqd) \cup gone

MCSpec ==
  MCInit /\ [][RepairNext /\ MCDamage /\ MCToss]_repairVars /\ WF_repairVars(Hptutil)
=============================================================================
