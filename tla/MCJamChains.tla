------------------------------ MODULE MCJamChains ------------------------------
(* Instances of JamChains for TLC. *)
EXTENDS JamChains

MCMsgs == 1 .. 3

\* The messages are tossed in the order of their names.
MCToss == \A m \in Msgs : state[m] = "none" => \A n \in Msgs : n > m => state'[n] = "none"

\* Who has which serial number (0: none), and who replies to whose (0: to none).
MCThreads ==
  { [serial |-> << 1, 2, 3 >>, reply |-> << 0, 1, 1 >>],   \* two replies
    [serial |-> << 1, 2, 3 >>, reply |-> << 3, 1, 0 >>],   \* a chain, its end first
    [serial |-> << 1, 2, 1 >>, reply |-> << 0, 1, 0 >>],   \* two of one number
    [serial |-> << 0, 2, 3 >>, reply |-> << 2, 0, 2 >>] }  \* a reply without a MSGID

MCDates == {<< 1, 2, 2 >>, << 2, 1, 1 >>}

MCText(t, dates) ==
  [m \in Msgs |->
     [date |-> dates[m],
      msgid |-> IF t.serial[m] = 0 THEN NoId ELSE [address |-> m, serial |-> t.serial[m]],
      reply |-> IF t.reply[m] = 0 THEN NoId
                ELSE [address |-> t.reply[m], serial |-> t.reply[m]]]]

\* No two ids have the same CRC.
MCCRC == [id \in Id \cup {NoId} |->
            IF id = NoId THEN Dword - 1 ELSE 3 * (id.address - 1) + id.serial]

MCInit == \E t \in MCThreads, dates \in MCDates : InitWith(MCText(t, dates))

MCNext == Next /\ MCToss

MCSpec == MCInit /\ [][MCNext]_vars
=============================================================================
