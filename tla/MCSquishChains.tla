---------------------------- MODULE MCSquishChains ----------------------------
(* Instances of SquishChains for TLC. *)
EXTENDS SquishChains

MCFrames == 1 .. 3

\* The messages are tossed in the order of their names.
MCToss == \A f \in Frames : frame[f] = "none" => \A g \in Frames : g > f => frame'[g] = "none"

\* Who has which serial number, and who replies to whose (0: to none).
MCThreads ==
  { [serial |-> << 1, 2, 3 >>, reply |-> << 0, 1, 1 >>],   \* two replies
    [serial |-> << 1, 2, 3 >>, reply |-> << 3, 1, 0 >>],   \* a chain, its end first
    [serial |-> << 1, 2, 3 >>, reply |-> << 2, 0, 2 >>],   \* one before, one after
    [serial |-> << 1, 2, 1 >>, reply |-> << 0, 1, 0 >>] }  \* two of one number

MCDates == {<< 1, 2, 2 >>, << 2, 1, 1 >>}

MCText(t, dates) ==
  [f \in Frames |->
     [date |-> dates[f], msgid |-> [address |-> f, serial |-> t.serial[f]],
      reply |-> IF t.reply[f] = 0 THEN NoId
                ELSE [address |-> t.reply[f], serial |-> t.reply[f]]]]

MCInit == \E t \in MCThreads, dates \in MCDates : InitWith(MCText(t, dates))

MCNext == Next /\ MCToss

MCSpec == MCInit /\ [][MCNext]_vars
=============================================================================
