-------------------------------- MODULE Purge --------------------------------
(***************************************************************************)
(* What "hptutil purge" promises of a message area, whatever the format of *)
(* its base: messages only leave the area, one at a time, and a message    *)
(* leaves only if the keywords of the area allow it.  SquishPurge and      *)
(* JamPurge are shown to implement this specification.                     *)
(***************************************************************************)
EXTENDS Integers, FiniteSets

CONSTANTS
  Messages,   \* the messages an area may hold
  Areas       \* the possible values of the area's keywords in fidoconfig

VARIABLES
  live,      \* the messages of the area that are not deleted
  message,   \* message[m]: is m local, is it sent, and the day it dates from
  uncounted, \* deleted messages that a crash has left in the count
  read,      \* the messages that every user has read
  area,      \* keepUnread, killRead, purge (days) and max (messages)
  today      \* the current day

vars == << live, message, uncounted, read, area, today >>

Init ==
  /\ live \subseteq Messages
  /\ read \subseteq Messages
  /\ uncounted = 0
  /\ message \in [Messages -> [local : BOOLEAN, sent : BOOLEAN, day : Nat]]
  /\ area \in Areas
  /\ today \in Nat

\* Mail written here that was not sent yet is never purged.
Unsent(m) == message[m].local /\ ~message[m].sent

TooOld(m) == area.purge # 0 /\ today - message[m].day > area.purge

TooMany == area.max # 0 /\ Cardinality(live) + uncounted > area.max

MayPurge(m) ==
  /\ ~Unsent(m)
  /\ area.keepUnread => m \in read
  /\ TooOld(m) \/ TooMany \/ (area.killRead /\ m \in read)

PurgeMessage(m) ==
  /\ m \in live
  /\ MayPurge(m)
  /\ live' = live \ {m}
  /\ UNCHANGED << message, uncounted, read, area, today >>

\* Between two runs a day passes or the sysop edits the configuration; a run
\* may be cut short.
Environment ==
  /\ today' >= today
  /\ area' \in Areas
  /\ uncounted' \in Nat /\ uncounted' >= uncounted
  /\ UNCHANGED << live, message, read >>

Next == Environment \/ \E m \in Messages : PurgeMessage(m)

Spec == Init /\ [][Next]_vars
=============================================================================
