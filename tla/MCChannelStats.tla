---------------------------- MODULE MCChannelStats ----------------------------
\* ChannelStats for TLC: every attempt is of the one channel.
EXTENDS ChannelStats, TLC
CONSTANTS ch
\* One instance through evictions, crashes and a clock turned back; and a hot
\* replacement.
MCStarts ==
  {[hour |-> 1, rollbacks |-> 0, restarts |-> 0, handoffs |-> 1],
   [hour |-> 2, rollbacks |-> 1, restarts |-> 1, handoffs |-> 0]}
MCChannelOf == [a \in Attempts |-> ch]
=============================================================================
