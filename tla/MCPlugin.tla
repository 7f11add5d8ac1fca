------------------------------- MODULE MCPlugin -------------------------------
EXTENDS Plugin, TLC
CONSTANTS ch1, ch2
MCDefault == [order |-> <<ch1>>, forced |-> {}, key |-> FALSE, pauses |-> FALSE]
MCRequests ==
  {[order |-> <<ch1, ch2>>, forced |-> {}, key |-> "given", pauses |-> TRUE],
   [order |-> <<ch2, ch1>>, forced |-> {}, key |-> "kept", pauses |-> FALSE],
   [order |-> <<ch1, ch2>>, forced |-> {ch1}, key |-> "kept", pauses |-> FALSE],
   [order |-> <<ch1, ch2>>, forced |-> {}, key |-> "cleared", pauses |-> FALSE]}
Budget(events) == [e \in Events |-> IF e = "update" THEN 2 ELSE IF e \in events THEN 1 ELSE 0]
MCBudgets ==
  {Budget({"flip", "unreachable", "pause", "configure", "crash"}), Budget({"flip", "save", "sync", "crash", "replace"}),
   Budget({"replace", "discard", "flip", "save", "configure"}), [Budget({"discard", "configure"}) EXCEPT !["replace"] = 2],
   Budget({"replace", "quiesce", "load", "configure", "flip"})}
===============================================================================
