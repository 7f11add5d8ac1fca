------------------------------ MODULE MCQuality ------------------------------
\* Quality and Verdicts for TLC: behaviours of the service, and of what the
\* page is computed from.
EXTENDS Quality, Verdicts

AnyPage == [of |-> "any"]

MCInit == Init /\ (shown = Nothing \/ (records = 0 /\ shown = AnyPage))
MCNext ==
  \/ shown = Nothing /\ Next /\ UNCHANGED shown
  \/ shown = AnyPage /\ Shows /\ UNCHANGED vars
  \/ shown \notin {Nothing, AnyPage} /\ shown' = AnyPage /\ UNCHANGED vars
MCSpec == MCInit /\ [][MCNext]_<<vars, shown>>
=============================================================================
