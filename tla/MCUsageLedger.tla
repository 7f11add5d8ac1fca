---------------------------- MODULE MCUsageLedger ----------------------------
EXTENDS UsageLedger

\* Window lengths small enough for several periods to pass within LastDay.
MCLength == [w \in Windows |-> IF w = "daily" THEN 1 ELSE 2]
=============================================================================
