------------------------------- MODULE MCCalls -------------------------------
EXTENDS Calls, Charges, TLC

\* A credit of two calls and a debit of one.
MCAmounts == {2, -1}

\* A negative count is none, and 2 is above MaxTokens.
MCCounts == {-1, 1, 2}

Budget(events) == [e \in Events |-> IF e \in DOMAIN events THEN events[e] ELSE 0]
MCBudgets ==
  {Budget("adjust" :> 4 @@ "fails" :> 1 @@ "strays" :> 1 @@ "crash" :> 1),
   Budget("adjust" :> 2 @@ "flush fails" :> 1 @@ "flush strays" :> 1 @@ "call" :> 2 @@ "crash" :> 1 @@ "tick" :> 1),
   Budget("generation" :> 3 @@ "again" :> 1 @@ "hand over" :> 1 @@ "tick" :> 3),
   Budget("generation" :> 1 @@ "call" :> 2 @@ "hand over" :> 1 @@ "tick" :> 2),
   Budget("call" :> 6 @@ "reset" :> 1 @@ "tick" :> 5),
   Budget("generation" :> 1 @@ "again" :> 2 @@ "hand over" :> 2),
   Budget("price" :> 1)}

\* Calls, or price rows and what each charges.
MCInit == Init /\ ChargesInit
MCNext ==
  \/ Next /\ UNCHANGED priceRow
  \/ Comes("price") /\ (SetsRow \/ DropsRow) /\ UNCHANGED <<balanceVars, callVars>>
MCSpec == MCInit /\ [][MCNext]_<<vars, priceRow>>
===============================================================================
