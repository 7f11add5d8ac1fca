---------------------------- MODULE MCNativeSearch ----------------------------
EXTENDS NativeSearch, TLC
CONSTANTS a, b, x
MCDefault == [enabled |-> TRUE, requireAll |-> FALSE, autoExclude |-> TRUE, excludedModels |-> {}, disabledChannels |-> {}]
MCSettings == {MCDefault, [MCDefault EXCEPT !.autoExclude = FALSE]}
MCAnswers == (a :> {"search"}) @@ (b :> {"search", "no_search"})
Plain == [own |-> NoList, inherited |-> NoList]
MCAsked == {{a, b}}
\* Each of the events once.
Budget(events) == [e \in Events |-> IF e \in events THEN 1 ELSE 0]
MCBudgets ==
  {Budget({"keep"}), Budget({"crash"}), Budget({"panel"}), Budget({"update", "save"}), Budget({"switch"}), Budget({"list"}),
   Budget({"handoff"}), Budget({"update", "edit"}), Budget({"refuse"}), Budget({"probe"}), Budget({"age"}), Budget({"cool"})}
MCSlowBudgets == {Budget({"keep", "slow"})}
MCLayouts == {Plain, [Plain EXCEPT !.inherited = {x}], [Plain EXCEPT !.own = {"*"}]}
===============================================================================
