------------------------------ MODULE Management ------------------------------
(***************************************************************************)
(* The management writes of one process: of keys and prices (KeyAdmin) and *)
(* of adapter rules and channels (Adapters).  They hold writeMu shared     *)
(* (internal/plugin/app.go), so all of them interleave, and a crash ends   *)
(* them together.                                                          *)
(***************************************************************************)
EXTENDS KeyAdmin, Adapters

CONSTANT Shares \* bounds: how many calls of keys, calls of rules, and attempts a run sees

ASSUME ManagementAssumption == Shares \subseteq [keys : 0..MaxWrites, rules : Nat, attempts : Nat]

AllVars == <<vars, adapterVars>>

ManagementInit ==
  /\ Fresh /\ AdaptersInit
  /\ \E share \in Shares : writes = MaxWrites - share.keys /\ ruleCalls = share.rules /\ ruleAttempts = share.attempts

Resting == (\A o \in Operators : steps[o] = Rest) /\ (\A t \in Attempts : attempts[t] = {}) /\ UNCHANGED adapterVars

ManagementNext ==
  \/ (\E a \in Admins : KeyCalls(a)) /\ UNCHANGED adapterVars
  \/ up /\ AdaptersNext /\ UNCHANGED vars
  \/ Crash /\ AdaptersCrash
  \/ Restart /\ AdaptersRestart
  \/ AtRest /\ Resting

ManagementSpec == ManagementInit /\ [][ManagementNext]_AllVars
===============================================================================
