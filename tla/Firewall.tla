------------------------------ MODULE Firewall ------------------------------
(***************************************************************************)
(* The two classes of server/nat.py that change the rules of the host, on  *)
(* one host.  They work on different tables and chains, so that a          *)
(* behaviour uses one of the two.                                          *)
(***************************************************************************)
EXTENDS KillSwitch, NATManager

VARIABLE object  \* the class that is used

FirewallInit == Init /\ NATInit /\ object \in {"KillSwitch", "NATManager"}

switchVars == <<enabled, rules, call, busy, host, todo, success, calls, disturbed>>

FirewallNext ==
  \/ object = "KillSwitch" /\ Next /\ UNCHANGED <<object, natVars>>
  \/ object = "NATManager" /\ NATNext /\ UNCHANGED <<object, switchVars>>

FirewallSpec == FirewallInit /\ [][FirewallNext]_<<object, vars, natVars>>

FirewallTypeOK == TypeOK /\ NATTypeOK
=============================================================================
