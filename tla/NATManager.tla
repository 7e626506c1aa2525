----------------------------- MODULE NATManager -----------------------------
(***************************************************************************)
(* The NAT rules of the VPN server: class NATManager of server/nat.py.     *)
(* setup() and teardown() run their commands without anyone looking in     *)
(* between, and the object has no state: a call is one step, with a set of *)
(* commands that fail.  A call that is cut off is one whose last commands  *)
(* fail.                                                                   *)
(*                                                                         *)
(* A rule is a pair of a kind and an interface.  The kinds of Linux are    *)
(* "masquerade", "forward_out" and "forward_in"; on Windows, "full" stands *)
(* for the TUN interface and "private" for the one found at setup().       *)
(***************************************************************************)
EXTENDS Naturals, HostPlatform

CONSTANTS Ifaces,   \* interfaces that may have the default route; eth0 is one
          Tun,      \* the TUN interface
          NoIface,  \* on Windows: none of the lines that are looked at
          MaxSetups \* bound: how many times setup() and teardown() are called

ASSUME IfacesAssumption == Tun \notin Ifaces /\ NoIface \notin Ifaces \cup {Tun}
ASSUME SetupsAssumption == MaxSetups \in Nat

VARIABLES
  main_iface,  \* what _get_main_interface() or the output of netsh leads to
  nat,         \* nat[r]: how often the rule r is there
  ip_forward,  \* the kernel forwards packets
  nat_call,    \* the latest call, and what it returned
  nat_result,
  failed,      \* a command of some call so far has failed
  moved,       \* the main interface has changed since the first call
  setups       \* how many calls there were, for the bound

natVars == <<main_iface, nat, ip_forward, nat_call, nat_result, failed, moved, setups>>

LinuxKinds == {"masquerade", "forward_out", "forward_in"}

NATRules == (LinuxKinds \X Ifaces) \cup ({"private"} \X Ifaces) \cup {<<"full", Tun>>}

NATTypeOK ==
  /\ main_iface \in IF platform = "Windows" THEN Ifaces \cup {NoIface} ELSE Ifaces
  /\ nat \in [NATRules -> 0..MaxSetups]
  /\ nat_call \in {"none", "setup", "teardown"}
  /\ ip_forward \in BOOLEAN /\ nat_result \in BOOLEAN /\ failed \in BOOLEAN /\ moved \in BOOLEAN
  /\ setups \in 0..MaxSetups

NATInit ==
  /\ platform \in {"Linux", "Windows"}
  /\ main_iface \in IF platform = "Windows" THEN Ifaces \cup {NoIface} ELSE Ifaces
  /\ nat = [r \in NATRules |-> 0] /\ ip_forward = FALSE
  /\ nat_call = "none" /\ nat_result = TRUE
  /\ failed = FALSE /\ moved = FALSE /\ setups = 0

Called(name, result, failures) ==
  /\ setups < MaxSetups /\ setups' = setups + 1
  /\ nat_call' = name /\ nat_result' = result
  /\ failed' = (failed \/ failures # {})
  /\ UNCHANGED <<platform, main_iface, moved>>

\* Mutated form: the rule of an earlier setup() is not deleted first.
Cleared_Nothing(failures) == nat

\* iptables -D before -A; when there is no rule to delete it does nothing.
Cleared(failures) ==
  LET r == <<"masquerade", main_iface>>
  IN  [nat EXCEPT ![r] = IF "clear" \in failures \/ @ = 0 THEN @ ELSE @ - 1]

\* Mutated form: only the last command decides what is returned.
Success_Last(failures) == "forward_in" \notin failures

\* That there was nothing to clear is no failure ("|| true").
Success(failures) == failures \subseteq {"clear"}

\* Forwarding, then the rules of the main interface; a command that fails does
\* not keep the next ones from being run.
SetupLinux == \E failures \in SUBSET ({"forwarding", "clear"} \cup LinuxKinds) :
  /\ platform = "Linux"
  /\ ip_forward' = (ip_forward \/ "forwarding" \notin failures)
  /\ nat' = [r \in NATRules |-> IF r \in (LinuxKinds \ failures) \X {main_iface}
                                THEN Cleared(failures)[r] + 1 ELSE Cleared(failures)[r]]
  /\ Called("setup", Success(failures), failures)

\* One rule of each kind of what is the main interface now; nobody looks at
\* failures, and forwarding stays on.
TeardownLinux == \E failures \in SUBSET LinuxKinds :
  /\ platform = "Linux"
  /\ nat' = [r \in NATRules |-> IF r \in (LinuxKinds \ failures) \X {main_iface} /\ nat[r] > 0
                                THEN nat[r] - 1 ELSE nat[r]]
  /\ UNCHANGED ip_forward
  /\ Called("teardown", TRUE, failures)

\* The TUN interface and, if one was found, the main interface; adding an
\* interface that is there fails.
SetupWindows == \E failures \in SUBSET {"full", "private"} :
  LET wanted == {<<"full", Tun>>} \cup ({"private"} \X (Ifaces \cap {main_iface}))
  IN  /\ platform = "Windows"
      /\ \A r \in wanted : nat[r] > 0 => r[1] \in failures
      /\ nat' = [r \in NATRules |-> IF r \in wanted /\ r[1] \notin failures THEN 1 ELSE nat[r]]
      /\ UNCHANGED ip_forward
      /\ Called("setup", \A r \in wanted : r[1] \notin failures, failures)

\* Only the TUN interface is taken out.
TeardownWindows == \E failures \in SUBSET {"full"} :
  /\ platform = "Windows"
  /\ nat' = [nat EXCEPT ![<<"full", Tun>>] = IF failures = {} THEN 0 ELSE @]
  /\ UNCHANGED ip_forward
  /\ Called("teardown", TRUE, failures)

\* Another interface gets the default route, or is listed first.
InterfaceChanges ==
  /\ main_iface' \in (IF platform = "Windows" THEN Ifaces \cup {NoIface} ELSE Ifaces) \ {main_iface}
  /\ moved' = (moved \/ setups > 0)
  /\ UNCHANGED <<platform, nat, ip_forward, nat_call, nat_result, failed, setups>>

NATNext == SetupLinux \/ TeardownLinux \/ SetupWindows \/ TeardownWindows \/ InterfaceChanges

NATSpec == NATInit /\ [][NATNext]_<<platform, natVars>>

-----------------------------------------------------------------------------
(* Properties. *)

Translated(i) == nat[<<"masquerade", i>>]

\* What a setup() that returned True stands for, whatever failed in earlier
\* calls and whatever they deleted: on Linux packets are forwarded and all of the
\* rules for one interface are in place.  On Windows only the entry of the TUN
\* interface is: there setup() switches no forwarding on, and it returns True
\* without an entry for any other interface when it finds none, against its
\* docstring "True if successful" (server/nat.py:36, 64-65, 71-92).
NATInPlace == nat_call = "setup" /\ nat_result =>
  IF platform = "Windows" THEN nat[<<"full", Tun>>] > 0
  ELSE ip_forward /\ \E i \in Ifaces : \A k \in LinuxKinds : nat[<<k, i>>] > 0

\* On Linux, as long as no command fails, packets are translated by one rule of
\* each interface at most, over any number of calls, and after a teardown() by
\* none unless the default route has moved in between.
NATRemoved == platform = "Linux" /\ ~failed => \A i \in Ifaces :
  /\ Translated(i) <= 1
  /\ nat_call = "teardown" /\ ~moved => Translated(i) = 0
=============================================================================
