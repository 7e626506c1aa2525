----------------------------- MODULE KillSwitch -----------------------------
(***************************************************************************)
(* The kill switch of server/nat.py: enable() and disable() run a list of  *)
(* firewall commands one by one; each may fail.  The rules belong to the   *)
(* operating system and outlive the process, the flag _enabled does not.   *)
(*                                                                         *)
(* A rule is a pair of a kind and of the host it names.  The kinds are     *)
(* "vpn" (marks the tunnel's packets on Linux, allows them on Windows),    *)
(* "block", "dns", "dns_tcp" and "server".                                 *)
(***************************************************************************)
EXTENDS Naturals, SequencesExt, HostPlatform

CONSTANTS Hosts,    \* VPN servers that enable() may be told to exempt
          NoHost,   \* server_host is None
          MaxCalls  \* bound: how many times the firewall commands are run

\* The hosts are told apart from the kinds of traffic below.
ASSUME HostsAssumption == Hosts \cap {NoHost, "vpn", "tun", "dns", "other"} = {}
ASSUME CallsAssumption == MaxCalls \in Nat

VARIABLES
  enabled,   \* _enabled
  chain,     \* on Linux, the rules in force in the order they were added
  firewall,  \* on Windows, the set of rules in force: netsh deletes all rules
             \* of a name, so that it does not matter how many there are
  call,      \* the latest call of the program, and whether it is going on
  busy,
  host,      \* server_host of the latest enable()
  todo,      \* the commands it still has to run
  success,   \* its local variable success
  calls,     \* how many calls have run commands, for the bound
  disturbed  \* a command has failed or the process was killed at some time

rules == <<chain, firewall>>

vars == <<platform, enabled, rules, call, busy, host, todo, success, calls, disturbed>>

Rule(kind) == <<kind, NoHost>>

Rules == ({"vpn", "block", "dns", "dns_tcp"} \X {NoHost}) \cup ({"server"} \X Hosts)

Commands == ({"add"} \X Rules) \cup ({"delete"} \X (Rules \cup {Rule("server")}))

Init ==
  /\ platform \in {"Linux", "Windows"}
  /\ enabled = FALSE
  /\ chain = <<>> /\ firewall = {}
  /\ call = "none" /\ busy = FALSE /\ host = NoHost
  /\ todo = <<>> /\ success = TRUE
  /\ calls = 0 /\ disturbed = FALSE

-----------------------------------------------------------------------------
(* The lists of commands. *)

Each(action, rs) == [i \in DOMAIN rs |-> <<action, rs[i]>>]

\* Mutated form: the rule for the server is added without looking whether
\* there is one.
ServerRule_Always(h) == << <<"server", h>> >>

ServerRule(h) == IF h = NoHost THEN <<>> ELSE << <<"server", h>> >>

EnableWindows(h) == <<Rule("block"), Rule("vpn"), Rule("dns")>> \o ServerRule(h)

\* Mutated form: the traffic is blocked before the tunnel's packets are marked.
EnableLinux_BlockFirst(h) ==
  <<Rule("block"), Rule("vpn")>> \o ServerRule(h) \o <<Rule("dns"), Rule("dns_tcp")>>

EnableLinux(h) ==
  <<Rule("vpn")>> \o ServerRule(h) \o <<Rule("block"), Rule("dns"), Rule("dns_tcp")>>

EnableCommands(h) ==
  Each("add", IF platform = "Windows" THEN EnableWindows(h) ELSE EnableLinux(h))

DisableWindows == <<Rule("block"), Rule("vpn"), Rule("dns"), Rule("server")>>

DisableLinux == <<Rule("vpn"), Rule("block"), Rule("dns"), Rule("dns_tcp")>>

DisableCommands ==
  Each("delete", IF platform = "Windows" THEN DisableWindows ELSE DisableLinux)

\* What a command does when it succeeds: iptables -A appends a rule and -D
\* deletes the first one of that form.
Iptables(action, r) ==
  \/ action = "add" /\ chain' = Append(chain, r)
  \/ /\ action = "delete"
     /\ \E i \in DOMAIN chain : /\ chain[i] = r
                                /\ \A j \in 1..(i - 1) : chain[j] # r
                                /\ chain' = RemoveAt(chain, i)

Netsh(action, r) ==
  firewall' = IF action = "add" THEN firewall \cup {r}
                                ELSE {q \in firewall : q[1] # r[1]}

Execute(action, r) ==
  IF platform = "Windows" THEN Netsh(action, r) /\ UNCHANGED chain
                          ELSE Iptables(action, r) /\ UNCHANGED firewall

-----------------------------------------------------------------------------
(* The calls. *)

Start(name, h, commands) ==
  /\ ~busy /\ calls < MaxCalls
  /\ call' = name /\ busy' = TRUE /\ host' = h
  /\ todo' = commands /\ success' = TRUE
  /\ calls' = calls + 1
  /\ UNCHANGED <<platform, enabled, rules, disturbed>>

\* Mutated form: the test of _enabled is missing.
Enable_Again(h) == Start("enable", h, EnableCommands(h))

\* enable(server_host); when the switch is enabled it returns at once.
Enable(h) == ~enabled /\ Start("enable", h, EnableCommands(h))

Disable == enabled /\ Start("disable", host, DisableCommands)

\* disable() of a switch that is not enabled returns True at once.
DisableNothing ==
  /\ ~busy /\ ~enabled
  /\ call' = "disable"
  /\ UNCHANGED <<platform, enabled, rules, busy, host, todo, success, calls, disturbed>>

\* The next command is run.  Only enable() looks whether it failed, and it
\* goes on in either case.
RunCommand ==
  /\ busy /\ todo # <<>>
  /\ todo' = Tail(todo)
  /\ \/ Execute(Head(todo)[1], Head(todo)[2]) /\ UNCHANGED <<success, disturbed>>
     \/ /\ success' = (success /\ call = "disable")
        /\ disturbed' = TRUE
        /\ UNCHANGED rules
  /\ UNCHANGED <<platform, enabled, call, busy, host, calls>>

\* Mutated form: the flag is set whether the commands succeeded or not.
Return_Unconditional ==
  /\ busy /\ todo = <<>>
  /\ busy' = FALSE
  /\ enabled' = (call = "enable")
  /\ UNCHANGED <<platform, rules, call, host, todo, success, calls, disturbed>>

\* The call returns success, and sets the flag only then.
Return ==
  /\ busy /\ todo = <<>>
  /\ busy' = FALSE
  /\ enabled' = IF success THEN call = "enable" ELSE enabled
  /\ UNCHANGED <<platform, rules, call, host, todo, success, calls, disturbed>>

\* The process ends and a new one makes a new KillSwitch.
Restart ==
  /\ enabled' = FALSE /\ call' = "none" /\ busy' = FALSE /\ host' = NoHost
  /\ todo' = <<>> /\ success' = TRUE
  /\ disturbed' = TRUE
  /\ UNCHANGED <<platform, rules, calls>>

Next == \/ \E h \in Hosts \cup {NoHost} : Enable(h)
        \/ Disable \/ DisableNothing \/ RunCommand \/ Return \/ Restart

Spec == Init /\ [][Next]_vars

-----------------------------------------------------------------------------
(* Which traffic the firewall lets out.  "vpn" is what the client sends to *)
(* the port of the VPN server: the encapsulated datagrams.  "tun" is what  *)
(* applications send through the tunnel: it leaves by the TUN interface,   *)
(* which is not lo, and nothing marks it.  "dns" is a query for a name, a  *)
(* host stands for other packets to that server, and "other" for the rest. *)

Traffic == {"vpn", "tun", "dns", "other"} \cup Hosts

Stops(r, t) == r[1] = "block" /\ ~(t = "vpn" /\ Contains(chain, Rule("vpn")))

Allows(r, t) == \/ r[1] \in {"dns", "dns_tcp"} /\ t = "dns"
                \/ r = <<"server", t>>

\* On Linux the first rule that matches decides; on Windows a rule that blocks
\* outranks those that allow.
Blocked(t) ==
  IF platform = "Windows"
  THEN Rule("block") \in firewall
  ELSE \E i \in DOMAIN chain : /\ Stops(chain[i], t)
                               /\ \A j \in 1..(i - 1) : ~Allows(chain[j], t)

-----------------------------------------------------------------------------
(* Properties. *)

TypeOK ==
  /\ platform \in {"Linux", "Windows"}
  /\ enabled \in BOOLEAN /\ busy \in BOOLEAN /\ success \in BOOLEAN /\ disturbed \in BOOLEAN
  /\ chain \in Seq(Rules) /\ firewall \subseteq Rules /\ todo \in Seq(Commands)
  /\ call \in {"none", "enable", "disable"}
  /\ host \in Hosts \cup {NoHost}
  /\ calls \in 0..MaxCalls

\* Whenever the switch calls itself enabled, no other traffic gets out,
\* whatever failed in this attempt or in earlier ones.
EnabledBlocks == enabled /\ ~busy => Blocked("other")

\* On Linux, as long as no command fails: the encapsulated datagrams and the
\* server that enable() was told to exempt are not cut off at any time while the
\* switch is being enabled and while it is enabled; and an enabled switch stops
\* what applications send into the tunnel, and their queries for names, as it
\* stops everything else.  That it stops these two is against the docstring
\* "Blocks all traffic except VPN and essential services", the "! -o tun0" of
\* the demonstration and the comment "Allow DNS" (server/nat.py:227, 351, 426).
OnlyExemptPass == platform = "Linux" /\ call = "enable" /\ ~disturbed =>
  /\ ~Blocked("vpn")
  /\ host # NoHost => ~Blocked(host)
  /\ enabled /\ ~busy => Blocked("tun") /\ Blocked("dns")

\* As long as no command fails, all traffic is let out again whenever the
\* switch is not enabled, over any sequence of calls.
DisabledPasses == ~enabled /\ ~busy /\ ~disturbed => \A t \in Traffic : ~Blocked(t)
=============================================================================
