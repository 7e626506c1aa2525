--------------------------- MODULE FirewallProofs ---------------------------
(***************************************************************************)
(* Proofs about the two classes of server/nat.py, for any hosts and        *)
(* interfaces, any number of calls, and any commands that fail: KillSwitch *)
(* first, then NATManager, then the two of them on one host.               *)
(***************************************************************************)
EXTENDS Firewall, SequenceTheorems, TLAPS

-----------------------------------------------------------------------------
(* The kill switch: an enabled one blocks. *)

AddBlock == <<"add", Rule("block")>>

\* The rule that blocks is in force.
Blocking == IF platform = "Windows" THEN Rule("block") \in firewall
                                    ELSE \E i \in DOMAIN chain : chain[i] = Rule("block")

\* An enable() that has met no failure has added the rule that blocks or is
\* still to add it, and it deletes nothing; a disable() always succeeds.
SwitchInv ==
  /\ enabled /\ ~busy => Blocking
  /\ enabled /\ busy => call = "disable"
  /\ busy /\ call = "disable" => success
  /\ busy => call \in {"enable", "disable"}
  /\ busy /\ call = "enable" => \A i \in DOMAIN todo : todo[i][1] = "add"
  /\ busy /\ call = "enable" /\ success =>
       Blocking \/ \E i \in DOMAIN todo : todo[i] = AddBlock

\* The types the proof needs.
SwitchTypes ==
  /\ chain \in Seq(Rules) /\ firewall \subseteq Rules /\ todo \in Seq(Commands)
  /\ enabled \in BOOLEAN /\ busy \in BOOLEAN /\ success \in BOOLEAN
  /\ platform \in {"Linux", "Windows"}

\* What is in force blocks other traffic, on either platform.
LEMMA BlockingBlocks == ASSUME chain \in Seq(Rules), Blocking PROVE Blocked("other")
<1>1. CASE platform = "Windows"
  BY <1>1 DEF Blocking, Blocked
<1>2. CASE platform # "Windows"
  <2>1. PICK i \in DOMAIN chain : chain[i] = Rule("block")
    BY <1>2 DEF Blocking
  <2>2. \A j \in DOMAIN chain : ~Allows(chain[j], "other")
    BY HostsAssumption DEF Allows, Rules
  <2>3. Stops(chain[i], "other")
    BY <2>1 DEF Stops, Rule
  <2> QED
    BY <1>2, <2>1, <2>2, <2>3 DEF Blocked
<1> QED
  BY <1>1, <1>2

\* Short sequences, and the place where a concatenation continues.
LEMMA Empty == ASSUME NEW S PROVE <<>> \in Seq(S)
  OBVIOUS

\* A sequence of one element.
LEMMA One == ASSUME NEW S, NEW a \in S PROVE <<a>> \in Seq(S)
  OBVIOUS

\* A sequence of three, and its first element.
LEMMA Three ==
  ASSUME NEW S, NEW a \in S, NEW b \in S, NEW c \in S
  PROVE  <<a, b, c>> \in Seq(S) /\ Len(<<a, b, c>>) = 3 /\ <<a, b, c>>[1] = a
  OBVIOUS

\* A sequence of four elements.
LEMMA Four ==
  ASSUME NEW S, NEW a \in S, NEW b \in S, NEW c \in S, NEW d \in S
  PROVE  <<a, b, c, d>> \in Seq(S)
  OBVIOUS

\* A concatenation, and where its second part begins.
LEMMA Joined ==
  ASSUME NEW S, NEW s \in Seq(S), NEW t \in Seq(S)
  PROVE  /\ s \o t \in Seq(S) /\ Len(s \o t) = Len(s) + Len(t)
         /\ \A i \in 1..Len(s) : (s \o t)[i] = s[i]
         /\ \A k \in 1..Len(t) : (s \o t)[Len(s) + k] = t[k]
OBVIOUS

\* A place behind the first m of m + n places is one of the other n.
LEMMA SecondPart ==
  ASSUME NEW m \in Nat, NEW n \in Nat, NEW i \in 1..(m + n), ~(i <= m)
  PROVE  \E k \in 1..n : i = m + k
<1>1. i - m \in 1..n /\ i = m + (i - m)
  OBVIOUS
<1> QED
  BY <1>1

\* An entry of a concatenation behind its first part is one of the second.
LEMMA JoinedAt ==
  ASSUME NEW S, NEW s \in Seq(S), NEW t \in Seq(S), NEW i \in DOMAIN (s \o t),
         ~(i <= Len(s))
  PROVE  \E k \in 1..Len(t) : i = Len(s) + k /\ (s \o t)[i] = t[k]
<1>1. Len(s) \in Nat /\ Len(t) \in Nat /\ i \in 1..(Len(s) + Len(t))
  BY Joined
<1>2. PICK k \in 1..Len(t) : i = Len(s) + k
  BY <1>1, SecondPart
<1> QED
  BY <1>2, Joined

\* Each list of enable() has the rule that blocks.
LEMMA EnableLists ==
  ASSUME NEW h \in Hosts \cup {NoHost}
  PROVE  /\ EnableWindows(h) \in Seq(Rules) /\ EnableLinux(h) \in Seq(Rules)
         /\ \E i \in DOMAIN EnableWindows(h) : EnableWindows(h)[i] = Rule("block")
         /\ \E i \in DOMAIN EnableLinux(h) : EnableLinux(h)[i] = Rule("block")
<1> DEFINE vpn == Rule("vpn")  block == Rule("block")  dns == Rule("dns")
           tcp == Rule("dns_tcp")  server == ServerRule(h)
<1>1. server \in Seq(Rules)
  <2>1. CASE h = NoHost
    BY <2>1, Empty DEF ServerRule
  <2>2. CASE h # NoHost
    <3>1. <<"server", h>> \in Rules
      BY <2>2 DEF Rules
    <3> QED
      BY <2>2, <3>1, One DEF ServerRule
  <2> QED
    BY <2>1, <2>2
<1>2. vpn \in Rules /\ block \in Rules /\ dns \in Rules /\ tcp \in Rules
  BY DEF Rule, Rules
<1>3. /\ EnableWindows(h) = <<block, vpn, dns>> \o server
      /\ EnableLinux(h) = (<<vpn>> \o server) \o <<block, dns, tcp>>
  BY DEF EnableWindows, EnableLinux
<1> HIDE DEF vpn, block, dns, tcp, server
<1>4. /\ <<block, vpn, dns>> \in Seq(Rules) /\ Len(<<block, vpn, dns>>) = 3
      /\ <<block, vpn, dns>>[1] = block
      /\ <<block, dns, tcp>> \in Seq(Rules) /\ Len(<<block, dns, tcp>>) = 3
      /\ <<block, dns, tcp>>[1] = block
      /\ <<vpn>> \in Seq(Rules)
  BY <1>2, Three
<1>5. /\ EnableWindows(h) \in Seq(Rules) /\ 1 \in DOMAIN EnableWindows(h)
      /\ EnableWindows(h)[1] = block
  BY <1>1, <1>3, <1>4, Joined
<1>6. <<vpn>> \o server \in Seq(Rules)
  BY <1>1, <1>4, Joined
<1>7. /\ EnableLinux(h) \in Seq(Rules)
      /\ \E i \in DOMAIN EnableLinux(h) : EnableLinux(h)[i] = block
  <2> DEFINE front == <<vpn>> \o server  back == <<block, dns, tcp>>
  <2>1. front \in Seq(Rules) /\ back \in Seq(Rules) /\ Len(back) > 0 /\ back[1] = block
    BY <1>4, <1>6
  <2>2. EnableLinux(h) = front \o back
    BY <1>3
  <2> HIDE DEF front, back
  <2>3. /\ front \o back \in Seq(Rules) /\ Len(front) + 1 \in DOMAIN (front \o back)
        /\ (front \o back)[Len(front) + 1] = back[1]
    BY <2>1, Joined
  <2> QED
    BY <2>1, <2>2, <2>3
<1> QED
  BY <1>5, <1>7 DEF block

\* The commands of enable() add, the rule that blocks among others; all lists
\* consist of commands.
LEMMA CallCommands ==
  ASSUME NEW h \in Hosts \cup {NoHost}
  PROVE  /\ EnableCommands(h) \in Seq(Commands)
         /\ \A i \in DOMAIN EnableCommands(h) : EnableCommands(h)[i][1] = "add"
         /\ \E i \in DOMAIN EnableCommands(h) : EnableCommands(h)[i] = AddBlock
         /\ DisableCommands \in Seq(Commands)
<1> DEFINE rs == IF platform = "Windows" THEN EnableWindows(h) ELSE EnableLinux(h)
           ds == IF platform = "Windows" THEN DisableWindows ELSE DisableLinux
           Deletable == Rules \cup {Rule("server")}
<1>1. rs \in Seq(Rules) /\ \E i \in DOMAIN rs : rs[i] = Rule("block")
  BY EnableLists
<1>2. Rule("vpn") \in Deletable /\ Rule("block") \in Deletable /\ Rule("dns") \in Deletable
        /\ Rule("dns_tcp") \in Deletable /\ Rule("server") \in Deletable
  BY DEF Rule, Rules
<1>3. DisableWindows \in Seq(Deletable) /\ DisableLinux \in Seq(Deletable)
  <2> HIDE DEF Deletable
  <2> QED
    BY <1>2, Four DEF DisableWindows, DisableLinux
<1>4. ds \in Seq(Deletable)
  BY <1>3
<1>5. EnableCommands(h) = Each("add", rs) /\ DisableCommands = Each("delete", ds)
  BY DEF EnableCommands, DisableCommands
<1> HIDE DEF rs, ds
<1>6. /\ Each("add", rs) \in Seq(Commands) /\ DOMAIN Each("add", rs) = DOMAIN rs
      /\ \A i \in DOMAIN rs : Each("add", rs)[i] = <<"add", rs[i]>>
  BY <1>1 DEF Each, Commands
<1>7. Each("delete", ds) \in Seq(Commands)
  BY <1>4 DEF Each, Commands
<1>8. \A i \in DOMAIN rs : <<"add", rs[i]>>[1] = "add"
  OBVIOUS
<1>9. \A i \in DOMAIN Each("add", rs) : Each("add", rs)[i][1] = "add"
  BY <1>6, <1>8
<1>10. \E i \in DOMAIN Each("add", rs) : Each("add", rs)[i] = AddBlock
  BY <1>1, <1>6 DEF AddBlock
<1> QED
  BY <1>5, <1>6, <1>7, <1>9, <1>10

\* The invariant of the switch holds at first.
LEMMA SwitchInit == Init => SwitchTypes /\ SwitchInv
<1>1. Init => SwitchTypes
  BY Empty DEF Init, SwitchTypes
<1>2. Init => SwitchInv
  BY DEF Init, SwitchInv
<1> QED
  BY <1>1, <1>2

\* The entries of a list behind the first one.
LEMMA TailEntries ==
  ASSUME NEW S, NEW s \in Seq(S), s # <<>>
  PROVE  /\ Head(s) = s[1] /\ 1 \in DOMAIN s /\ Tail(s) \in Seq(S)
         /\ DOMAIN Tail(s) = 1..(Len(s) - 1) /\ DOMAIN s = 1..Len(s) /\ Len(s) \in Nat
         /\ \A j \in DOMAIN Tail(s) : Tail(s)[j] = s[j + 1] /\ j + 1 \in DOMAIN s /\ j + 1 # 1
         /\ \A i \in DOMAIN s : i # 1 => i - 1 \in DOMAIN Tail(s) /\ Tail(s)[i - 1] = s[i]
<1>1. /\ Head(s) = s[1] /\ 1 \in DOMAIN s /\ Tail(s) \in Seq(S)
      /\ DOMAIN Tail(s) = 1..(Len(s) - 1) /\ DOMAIN s = 1..Len(s) /\ Len(s) \in Nat
      /\ \A j \in DOMAIN Tail(s) : Tail(s)[j] = s[j + 1]
  OBVIOUS
<1>2. \A j \in DOMAIN Tail(s) : j + 1 \in DOMAIN s /\ j + 1 # 1
  BY <1>1
<1>3. \A i \in DOMAIN s : i # 1 => i - 1 \in DOMAIN Tail(s) /\ Tail(s)[i - 1] = s[i]
  BY <1>1
<1> QED
  BY <1>1, <1>2, <1>3

\* The first entry of a list that is not empty, and the rest.
LEMMA HeadTail ==
  ASSUME NEW S, NEW s \in Seq(S), s # <<>>
  PROVE  /\ Head(s) \in S /\ Tail(s) \in Seq(S)
         /\ \A i \in DOMAIN s : s[i] = Head(s) \/ \E j \in DOMAIN Tail(s) : Tail(s)[j] = s[i]
         /\ \A j \in DOMAIN Tail(s) : \E i \in DOMAIN s : Tail(s)[j] = s[i]
<1>1. Head(s) \in S
  OBVIOUS
<1> QED
  BY <1>1, TailEntries

\* RemoveAt() moves what follows one place down.
LEMMA Removed == ASSUME NEW S, NEW s \in Seq(S), NEW i \in DOMAIN s
  PROVE /\ RemoveAt(s, i) \in Seq(S) /\ Len(RemoveAt(s,i)) = Len(s) - 1
        /\ \A j \in 1..(Len(s) - 1) : RemoveAt(s, i)[j] = IF j < i THEN s[j] ELSE s[j + 1]
<1> DEFINE f == SubSeq(s, 1, i - 1)  b == SubSeq(s, i + 1, Len(s)) r == RemoveAt(s, i)
<1>1. /\ f \in Seq(S) /\ b \in Seq(S) /\ Len(f) = i - 1 /\ Len(b) = Len(s) - i
  OBVIOUS
<1>2. /\ \A j \in 1..(i - 1) : f[j] = s[j]
      /\ \A j \in 1..(Len(s) - i) : b[j] = s[i + j]
      /\ Len(s) \in Nat /\ i \in 1..Len(s)
  OBVIOUS
<1>3. r = f \o b
  BY DEF RemoveAt
<1> HIDE DEF f, b, r
<1>4. r \in Seq(S) /\ Len(r) = Len(s) - 1
  BY <1>1, <1>2, <1>3, Joined
<1>5. ASSUME NEW j \in 1..(Len(s) - 1), j < i PROVE r[j] = s[j]
  BY <1>1, <1>2, <1>3, <1>5, Joined
<1>6. ASSUME NEW j \in 1..(Len(s) - 1), ~(j < i) PROVE r[j] = s[j + 1]
  <2>1. PICK k \in 1..Len(b) : j = Len(f) + k /\ r[j] = b[k]
    <3>1. j \in DOMAIN r
      BY <1>1, <1>2, <1>4, <1>6
    <3>2. ~(j <= Len(f))
      BY <1>1, <1>2, <1>6
    <3>3. f \in Seq(S) /\ b \in Seq(S) /\ j \in DOMAIN (f \o b)
      BY <1>1, <1>3, <3>1
    <3>4. \E k \in 1..Len(b) : j = Len(f) + k /\ (f \o b)[j] = b[k]
      BY <3>2, <3>3, JoinedAt
    <3> QED
      BY <1>3, <3>4
  <2>2. b[k] = s[i + k]
    BY <1>1, <1>2, <2>1
  <2>3. i + k = j + 1
    BY <1>1, <1>2, <2>1
  <2> QED
    BY <2>1, <2>2, <2>3
<1> QED BY <1>4, <1>5, <1>6 DEF r

\* A command keeps the types; one that adds keeps the rule that blocks, or
\* adds it.
LEMMA ExecuteKeeps ==
  ASSUME SwitchTypes, NEW command \in Commands, Execute(command[1], command[2]),
         UNCHANGED platform
  PROVE  /\ chain' \in Seq(Rules) /\ firewall' \subseteq Rules
         /\ command[1] = "add" => (Blocking \/ command = AddBlock => Blocking')
<1> USE DEF SwitchTypes
<1>1. /\ command[1] = "add" => command[2] \in Rules
      /\ command = <<command[1], command[2]>>
      /\ command[1] \in {"add", "delete"}
  BY DEF Commands
<1>2. command = AddBlock => command[2] = Rule("block")
  BY DEF AddBlock
<1>3. CASE platform = "Windows"
  BY <1>1, <1>2, <1>3 DEF Execute, Netsh, Blocking
<1>4. CASE platform # "Windows" /\ command[1] = "add"
  <2>1. chain' = Append(chain, command[2]) /\ firewall' = firewall
    BY <1>4 DEF Execute, Iptables
  <2>2. /\ chain' \in Seq(Rules) /\ DOMAIN chain' = 1..(Len(chain) + 1)
        /\ DOMAIN chain = 1..Len(chain) /\ Len(chain) \in Nat
        /\ chain'[Len(chain) + 1] = command[2]
        /\ \A i \in DOMAIN chain : chain'[i] = chain[i]
    BY <1>1, <1>4, <2>1
  <2>3. Len(chain) + 1 \in DOMAIN chain' /\ \A i \in DOMAIN chain : i \in DOMAIN chain'
    BY <2>2
  <2> QED
    BY <1>2, <1>4, <2>1, <2>2, <2>3 DEF Blocking
<1>5. CASE platform # "Windows" /\ command[1] = "delete"
  BY <1>5, Removed DEF Execute, Iptables
<1> QED
  BY <1>1, <1>3, <1>4, <1>5

\* A command of a call is run, or fails.
LEMMA RunCommandKeeps ==
  ASSUME SwitchTypes, SwitchInv, RunCommand
  PROVE  SwitchTypes' /\ SwitchInv'
<1> DEFINE command == Head(todo)
<1>1. /\ busy /\ todo # <<>> /\ todo' = Tail(todo)
      /\ UNCHANGED <<platform, enabled, call, busy>>
  BY DEF RunCommand
<1>2. /\ command \in Commands /\ Tail(todo) \in Seq(Commands)
      /\ \A i \in DOMAIN todo :
           todo[i] = command \/ \E j \in DOMAIN Tail(todo) : Tail(todo)[j] = todo[i]
      /\ \A j \in DOMAIN Tail(todo) : \E i \in DOMAIN todo : Tail(todo)[j] = todo[i]
  BY <1>1, HeadTail DEF SwitchTypes
<1>3. call = "enable" => command[1] = "add"
  <2>1. 1 \in DOMAIN todo /\ command = todo[1]
    BY <1>1 DEF SwitchTypes
  <2> QED
    BY <1>1, <2>1 DEF SwitchInv
<1> HIDE DEF command
<1>4. CASE Execute(command[1], command[2]) /\ UNCHANGED <<success, disturbed>>
  <2>1. /\ chain' \in Seq(Rules) /\ firewall' \subseteq Rules
        /\ command[1] = "add" => (Blocking \/ command = AddBlock => Blocking')
    BY <1>1, <1>2, <1>4, ExecuteKeeps
  <2> QED
    BY <1>1, <1>2, <1>3, <1>4, <2>1 DEF SwitchTypes, SwitchInv
<1>5. CASE success' = (success /\ call = "disable") /\ UNCHANGED rules
  <2>1. Blocking' <=> Blocking
    BY <1>1, <1>5 DEF Blocking, rules
  <2>2. success' \in BOOLEAN /\ (call = "enable" => ~success')
    BY <1>5 DEF SwitchTypes
  <2> QED
    BY <1>1, <1>2, <1>5, <2>1, <2>2 DEF SwitchTypes, SwitchInv, rules
<1> QED
  BY <1>4, <1>5 DEF RunCommand, command

\* Every step keeps the invariant.
LEMMA SwitchNext == SwitchTypes /\ SwitchInv /\ [Next]_vars => SwitchTypes' /\ SwitchInv'
<1> SUFFICES ASSUME SwitchTypes, SwitchInv, [Next]_vars
             PROVE  SwitchTypes' /\ SwitchInv'
  OBVIOUS
<1>1. ASSUME NEW h \in Hosts \cup {NoHost}, Enable(h)
      PROVE  SwitchTypes' /\ SwitchInv'
  BY <1>1, CallCommands DEF Enable, Start, SwitchTypes, SwitchInv, rules
<1>2. CASE Disable
  <2>1. DisableCommands \in Seq(Commands)
    BY CallCommands
  <2> QED
    BY <1>2, <2>1 DEF Disable, Start, SwitchTypes, SwitchInv, rules
<1>3. CASE DisableNothing
  BY <1>3 DEF DisableNothing, SwitchTypes, SwitchInv, rules
<1>4. CASE RunCommand
  BY <1>4, RunCommandKeeps
<1>5. CASE Return
  <2>1. todo = <<>> /\ DOMAIN todo = {}
    BY <1>5 DEF Return
  <2>2. Blocking' <=> Blocking
    BY <1>5 DEF Return, Blocking, rules
  <2> QED
    BY <1>5, <2>1, <2>2 DEF Return, SwitchTypes, SwitchInv, rules
<1>6. CASE Restart
  BY <1>6, Empty DEF Restart, SwitchTypes, SwitchInv, rules
<1>7. CASE UNCHANGED vars
  BY <1>7 DEF vars, rules, SwitchTypes, SwitchInv, Blocking
<1> QED
  BY <1>1, <1>2, <1>3, <1>4, <1>5, <1>6, <1>7 DEF Next

\* An enabled switch blocks other traffic, for any hosts and any number of
\* calls, failing commands and restarts.
THEOREM SwitchBlocks == Spec => []EnabledBlocks
<1>1. SwitchTypes /\ SwitchInv => EnabledBlocks
  BY BlockingBlocks DEF SwitchTypes, SwitchInv, EnabledBlocks
<1> QED
  BY <1>1, SwitchInit, SwitchNext, PTL DEF Spec

-----------------------------------------------------------------------------
(* The kill switch: as long as no command fails it lets only the exempted    *)
(* traffic through once it is enabled, and all traffic once it is disabled.  *)

DeleteBlock == <<"delete", Rule("block")>>

Missing(r) == \A i \in DOMAIN chain : chain[i] # r

\* On Linux the rule r is there once at most: an enable() adds it only when it
\* is not there, and a disable() finds it.
Single(r) ==
  /\ \A i, j \in DOMAIN chain : chain[i] = r /\ chain[j] = r => i = j
  /\ ~busy /\ ~enabled => Missing(r)
  /\ busy /\ call = "enable" => \A i \in DOMAIN todo : todo[i] = <<"add", r>> =>
       Missing(r) /\ \A j \in DOMAIN todo : todo[j] = <<"add", r>> => i = j
  /\ busy /\ call = "disable" =>
       Missing(r) \/ \E i \in DOMAIN todo : todo[i] = <<"delete", r>>

SingleRules == {Rule("block"), Rule("dns"), Rule("dns_tcp")}

\* As long as no command fails, a disable() takes out the rule that blocks; on
\* Linux, the rules for queries as well.
PassInv ==
  /\ success
  /\ busy /\ call = "disable" => \A i \in DOMAIN todo : todo[i][1] = "delete"
  /\ platform = "Windows" /\ ~busy /\ ~enabled => ~Blocking
  /\ platform = "Windows" /\ busy /\ call = "disable" =>
       ~Blocking \/ \E i \in DOMAIN todo : todo[i] = DeleteBlock
  /\ platform # "Windows" => \A r \in SingleRules : Single(r)

\* The rule q comes behind the rule r, in the chain and in what is still to be
\* added to it.
Precedes(r, q) ==
  /\ \A i \in DOMAIN chain : chain[i] = q => \E j \in 1..(i - 1) : chain[j] = r
  /\ \A i \in DOMAIN todo : todo[i] = <<"add", q>> =>
       \/ \E j \in DOMAIN chain : chain[j] = r
       \/ \E j \in 1..(i - 1) : todo[j] = <<"add", r>>

\* The rules that exempt come before the one that blocks, and those for queries
\* behind it.
ExemptInv == platform # "Windows" /\ call = "enable" =>
  /\ Precedes(Rule("vpn"), Rule("block"))
  /\ host # NoHost => Precedes(<<"server", host>>, Rule("block"))
  /\ Precedes(Rule("block"), Rule("dns")) /\ Precedes(Rule("block"), Rule("dns_tcp"))

SwitchIInv == TypeOK /\ SwitchInv /\ (~disturbed => PassInv /\ ExemptInv)

\* The type invariant gives the types needed above.
LEMMA TypesFollow == TypeOK => SwitchTypes
  BY DEF TypeOK, SwitchTypes

\* The list of enable() on Linux: what exempts comes first, and then, once each,
\* the rule that blocks and those for queries.
LEMMA EnableLinuxOrder ==
  ASSUME NEW h \in Hosts \cup {NoHost}
  PROVE  LET rs == EnableLinux(h)
         IN  \E m \in {1, 2} :
               /\ rs \in Seq(Rules) /\ Len(rs) = m + 3
               /\ rs[1] = Rule("vpn") /\ (h # NoHost => m = 2 /\ rs[2] = <<"server", h>>)
               /\ rs[m + 1] = Rule("block") /\ rs[m + 2] = Rule("dns")
               /\ rs[m + 3] = Rule("dns_tcp")
               /\ \A i \in 1..m : rs[i] \notin SingleRules
<1> DEFINE vpn == Rule("vpn")  block == Rule("block")  dns == Rule("dns")
           tcp == Rule("dns_tcp")  server == ServerRule(h)  one == <<vpn>>
           front == <<vpn>> \o server  back == <<block, dns, tcp>>  rs == EnableLinux(h)
<1>1. /\ vpn \in Rules /\ block \in Rules /\ dns \in Rules /\ tcp \in Rules
      /\ vpn \notin SingleRules /\ <<"server", h>> \notin SingleRules
  BY DEF Rule, Rules, SingleRules
<1>2. /\ server \in Seq(Rules)
      /\ h = NoHost => Len(server) = 0
      /\ h # NoHost => Len(server) = 1 /\ server[1] = <<"server", h>>
  BY DEF ServerRule, Rules
<1>3. rs = front \o back
  BY DEF EnableLinux
<1>4. back \in Seq(Rules) /\ Len(back) = 3 /\ back[1] = block /\ back[2] = dns /\ back[3] = tcp
  BY <1>1
<1>5. one \in Seq(Rules) /\ Len(one) = 1 /\ one[1] = vpn
  BY <1>1
<1>6. front = one \o server
  OBVIOUS
<1> HIDE DEF vpn, block, dns, tcp, server, back, rs, one, front
<1>7. front \in Seq(Rules) /\ Len(front) = Len(one) + Len(server) /\ front[1] = vpn
  BY <1>2, <1>5, <1>6, Joined
<1>8. h = NoHost => Len(front) = 1
  BY <1>2, <1>5, <1>7
<1>9. h # NoHost => Len(front) = 2 /\ front[2] = <<"server", h>>
  <2>1. ASSUME h # NoHost PROVE 1 \in 1..Len(server) /\ server[1] = <<"server", h>>
    BY <1>2, <2>1
  <2>2. ASSUME h # NoHost PROVE front[Len(one) + 1] = server[1] /\ Len(one) + 1 = 2
    BY <1>2, <1>5, <1>6, <2>1, <2>2, Joined
  <2> QED
    BY <1>2, <1>5, <1>7, <2>1, <2>2
<1>10. PICK m \in {1, 2} : m = Len(front)
  BY <1>8, <1>9
<1>11. rs \in Seq(Rules) /\ Len(rs) = m + 3 /\ \A i \in 1..m : rs[i] = front[i]
  <2>1. /\ rs \in Seq(Rules) /\ Len(rs) = Len(front) + Len(back)
        /\ \A i \in 1..Len(front) : rs[i] = front[i]
    BY <1>3, <1>4, <1>7, Joined
  <2> QED
    BY <1>4, <1>10, <2>1
<1>12. rs[m + 1] = block /\ rs[m + 2] = dns /\ rs[m + 3] = tcp
  <2>1. \A k \in 1..3 : rs[m + k] = back[k]
    BY <1>3, <1>4, <1>7, <1>10, Joined
  <2> QED
    BY <1>4, <2>1
<1>13. \A i \in 1..m : front[i] \notin SingleRules
  <2>1. CASE m = 1
    <3>1. 1..m = {1}
      BY <2>1
    <3> QED
      BY <1>1, <1>7, <3>1
  <2>2. CASE m = 2
    <3>1. 1..m = {1, 2}
      BY <2>2
    <3> QED
      BY <1>1, <1>7, <1>8, <1>9, <1>10, <2>2, <3>1
  <2> QED
    BY <2>1, <2>2
<1>14. rs[1] = vpn /\ (h # NoHost => m = 2 /\ rs[2] = <<"server", h>>)
  BY <1>7, <1>9, <1>10, <1>11
<1>15. \A i \in 1..m : rs[i] \notin SingleRules
  BY <1>11, <1>13
<1> QED
  BY <1>11, <1>12, <1>14, <1>15 DEF rs, block, vpn, dns, tcp

\* The commands of enable() on Linux: they add the same rules in this order.
LEMMA EnableOrder ==
  ASSUME platform # "Windows", NEW h \in Hosts \cup {NoHost}
  PROVE  LET cs == EnableCommands(h)
         IN  /\ \A r \in SingleRules : \A i, j \in DOMAIN cs :
                  cs[i] = <<"add", r>> /\ cs[j] = <<"add", r>> => i = j
             /\ \A i \in DOMAIN cs : cs[i] = AddBlock =>
                  /\ \E j \in 1..(i - 1) : cs[j] = <<"add", Rule("vpn")>>
                  /\ h # NoHost => \E j \in 1..(i - 1) : cs[j] = <<"add", <<"server", h>> >>
             /\ \A i \in DOMAIN cs, q \in {Rule("dns"), Rule("dns_tcp")} :
                  cs[i] = <<"add", q>> => \E j \in 1..(i - 1) : cs[j] = AddBlock
<1> DEFINE rs == EnableLinux(h)  cs == EnableCommands(h)  block == Rule("block")
           dns == Rule("dns")  tcp == Rule("dns_tcp")
<1>1. cs = [i \in DOMAIN rs |-> <<"add", rs[i]>>]
  BY DEF EnableCommands, Each
<1>2. PICK m \in {1, 2} :
        /\ rs \in Seq(Rules) /\ Len(rs) = m + 3
        /\ rs[1] = Rule("vpn") /\ (h # NoHost => m = 2 /\ rs[2] = <<"server", h>>)
        /\ rs[m + 1] = block /\ rs[m + 2] = dns /\ rs[m + 3] = tcp
        /\ \A i \in 1..m : rs[i] \notin {block, dns, tcp}
  BY EnableLinuxOrder DEF SingleRules
<1>3. block # dns /\ block # tcp /\ dns # tcp
  BY DEF Rule
<1> HIDE DEF rs, cs, block, dns, tcp
<1>4. DOMAIN cs = 1..(m + 3)
  BY <1>1, <1>2
<1>5. \A i \in 1..(m + 3) : \A r : cs[i] = <<"add", r>> <=> rs[i] = r
  BY <1>1, <1>2
<1>6. ASSUME NEW i \in 1..(m + 3)
      PROVE  /\ rs[i] = block => i = m + 1
             /\ rs[i] = dns => i = m + 2
             /\ rs[i] = tcp => i = m + 3
  <2>1. i \in 1..m \/ i = m + 1 \/ i = m + 2 \/ i = m + 3
    OBVIOUS
  <2> QED
    BY <1>2, <1>3, <2>1
<1>7. \A i \in DOMAIN cs :
        /\ cs[i] = <<"add", block>> => i = m + 1
        /\ cs[i] = <<"add", dns>> => i = m + 2
        /\ cs[i] = <<"add", tcp>> => i = m + 3
  BY <1>4, <1>5, <1>6
<1>8. /\ cs[1] = <<"add", Rule("vpn")>> /\ cs[m + 1] = <<"add", block>>
      /\ h # NoHost => m = 2 /\ cs[2] = <<"add", <<"server", h>> >>
  <2>1. 1 \in 1..(m + 3) /\ 2 \in 1..(m + 3) /\ m + 1 \in 1..(m + 3)
    OBVIOUS
  <2> QED
    BY <1>2, <1>5, <2>1
<1>9. \A r \in {block, dns, tcp} : \A i, j \in DOMAIN cs :
        cs[i] = <<"add", r>> /\ cs[j] = <<"add", r>> => i = j
  BY <1>7
<1>10. \A i \in DOMAIN cs : cs[i] = <<"add", block>> =>
         /\ \E j \in 1..(i - 1) : cs[j] = <<"add", Rule("vpn")>>
         /\ h # NoHost => \E j \in 1..(i - 1) : cs[j] = <<"add", <<"server", h>> >>
  <2>1. 1 \in 1..((m + 1) - 1) /\ (m = 2 => 2 \in 1..((m + 1) - 1))
    OBVIOUS
  <2> QED
    BY <1>7, <1>8, <2>1
<1>11. \A i \in DOMAIN cs, q \in {dns, tcp} :
         cs[i] = <<"add", q>> => \E j \in 1..(i - 1) : cs[j] = <<"add", block>>
  <2>1. m + 1 \in 1..((m + 2) - 1) /\ m + 1 \in 1..((m + 3) - 1)
    OBVIOUS
  <2> QED
    BY <1>7, <1>8, <2>1
<1> QED
  BY <1>9, <1>10, <1>11 DEF cs, block, dns, tcp, SingleRules, AddBlock

\* disable() deletes, the rule that blocks among others, and on Linux each of
\* the rules that are there once.
LEMMA DisableDeletes ==
  /\ \A i \in DOMAIN DisableCommands : DisableCommands[i][1] = "delete"
  /\ \E i \in DOMAIN DisableCommands : DisableCommands[i] = DeleteBlock
  /\ platform # "Windows" => \A r \in SingleRules :
       \E i \in DOMAIN DisableCommands : DisableCommands[i] = <<"delete", r>>
<1>1. /\ 1 \in DOMAIN DisableWindows /\ DisableWindows[1] = Rule("block")
      /\ 2 \in DOMAIN DisableLinux /\ DisableLinux[2] = Rule("block")
      /\ 3 \in DOMAIN DisableLinux /\ DisableLinux[3] = Rule("dns")
      /\ 4 \in DOMAIN DisableLinux /\ DisableLinux[4] = Rule("dns_tcp")
  BY DEF DisableWindows, DisableLinux
<1> DEFINE ds == IF platform = "Windows" THEN DisableWindows ELSE DisableLinux
<1>2. /\ \E i \in DOMAIN ds : ds[i] = Rule("block")
      /\ platform # "Windows" => \A r \in SingleRules : \E i \in DOMAIN ds : ds[i] = r
  BY <1>1 DEF SingleRules
<1>3. DisableCommands = [i \in DOMAIN ds |-> <<"delete", ds[i]>>]
  BY DEF DisableCommands, Each
<1> HIDE DEF ds
<1>4. \A i \in DOMAIN ds : DisableCommands[i] = <<"delete", ds[i]>>
  BY <1>3
<1>5. DOMAIN DisableCommands = DOMAIN ds
  BY <1>3
<1> QED
  BY <1>2, <1>4, <1>5 DEF DeleteBlock

\* A rule that is appended keeps the order of the rules.
LEMMA AddKeepsOrder ==
  ASSUME TypeOK, NEW r, NEW b, Precedes(r, b), todo # <<>>, todo' = Tail(todo),
         NEW q, Head(todo) = <<"add", q>>, chain' = Append(chain, q)
  PROVE  /\ \A i \in DOMAIN chain' :
              chain'[i] = b => \E j \in 1..(i - 1) : chain'[j] = r
         /\ \A i \in DOMAIN todo' : todo'[i] = <<"add", b>> =>
              \/ \E j \in DOMAIN chain' : chain'[j] = r
              \/ \E j \in 1..(i - 1) : todo'[j] = <<"add", r>>
<1>1. /\ Head(todo) = todo[1] /\ 1 \in DOMAIN todo
      /\ DOMAIN todo' = 1..(Len(todo) - 1) /\ DOMAIN todo = 1..Len(todo) /\ Len(todo) \in Nat
      /\ \A j \in DOMAIN todo' : todo'[j] = todo[j + 1] /\ j + 1 \in DOMAIN todo /\ j + 1 # 1
      /\ \A i \in DOMAIN todo : i # 1 => i - 1 \in DOMAIN todo' /\ todo'[i - 1] = todo[i]
  BY TailEntries DEF TypeOK
<1>2. /\ DOMAIN chain = 1..Len(chain) /\ Len(chain) \in Nat
      /\ DOMAIN chain' = 1..(Len(chain) + 1) /\ chain'[Len(chain) + 1] = q
      /\ \A i \in 1..Len(chain) : chain'[i] = chain[i]
  BY DEF TypeOK
<1>3. q = b => \E j \in 1..Len(chain) : chain[j] = r
  <2>1. q = b => todo[1] = <<"add", b>>
    BY <1>1
  <2>2. 1..(1 - 1) = {}
    OBVIOUS
  <2> QED
    BY <1>1, <1>2, <2>1, <2>2 DEF Precedes
<1>4. ASSUME NEW i \in DOMAIN chain', chain'[i] = b
      PROVE  \E j \in 1..(i - 1) : chain'[j] = r
  <2>1. CASE i = Len(chain) + 1
    BY <1>2, <1>3, <1>4, <2>1
  <2>2. CASE i \in 1..Len(chain)
    <3>1. PICK j \in 1..(i - 1) : chain[j] = r
      BY <1>2, <1>4, <2>2 DEF Precedes
    <3>2. j \in 1..Len(chain)
      BY <1>2, <2>2, <3>1
    <3> QED
      BY <1>2, <3>1, <3>2
  <2> QED
    BY <1>2, <2>1, <2>2
<1>5. ASSUME NEW i \in DOMAIN todo', todo'[i] = <<"add", b>>
      PROVE  \/ \E j \in DOMAIN chain' : chain'[j] = r
             \/ \E j \in 1..(i - 1) : todo'[j] = <<"add", r>>
  <2>1. \/ \E j \in DOMAIN chain : chain[j] = r
        \/ \E j \in 1..i : todo[j] = <<"add", r>>
    <3>1. todo[i + 1] = <<"add", b>> /\ i + 1 \in DOMAIN todo /\ (i + 1) - 1 = i
      BY <1>1, <1>5
    <3>2. \/ \E j \in DOMAIN chain : chain[j] = r
          \/ \E j \in 1..((i + 1) - 1) : todo[j] = <<"add", r>>
      BY <3>1 DEF Precedes
    <3> QED
      BY <3>1, <3>2
  <2>2. CASE \E j \in DOMAIN chain : chain[j] = r
    <3>1. \A j \in DOMAIN chain : j \in DOMAIN chain' /\ chain'[j] = chain[j]
      BY <1>2
    <3> QED
      BY <2>2, <3>1
  <2>3. ASSUME NEW j \in 1..i, todo[j] = <<"add", r>>
        PROVE  \/ \E k \in DOMAIN chain' : chain'[k] = r
               \/ \E k \in 1..(i - 1) : todo'[k] = <<"add", r>>
    <3>1. CASE j = 1
      <4>1. q = r
        BY <1>1, <2>3, <3>1
      <4>2. Len(chain) + 1 \in DOMAIN chain'
        BY <1>2
      <4> QED
        BY <1>2, <4>1, <4>2
    <3>2. CASE j # 1
      <4>1. j \in DOMAIN todo /\ j - 1 \in 1..(i - 1)
        BY <1>1, <2>3, <3>2
      <4> QED
        BY <1>1, <2>3, <3>2, <4>1
    <3> QED
      BY <3>1, <3>2
  <2> QED
    BY <2>1, <2>2, <2>3
<1> QED
  BY <1>4, <1>5

\* A command that adds, on Linux: a rule that is there once stays so.
LEMMA AddKeepsSingle ==
  ASSUME TypeOK, NEW r, Single(r), busy, call = "enable", todo # <<>>, todo' = Tail(todo),
         UNCHANGED <<enabled, busy, call>>,
         NEW q, Head(todo) = <<"add", q>>, chain' = Append(chain, q)
  PROVE  Single(r)'
<1>1. /\ Head(todo) = todo[1] /\ 1 \in DOMAIN todo
      /\ \A j \in DOMAIN todo' : todo'[j] = todo[j + 1] /\ j + 1 \in DOMAIN todo /\ j + 1 # 1
  BY TailEntries DEF TypeOK
<1>2. \A i, j \in DOMAIN todo' : i + 1 = j + 1 => i = j
  BY TailEntries DEF TypeOK
<1>3. /\ DOMAIN chain = 1..Len(chain) /\ Len(chain) \in Nat
      /\ DOMAIN chain' = 1..(Len(chain) + 1) /\ chain'[Len(chain) + 1] = q
      /\ \A i \in 1..Len(chain) : chain'[i] = chain[i]
  BY DEF TypeOK
<1>4. \A i \in DOMAIN todo : todo[i] = <<"add", r>> =>
        Missing(r) /\ \A j \in DOMAIN todo : todo[j] = <<"add", r>> => i = j
  BY DEF Single
<1>5. ASSUME NEW i \in DOMAIN chain', NEW j \in DOMAIN chain', chain'[i] = r, chain'[j] = r
      PROVE  i = j
  <2>1. CASE q = r
    <3>1. \A k \in 1..Len(chain) : chain'[k] # r
      BY <1>1, <1>3, <1>4, <2>1 DEF Missing
    <3> QED
      BY <1>3, <1>5, <3>1
  <2>2. CASE q # r
    <3>1. i \in 1..Len(chain) /\ j \in 1..Len(chain)
      BY <1>3, <1>5, <2>2
    <3> QED
      BY <1>3, <1>5, <3>1 DEF Single
  <2> QED
    BY <2>1, <2>2
<1>6. ASSUME NEW i \in DOMAIN todo', todo'[i] = <<"add", r>>
      PROVE  Missing(r)' /\ \A j \in DOMAIN todo' : todo'[j] = <<"add", r>> => i = j
  <2>1. todo[i + 1] = <<"add", r>> /\ i + 1 \in DOMAIN todo /\ i + 1 # 1
    BY <1>1, <1>6
  <2>2. q # r /\ Missing(r)
    BY <1>1, <1>4, <2>1
  <2>3. Missing(r)'
    BY <1>3, <2>2 DEF Missing
  <2>4. \A j \in DOMAIN todo' : todo'[j] = <<"add", r>> => i = j
    BY <1>1, <1>2, <1>4, <2>1
  <2> QED
    BY <2>3, <2>4
<1> QED
  BY <1>5, <1>6 DEF Single

\* A command of enable() that succeeds, on Linux.
LEMMA LinuxAdd ==
  ASSUME TypeOK, SwitchInv, PassInv, ExemptInv, platform # "Windows", RunCommand,
         call = "enable", Execute(Head(todo)[1], Head(todo)[2]), UNCHANGED <<success, disturbed>>
  PROVE  (PassInv /\ ExemptInv)'
<1> DEFINE q == Head(todo)[2]
<1>1. /\ busy /\ todo # <<>> /\ todo' = Tail(todo)
      /\ UNCHANGED <<platform, enabled, call, busy, host, success>>
  BY DEF RunCommand
<1>2. Head(todo) = todo[1] /\ 1 \in DOMAIN todo /\ Head(todo) \in Commands
  BY <1>1, TailEntries DEF TypeOK
<1>3. Head(todo)[1] = "add" /\ Head(todo) = <<"add", q>>
  BY <1>1, <1>2 DEF SwitchInv, Commands
<1>4. chain' = Append(chain, q)
  BY <1>3 DEF Execute, Iptables
<1> HIDE DEF q
<1>5. ASSUME NEW r \in SingleRules
      PROVE  Single(r)'
  <2>1. Single(r)
    BY DEF PassInv
  <2> QED
    BY <1>1, <1>3, <1>4, <2>1, AddKeepsSingle
<1>6. PassInv'
  BY <1>1, <1>5 DEF PassInv
<1>7. ASSUME NEW r, NEW b, Precedes(r, b)
      PROVE  Precedes(r, b)'
  <2>1. /\ \A i \in DOMAIN chain' : chain'[i] = b => \E j \in 1..(i - 1) : chain'[j] = r
        /\ \A i \in DOMAIN todo' : todo'[i] = <<"add", b>> =>
             \/ \E j \in DOMAIN chain' : chain'[j] = r
             \/ \E j \in 1..(i - 1) : todo'[j] = <<"add", r>>
    BY <1>1, <1>3, <1>4, <1>7, AddKeepsOrder
  <2> QED
    BY <2>1 DEF Precedes
<1>8. PICK h : h = host /\ h = host'
  BY <1>1
<1>9. /\ Precedes(Rule("vpn"), Rule("block"))'
      /\ h # NoHost => Precedes(<<"server", h>>, Rule("block"))'
      /\ Precedes(Rule("block"), Rule("dns"))' /\ Precedes(Rule("block"), Rule("dns_tcp"))'
  <2>1. /\ Precedes(Rule("vpn"), Rule("block"))
        /\ h # NoHost => Precedes(<<"server", h>>, Rule("block"))
        /\ Precedes(Rule("block"), Rule("dns")) /\ Precedes(Rule("block"), Rule("dns_tcp"))
    BY <1>8 DEF ExemptInv
  <2> QED
    BY <1>7, <2>1
<1>10. ExemptInv'
  BY <1>8, <1>9 DEF ExemptInv
<1> QED
  BY <1>6, <1>10

\* A command that deletes, on Linux, takes a rule out that is there once when
\* it is the one to delete: there is no second one.
LEMMA DeleteKeepsSingle ==
  ASSUME TypeOK, NEW r, Single(r), busy, call = "disable", todo # <<>>, todo' = Tail(todo),
         UNCHANGED <<enabled, busy, call>>,
         NEW q, Head(todo) = <<"delete", q>>,
         NEW i \in DOMAIN chain, chain[i] = q, chain' = RemoveAt(chain, i)
  PROVE  Single(r)'
<1>1. /\ Head(todo) = todo[1] /\ 1 \in DOMAIN todo
      /\ \A k \in DOMAIN todo : k # 1 => k - 1 \in DOMAIN todo' /\ todo'[k - 1] = todo[k]
  BY TailEntries DEF TypeOK
<1>2. /\ DOMAIN chain = 1..Len(chain) /\ Len(chain) \in Nat /\ i \in 1..Len(chain)
      /\ DOMAIN chain' = 1..(Len(chain) - 1)
      /\ \A j \in 1..(Len(chain) - 1) : chain'[j] = IF j < i THEN chain[j] ELSE chain[j + 1]
  BY Removed DEF TypeOK
<1>3. ASSUME NEW j \in DOMAIN chain', chain'[j] = r
      PROVE  \E m \in DOMAIN chain : m # i /\ chain[m] = r /\ m = IF j < i THEN j ELSE j + 1
  <2>1. CASE j < i
    BY <1>2, <1>3, <2>1
  <2>2. CASE ~(j < i)
    <3>1. j + 1 \in DOMAIN chain /\ j + 1 # i
      BY <1>2, <1>3, <2>2
    <3> QED
      BY <1>2, <1>3, <2>2, <3>1
  <2> QED
    BY <2>1, <2>2
<1>4. Missing(r)' \/ (~Missing(r) /\ q # r)
  <2>1. ~Missing(r)' => \E k \in DOMAIN chain : k # i /\ chain[k] = r
    BY <1>3 DEF Missing
  <2> QED
    BY <2>1 DEF Missing, Single
<1>5. ASSUME NEW j \in DOMAIN chain', NEW k \in DOMAIN chain', chain'[j] = r, chain'[k] = r
      PROVE  j = k
  <2>1. PICK m \in DOMAIN chain : chain[m] = r /\ m = IF j < i THEN j ELSE j + 1
    BY <1>3, <1>5
  <2>2. PICK n \in DOMAIN chain : chain[n] = r /\ n = IF k < i THEN k ELSE k + 1
    BY <1>3, <1>5
  <2>3. m = n
    BY <2>1, <2>2 DEF Single
  <2> QED
    BY <1>2, <1>5, <2>1, <2>2, <2>3
<1>6. Missing(r)' \/ \E j \in DOMAIN todo' : todo'[j] = <<"delete", r>>
  <2>1. SUFFICES ASSUME ~Missing(r), q # r
                 PROVE  \E j \in DOMAIN todo' : todo'[j] = <<"delete", r>>
    BY <1>4
  <2>2. PICK k \in DOMAIN todo : todo[k] = <<"delete", r>>
    BY <2>1 DEF Single
  <2>3. k # 1
    BY <1>1, <2>1, <2>2
  <2> QED
    BY <1>1, <2>2, <2>3
<1> QED
  BY <1>5, <1>6 DEF Single

\* A command of disable() that succeeds, on Linux.
LEMMA LinuxDelete ==
  ASSUME TypeOK, SwitchInv, PassInv, ExemptInv, platform # "Windows", RunCommand,
         call = "disable", Execute(Head(todo)[1], Head(todo)[2]), UNCHANGED <<success, disturbed>>
  PROVE  (PassInv /\ ExemptInv)'
<1> DEFINE q == Head(todo)[2]
<1>1. /\ busy /\ todo # <<>> /\ todo' = Tail(todo)
      /\ UNCHANGED <<platform, enabled, call, busy, host, success>>
  BY DEF RunCommand
<1>2. /\ Head(todo) = todo[1] /\ 1 \in DOMAIN todo /\ Head(todo) \in Commands
      /\ \A j \in DOMAIN todo' : todo'[j] = todo[j + 1] /\ j + 1 \in DOMAIN todo
  BY <1>1, TailEntries DEF TypeOK
<1>3. Head(todo)[1] = "delete" /\ Head(todo) = <<"delete", q>>
  BY <1>1, <1>2 DEF PassInv, Commands
<1>4. PICK i \in DOMAIN chain : chain[i] = q /\ chain' = RemoveAt(chain, i)
  BY <1>3 DEF Execute, Iptables
<1> HIDE DEF q
<1>5. ASSUME NEW r \in SingleRules
      PROVE  Single(r)'
  <2>1. Single(r)
    BY DEF PassInv
  <2> QED
    BY <1>1, <1>3, <1>4, <2>1, DeleteKeepsSingle
<1>6. \A j \in DOMAIN todo' : todo'[j][1] = "delete"
  BY <1>1, <1>2 DEF PassInv
<1>7. PassInv'
  BY <1>1, <1>5, <1>6 DEF PassInv
<1>8. ExemptInv'
  BY <1>1 DEF ExemptInv
<1> QED
  BY <1>7, <1>8

\* A command that succeeds, on Windows: netsh deletes all rules of a name.
LEMMA WindowsCommand ==
  ASSUME TypeOK, SwitchInv, PassInv, platform = "Windows", RunCommand,
         Execute(Head(todo)[1], Head(todo)[2]), UNCHANGED <<success, disturbed>>
  PROVE  (PassInv /\ ExemptInv)'
<1>1. /\ busy /\ todo # <<>> /\ todo' = Tail(todo)
      /\ UNCHANGED <<platform, enabled, call, busy, host, success>>
  BY DEF RunCommand
<1>2. /\ Head(todo) = todo[1] /\ 1 \in DOMAIN todo /\ Head(todo) \in Commands
      /\ \A j \in DOMAIN todo' : todo'[j] = todo[j + 1] /\ j + 1 \in DOMAIN todo /\ j + 1 # 1
      /\ \A i \in DOMAIN todo : i # 1 => i - 1 \in DOMAIN todo' /\ todo'[i - 1] = todo[i]
  BY <1>1, TailEntries DEF TypeOK
<1>3. ASSUME call = "disable"
      PROVE  /\ \A j \in DOMAIN todo' : todo'[j][1] = "delete"
             /\ ~Blocking' \/ \E j \in DOMAIN todo' : todo'[j] = DeleteBlock
  <2>1. \A j \in DOMAIN todo' : todo'[j][1] = "delete"
    BY <1>1, <1>2, <1>3 DEF PassInv
  <2>2. Head(todo)[1] = "delete"
    BY <1>1, <1>2, <1>3 DEF PassInv
  <2>3. firewall' = {r \in firewall : r[1] # Head(todo)[2][1]}
    BY <2>2 DEF Execute, Netsh
  <2>4. Blocking' => Blocking
    BY <1>1, <2>3 DEF Blocking
  <2>5. CASE todo[1] = DeleteBlock
    <3>1. Head(todo)[2][1] = "block" /\ Rule("block")[1] = "block"
      BY <1>2, <2>5 DEF DeleteBlock, Rule
    <3> QED
      BY <1>1, <2>1, <2>3, <3>1 DEF Blocking
  <2>6. CASE todo[1] # DeleteBlock
    BY <1>1, <1>2, <1>3, <2>1, <2>4, <2>6 DEF PassInv
  <2> QED
    BY <2>5, <2>6
<1>4. PassInv'
  BY <1>1, <1>3 DEF PassInv
<1>5. ExemptInv'
  BY <1>1 DEF ExemptInv
<1> QED
  BY <1>4, <1>5

\* The types, action by action.
LEMMA SwitchTypesStep == TypeOK /\ [Next]_vars => TypeOK'
<1> SUFFICES ASSUME TypeOK, [Next]_vars PROVE TypeOK'
  OBVIOUS
<1> USE CallsAssumption
<1>1. ASSUME NEW name \in {"enable", "disable"}, NEW h \in Hosts \cup {NoHost},
             NEW commands \in Seq(Commands), Start(name, h, commands)
      PROVE  TypeOK'
  BY <1>1 DEF Start, TypeOK, rules
<1>2. ASSUME NEW h \in Hosts \cup {NoHost}, Enable(h)
      PROVE  TypeOK'
  BY <1>1, <1>2, CallCommands DEF Enable
<1>3. CASE Disable
  <2>1. host \in Hosts \cup {NoHost} /\ DisableCommands \in Seq(Commands)
    BY CallCommands DEF TypeOK
  <2> QED
    BY <1>1, <1>3, <2>1 DEF Disable
<1>4. CASE DisableNothing
  BY <1>4 DEF DisableNothing, TypeOK, rules
<1>5. CASE RunCommand
  <2>1. /\ UNCHANGED <<platform, enabled, call, busy, host, calls>>
        /\ todo' = Tail(todo) /\ todo # <<>>
    BY <1>5 DEF RunCommand
  <2>2. Head(todo) \in Commands /\ todo' \in Seq(Commands)
    BY <2>1, HeadTail DEF TypeOK
  <2>3. chain' \in Seq(Rules) /\ firewall' \subseteq Rules
    <3>1. CASE Execute(Head(todo)[1], Head(todo)[2])
      BY <2>1, <2>2, <3>1, TypesFollow, ExecuteKeeps
    <3>2. CASE UNCHANGED rules
      BY <3>2 DEF TypeOK, rules
    <3> QED
      BY <1>5, <3>1, <3>2 DEF RunCommand
  <2>4. success' \in BOOLEAN /\ disturbed' \in BOOLEAN
    BY <1>5 DEF RunCommand, TypeOK
  <2> QED
    BY <2>1, <2>2, <2>3, <2>4 DEF TypeOK
<1>6. CASE Return
  BY <1>6 DEF Return, TypeOK, rules
<1>7. CASE Restart
  BY <1>7, Empty DEF Restart, TypeOK, rules
<1>8. CASE UNCHANGED vars
  BY <1>8 DEF vars, rules, TypeOK
<1> QED
  BY <1>2, <1>3, <1>4, <1>5, <1>6, <1>7, <1>8 DEF Next

\* Every step that meets no failure keeps the two invariants.
LEMMA PassNext ==
  ASSUME TypeOK, SwitchInv, PassInv, ExemptInv, [Next]_vars, ~disturbed'
  PROVE  (PassInv /\ ExemptInv)'
<1>1. ASSUME NEW h \in Hosts \cup {NoHost}, Enable(h)
      PROVE  (PassInv /\ ExemptInv)'
  <2>1. /\ ~busy /\ ~enabled /\ call' = "enable" /\ busy' /\ host' = h
        /\ todo' = EnableCommands(h) /\ success' = TRUE /\ enabled' = enabled
        /\ platform' = platform /\ chain' = chain /\ firewall' = firewall
    BY <1>1 DEF Enable, Start, rules
  <2>2. platform = "Windows" => ~Blocking
    BY <2>1 DEF PassInv
  <2>3. ASSUME platform # "Windows", NEW r \in SingleRules
        PROVE  Missing(r) /\ Missing(r)' /\ Single(r)'
    <3>1. Missing(r) /\ Missing(r)'
      BY <2>1, <2>3 DEF PassInv, Single, Missing
    <3>2. \A i, j \in DOMAIN todo' : todo'[i] = <<"add", r>> /\ todo'[j] = <<"add", r>> => i = j
      BY <2>1, <2>3, EnableOrder
    <3> QED
      BY <2>1, <3>1, <3>2 DEF Single, Missing
  <2>4. PassInv'
    BY <2>1, <2>2, <2>3 DEF PassInv, Blocking
  <2>5. ExemptInv'
    <3>1. SUFFICES ASSUME platform # "Windows"
                   PROVE  /\ Precedes(Rule("vpn"), Rule("block"))'
                          /\ h # NoHost => Precedes(<<"server", h>>, Rule("block"))'
                          /\ Precedes(Rule("block"), Rule("dns"))'
                          /\ Precedes(Rule("block"), Rule("dns_tcp"))'
      BY <2>1 DEF ExemptInv
    <3>2. /\ \A i \in DOMAIN todo' : todo'[i] = AddBlock =>
               /\ \E j \in 1..(i - 1) : todo'[j] = <<"add", Rule("vpn")>>
               /\ h # NoHost => \E j \in 1..(i - 1) : todo'[j] = <<"add", <<"server", h>> >>
          /\ \A i \in DOMAIN todo', q \in {Rule("dns"), Rule("dns_tcp")} :
               todo'[i] = <<"add", q>> => \E j \in 1..(i - 1) : todo'[j] = AddBlock
      BY <2>1, <3>1, EnableOrder
    <3>3. Missing(Rule("block"))' /\ Missing(Rule("dns"))' /\ Missing(Rule("dns_tcp"))'
      BY <2>3, <3>1 DEF SingleRules
    <3> QED
      BY <3>2, <3>3 DEF Precedes, Missing, AddBlock
  <2> QED
    BY <2>4, <2>5
<1>2. CASE Disable
  <2>1. /\ ~busy /\ enabled /\ call' = "disable" /\ busy' /\ todo' = DisableCommands
        /\ success' = TRUE /\ platform' = platform /\ chain' = chain /\ enabled' = enabled
    BY <1>2 DEF Disable, Start, rules
  <2>2. ASSUME platform # "Windows", NEW r \in SingleRules
        PROVE  Single(r)'
    BY <2>1, <2>2, DisableDeletes DEF PassInv, Single
  <2>3. PassInv'
    BY <2>1, <2>2, DisableDeletes DEF PassInv
  <2>4. ExemptInv'
    BY <2>1 DEF ExemptInv
  <2> QED
    BY <2>3, <2>4
<1>3. CASE DisableNothing
  <2>1. /\ call' = "disable" /\ ~busy' /\ Blocking' = Blocking
        /\ UNCHANGED <<platform, enabled, rules, success>>
    BY <1>3 DEF DisableNothing, rules, Blocking
  <2>2. ~busy /\ ~enabled
    BY <1>3 DEF DisableNothing
  <2>3. ASSUME platform # "Windows", NEW r \in SingleRules
        PROVE  Single(r)'
    BY <2>1, <2>2, <2>3 DEF PassInv, Single, Missing, rules
  <2> QED
    BY <2>1, <2>2, <2>3 DEF PassInv, ExemptInv
<1>4. CASE RunCommand
  <2>1. Execute(Head(todo)[1], Head(todo)[2]) /\ UNCHANGED <<success, disturbed>>
    BY <1>4 DEF RunCommand
  <2>2. call \in {"enable", "disable"}
    BY <1>4 DEF RunCommand, SwitchInv
  <2> QED
    BY <1>4, <2>1, <2>2, LinuxAdd, LinuxDelete, WindowsCommand
<1>5. CASE Return
  <2>1. /\ busy /\ todo = <<>> /\ ~busy' /\ enabled' = (call = "enable")
        /\ UNCHANGED <<platform, rules, call, host, todo, success>>
    BY <1>5 DEF Return, PassInv
  <2>2. Blocking' = Blocking /\ call \in {"enable", "disable"}
    BY <2>1 DEF Blocking, rules, SwitchInv
  <2>3. DOMAIN todo = {}
    BY <2>1
  <2>4. platform = "Windows" /\ call = "disable" => ~Blocking
    BY <2>1, <2>3 DEF PassInv
  <2>5. ASSUME platform # "Windows", NEW r \in SingleRules
        PROVE  Single(r)'
    <3>1. Single(r) /\ (call = "disable" => Missing(r))
      BY <2>1, <2>3, <2>5 DEF PassInv, Single
    <3> QED
      BY <2>1, <2>2, <2>3, <3>1 DEF Single, Missing, rules
  <2>6. PassInv'
    BY <2>1, <2>2, <2>4, <2>5 DEF PassInv
  <2>7. ExemptInv'
    BY <2>1 DEF ExemptInv, Precedes, rules
  <2> QED
    BY <2>6, <2>7
<1>6. CASE Restart
  BY <1>6 DEF Restart
<1>7. CASE UNCHANGED vars
  <2>1. UNCHANGED <<platform, chain, firewall, enabled, call, busy, host, todo, success>>
    BY <1>7 DEF vars, rules
  <2>2. Blocking' = Blocking
    BY <2>1 DEF Blocking
  <2>3. ASSUME platform # "Windows", NEW r \in SingleRules
        PROVE  Single(r)'
    BY <2>1, <2>3 DEF PassInv, Single, Missing
  <2>4. PassInv'
    BY <2>1, <2>2, <2>3 DEF PassInv
  <2>5. ExemptInv'
    BY <2>1 DEF ExemptInv, Precedes
  <2> QED
    BY <2>4, <2>5
<1> QED
  BY <1>1, <1>2, <1>3, <1>4, <1>5, <1>6, <1>7 DEF Next

\* What has failed stays failed.
LEMMA DisturbedStays == [Next]_vars /\ disturbed => disturbed'
  BY DEF Next, Enable, Disable, Start, DisableNothing, RunCommand, Return, Restart, vars

\* The invariant of the kill switch: it holds at first and every step keeps it.
LEMMA SwitchIInvInit == Init => SwitchIInv
<1> SUFFICES ASSUME Init PROVE SwitchIInv
  OBVIOUS
<1>1. TypeOK
  <2>1. calls \in 0..MaxCalls
    BY CallsAssumption DEF Init
  <2>2. chain \in Seq(Rules) /\ firewall \subseteq Rules /\ todo \in Seq(Commands)
    BY Empty DEF Init
  <2>3. enabled \in BOOLEAN /\ busy \in BOOLEAN /\ success \in BOOLEAN /\ disturbed \in BOOLEAN
    BY DEF Init
  <2>4. platform \in {"Linux", "Windows"} /\ call = "none" /\ host = NoHost
    BY DEF Init
  <2> QED
    BY <2>1, <2>2, <2>3, <2>4 DEF TypeOK
<1>2. DOMAIN chain = {}
  BY DEF Init
<1>3. PassInv /\ ExemptInv
  BY <1>2 DEF Init, PassInv, ExemptInv, Blocking, Single, Missing
<1> QED
  BY <1>1, <1>3, SwitchInit DEF SwitchIInv

\* The rules the switch leaves in force, for any hosts, and any number of calls
\* and failures (server/nat.py:235-398).
THEOREM SwitchInvariant == Spec => []SwitchIInv
<1>1. SwitchIInv /\ [Next]_vars => SwitchIInv'
  <2> SUFFICES ASSUME SwitchIInv, [Next]_vars PROVE SwitchIInv'
    OBVIOUS
  <2>1. TypeOK'
    BY SwitchTypesStep DEF SwitchIInv
  <2>2. SwitchInv'
    BY TypesFollow, SwitchNext DEF SwitchIInv
  <2>3. disturbed \in BOOLEAN /\ disturbed' \in BOOLEAN
    BY <2>1 DEF SwitchIInv, TypeOK
  <2>4. ~disturbed' => (PassInv /\ ExemptInv)'
    BY <2>3, PassNext, DisturbedStays DEF SwitchIInv
  <2> QED
    BY <2>1, <2>2, <2>4 DEF SwitchIInv
<1> QED
  BY <1>1, SwitchIInvInit, PTL DEF Spec

\* Where the rule that blocks comes behind a rule, that rule is in the chain.
LEMMA FirstIsThere ==
  ASSUME chain \in Seq(Rules), NEW r, Precedes(r, Rule("block")),
         NEW i \in DOMAIN chain, chain[i][1] = "block"
  PROVE  \E j \in 1..(i - 1) : j \in 1..Len(chain) /\ chain[j] = r
<1>1. chain[i] = Rule("block")
  BY DEF Rules, Rule
<1>2. PICK j \in 1..(i - 1) : chain[j] = r
  BY <1>1 DEF Precedes
<1> QED
  BY <1>2

\* What the invariant says of the rules' order lets the exempted traffic pass,
\* and nothing else.
LEMMA ExemptFollows == SwitchIInv => OnlyExemptPass
<1> SUFFICES ASSUME SwitchIInv, platform = "Linux", call = "enable", ~disturbed
             PROVE  /\ ~Blocked("vpn")
                    /\ host # NoHost => ~Blocked(host)
                    /\ enabled /\ ~busy => Blocked("tun") /\ Blocked("dns")
  BY DEF OnlyExemptPass
<1>1. chain \in Seq(Rules) /\ platform # "Windows"
  BY DEF SwitchIInv, TypeOK
<1>2. /\ Precedes(Rule("vpn"), Rule("block"))
      /\ host # NoHost => Precedes(<<"server", host>>, Rule("block"))
      /\ Precedes(Rule("block"), Rule("dns")) /\ Precedes(Rule("block"), Rule("dns_tcp"))
  BY <1>1 DEF SwitchIInv, ExemptInv
<1>3. ~Blocked("vpn")
  <2>1. ASSUME NEW i \in DOMAIN chain, Stops(chain[i], "vpn")
        PROVE  FALSE
    <3>1. chain[i][1] = "block" /\ ~Contains(chain, Rule("vpn"))
      BY <2>1 DEF Stops
    <3>2. \E j \in 1..Len(chain) : chain[j] = Rule("vpn")
      BY <1>1, <1>2, <3>1, FirstIsThere
    <3> QED
      BY <3>1, <3>2 DEF Contains
  <2> QED
    BY <1>1, <2>1 DEF Blocked
<1>4. ASSUME host # NoHost
      PROVE  ~Blocked(host)
  <2>1. ASSUME NEW i \in DOMAIN chain, Stops(chain[i], host)
        PROVE  \E j \in 1..(i - 1) : Allows(chain[j], host)
    <3>1. chain[i][1] = "block"
      BY <2>1 DEF Stops
    <3>2. \E j \in 1..(i - 1) : chain[j] = <<"server", host>>
      BY <1>1, <1>2, <1>4, <3>1, FirstIsThere
    <3> QED
      BY <3>2 DEF Allows
  <2> QED
    BY <1>1, <2>1 DEF Blocked
<1>5. ASSUME enabled, ~busy
      PROVE  Blocked("tun") /\ Blocked("dns")
  <2>1. PICK i \in DOMAIN chain : chain[i] = Rule("block")
    BY <1>1, <1>5 DEF SwitchIInv, SwitchInv, Blocking
  <2>2. Stops(chain[i], "tun") /\ Stops(chain[i], "dns")
    BY <2>1 DEF Stops, Rule
  <2>3. ASSUME NEW j \in 1..(i - 1)
        PROVE  ~Allows(chain[j], "tun") /\ ~Allows(chain[j], "dns")
    <3>1. j \in DOMAIN chain /\ chain[j] \in Rules
      BY <1>1
    <3>2. ~(chain[j] = Rule("dns") \/ chain[j] = Rule("dns_tcp"))
      <4>1. SUFFICES ASSUME chain[j] = Rule("dns") \/ chain[j] = Rule("dns_tcp")
                     PROVE  FALSE
        OBVIOUS
      <4>2. PICK k \in 1..(j - 1) : chain[k] = Rule("block")
        BY <1>2, <3>1, <4>1 DEF Precedes
      <4>3. k \in DOMAIN chain /\ k # i
        BY <1>1, <3>1
      <4>4. Single(Rule("block"))
        BY <1>1 DEF SwitchIInv, PassInv, SingleRules
      <4> QED
        BY <2>1, <4>2, <4>3, <4>4 DEF Single
    <3> QED
      BY <3>1, <3>2, HostsAssumption DEF Allows, Rules, Rule
  <2> QED
    BY <1>1, <2>1, <2>2, <2>3 DEF Blocked
<1> QED
  BY <1>3, <1>4, <1>5

\* Where the rule that blocks is not in force, nothing is blocked.
LEMMA DisabledFollows == SwitchIInv => DisabledPasses
<1> SUFFICES ASSUME SwitchIInv, ~enabled, ~busy, ~disturbed, NEW t \in Traffic
             PROVE  ~Blocked(t)
  BY DEF DisabledPasses
<1>1. chain \in Seq(Rules) /\ ~Blocking
  <2>1. platform # "Windows" => Single(Rule("block"))
    BY DEF SwitchIInv, PassInv, SingleRules
  <2> QED
    BY <2>1 DEF SwitchIInv, TypeOK, PassInv, Single, Missing, Blocking
<1>2. ASSUME NEW i \in DOMAIN chain, Stops(chain[i], t)
      PROVE  chain[i] = Rule("block")
  BY <1>1, <1>2 DEF Stops, Rules, Rule
<1> QED
  BY <1>1, <1>2 DEF Blocked, Blocking

\* Every state of the switch has the types of its module (server/nat.py:205-398).
THEOREM SwitchTypeCorrect == Spec => []TypeOK
<1>1. SwitchIInv => TypeOK
  BY DEF SwitchIInv
<1> QED
  BY <1>1, SwitchInvariant, PTL

\* On Linux, as long as no command fails, the rules that enable() has added so
\* far let the encapsulated datagrams through, and packets to the server that it
\* was told to exempt; an enabled switch stops what applications send into the
\* tunnel, and queries for names (server/nat.py:338-371).
THEOREM OnlyExemptTrafficPasses == Spec => []OnlyExemptPass
  BY ExemptFollows, SwitchInvariant, PTL

\* As long as no command fails, a switch that is not enabled blocks nothing,
\* after any number of calls (server/nat.py:251-273, 321-336, 373-388).
THEOREM DisabledSwitchPasses == Spec => []DisabledPasses
  BY DisabledFollows, SwitchInvariant, PTL

-----------------------------------------------------------------------------
(* The NAT rules. *)

\* What the proofs need of the types.
NATTypes ==
  /\ setups \in Nat /\ failed \in BOOLEAN /\ moved \in BOOLEAN
  /\ platform = "Linux" => main_iface \in Ifaces
  /\ nat \in [NATRules -> Nat]

\* No rule has been added more often than setup() was called; as long as
\* nothing has failed there is one that translates at most, and while the
\* default route stays, it is on the main interface.
NATInv ==
  /\ NATTypes
  /\ \A r \in NATRules : nat[r] <= setups
  /\ platform = "Linux" /\ ~failed => \A i \in Ifaces :
       Translated(i) <= 1 /\ (~moved /\ i # main_iface => Translated(i) = 0)

USE IfacesAssumption

\* The rules named by the actions are rules.
LEMMA AreRules ==
  /\ \A k \in LinuxKinds, i \in Ifaces : <<k, i>> \in NATRules
  /\ \A i \in Ifaces : <<"private", i>> \in NATRules
  /\ <<"full", Tun>> \in NATRules
BY DEF NATRules

\* The invariant of the NAT rules holds at first.
LEMMA NATInvInit == NATInit => NATInv
<1> SUFFICES ASSUME NATInit PROVE NATInv
  OBVIOUS
<1>0. nat = [r \in NATRules |-> 0] /\ setups = 0 /\ failed = FALSE /\ moved = FALSE
  BY DEF NATInit
<1>1. /\ nat \in [NATRules -> Nat]
      /\ \A r \in NATRules : nat[r] = 0
  BY <1>0
<1>2. platform = "Linux" => main_iface \in Ifaces
  BY DEF NATInit
<1>3. \A i \in Ifaces : Translated(i) = 0
  BY <1>1, AreRules DEF Translated, LinuxKinds
<1>4. NATTypes
  BY <1>0, <1>1, <1>2 DEF NATTypes
<1>5. \A r \in NATRules : nat[r] <= setups
  BY <1>0, <1>1
<1> QED
  BY <1>3, <1>4, <1>5 DEF NATInv

\* setup() on Linux, rule by rule.
LEMMA SetupRules ==
  ASSUME NATInv, platform = "Linux", NEW failures,
         nat' = [r \in NATRules |-> IF r \in (LinuxKinds \ failures) \X {main_iface}
                                    THEN Cleared(failures)[r] + 1 ELSE Cleared(failures)[r]]
  PROVE  /\ nat' \in [NATRules -> Nat]
         /\ \A r \in NATRules : nat'[r] <= nat[r] + 1
         /\ \A k \in LinuxKinds : k \notin failures => nat'[<<k, main_iface>>] > 0
         /\ "clear" \notin failures /\ nat[<<"masquerade", main_iface>>] <= 1
              => nat'[<<"masquerade", main_iface>>] <= 1
         /\ \A i \in Ifaces : i # main_iface =>
              nat'[<<"masquerade", i>>] = nat[<<"masquerade", i>>]
<1> DEFINE m == <<"masquerade", main_iface>>
           c == Cleared(failures)
<1>1. m \in NATRules /\ nat \in [NATRules -> Nat] /\ main_iface \in Ifaces
  BY AreRules DEF NATInv, NATTypes, LinuxKinds
<1>2. /\ c \in [NATRules -> Nat]
      /\ \A r \in NATRules : c[r] <= nat[r] /\ (r # m => c[r] = nat[r])
      /\ "clear" \notin failures /\ nat[m] <= 1 => c[m] = 0
  BY <1>1 DEF Cleared
<1> HIDE DEF c
<1>3. nat' = [r \in NATRules |-> IF r \in (LinuxKinds \ failures) \X {main_iface}
                                 THEN c[r] + 1 ELSE c[r]]
  BY DEF c
<1>4. \A i \in Ifaces : i # main_iface =>
        /\ <<"masquerade", i>> \in NATRules /\ <<"masquerade", i>> # m
        /\ <<"masquerade", i>> \notin (LinuxKinds \ failures) \X {main_iface}
  BY AreRules DEF LinuxKinds
<1>5. \A k \in LinuxKinds : k \notin failures => nat'[<<k, main_iface>>] > 0
  BY <1>1, <1>2, <1>3, AreRules
<1> QED
  BY <1>1, <1>2, <1>3, <1>4, <1>5

\* teardown() on Linux only deletes, the rule that translates among others.
LEMMA TeardownRules ==
  ASSUME NATInv, platform = "Linux", NEW failures,
         nat' = [r \in NATRules |-> IF r \in (LinuxKinds \ failures) \X {main_iface} /\ nat[r] > 0
                                    THEN nat[r] - 1 ELSE nat[r]]
  PROVE  /\ nat' \in [NATRules -> Nat]
         /\ \A r \in NATRules : nat'[r] <= nat[r]
         /\ "masquerade" \notin failures /\ nat[<<"masquerade", main_iface>>] <= 1
              => nat'[<<"masquerade", main_iface>>] = 0
<1>1. <<"masquerade", main_iface>> \in NATRules /\ nat \in [NATRules -> Nat]
  BY AreRules DEF NATInv, NATTypes, LinuxKinds
<1> QED
  BY <1>1 DEF LinuxKinds

\* Every step keeps the invariant, call by call.
LEMMA NATInvStep == NATInv /\ [NATNext]_<<platform, natVars>> => NATInv'
<1> SUFFICES ASSUME NATInv, [NATNext]_<<platform, natVars>> PROVE NATInv'
  OBVIOUS
<1>1. CASE SetupLinux
  <2>1. PICK failures \in SUBSET ({"forwarding", "clear"} \cup LinuxKinds) :
          /\ platform = "Linux"
          /\ nat' = [r \in NATRules |-> IF r \in (LinuxKinds \ failures) \X {main_iface}
                                        THEN Cleared(failures)[r] + 1 ELSE Cleared(failures)[r]]
          /\ Called("setup", Success(failures), failures)
    BY <1>1 DEF SetupLinux
  <2>2. NATTypes'
    BY <2>1, SetupRules DEF NATInv, NATTypes, Called
  <2>3. \A r \in NATRules : nat'[r] <= setups'
    BY <2>1, SetupRules DEF NATInv, NATTypes, Called
  <2>4. ASSUME ~failed', NEW i \in Ifaces
        PROVE  (Translated(i) <= 1 /\ (~moved /\ i # main_iface => Translated(i) = 0))'
    <3>1. ~failed /\ failures = {} /\ UNCHANGED <<main_iface, moved>> /\ main_iface \in Ifaces
      BY <2>1, <2>4 DEF Called, NATInv, NATTypes
    <3>2. nat[<<"masquerade", main_iface>>] <= 1
      BY <2>1, <3>1 DEF NATInv, Translated
    <3>3. nat'[<<"masquerade", main_iface>>] <= 1
          /\ (i # main_iface => nat'[<<"masquerade", i>>] = nat[<<"masquerade", i>>])
      BY <2>1, <3>1, <3>2, SetupRules
    <3> QED
      BY <2>1, <3>1, <3>3 DEF NATInv, Translated
  <2> QED
    BY <2>2, <2>3, <2>4 DEF NATInv
<1>2. CASE TeardownLinux
  <2>1. PICK failures \in SUBSET LinuxKinds :
          /\ platform = "Linux"
          /\ nat' = [r \in NATRules |-> IF r \in (LinuxKinds \ failures) \X {main_iface} /\ nat[r] > 0
                                        THEN nat[r] - 1 ELSE nat[r]]
          /\ Called("teardown", TRUE, failures)
    BY <1>2 DEF TeardownLinux
  <2>2. NATTypes' /\ \A r \in NATRules : nat'[r] <= setups'
    BY <2>1, TeardownRules DEF NATInv, NATTypes, Called
  <2>3. ASSUME ~failed', NEW i \in Ifaces
        PROVE  (Translated(i) <= 1 /\ (~moved /\ i # main_iface => Translated(i) = 0))'
    <3>1. ~failed /\ UNCHANGED <<main_iface, moved>> /\ <<"masquerade", i>> \in NATRules
      BY <2>1, <2>3, AreRules DEF Called, LinuxKinds
    <3>2. nat'[<<"masquerade", i>>] <= nat[<<"masquerade", i>>] /\ nat'[<<"masquerade", i>>] \in Nat
      BY <2>1, <3>1, TeardownRules
    <3> QED
      BY <2>1, <3>1, <3>2 DEF NATInv, NATTypes, Translated
  <2> QED
    BY <2>2, <2>3 DEF NATInv
<1>3. CASE SetupWindows
  <2>1. /\ platform = "Windows" /\ nat' \in [NATRules -> Nat]
        /\ \A r \in NATRules : nat'[r] <= setups + 1
        /\ setups' = setups + 1 /\ failed' \in BOOLEAN /\ UNCHANGED <<platform, main_iface, moved>>
    BY <1>3 DEF SetupWindows, Called, NATInv, NATTypes
  <2> QED
    BY <2>1 DEF NATInv, NATTypes
<1>4. CASE TeardownWindows
  <2>1. /\ platform = "Windows" /\ nat' \in [NATRules -> Nat]
        /\ \A r \in NATRules : nat'[r] <= nat[r]
        /\ setups' = setups + 1 /\ failed' \in BOOLEAN /\ UNCHANGED <<platform, main_iface, moved>>
    BY <1>4, AreRules DEF TeardownWindows, Called, NATInv, NATTypes
  <2> QED
    BY <2>1 DEF NATInv, NATTypes
<1>5. CASE InterfaceChanges
  <2>1. /\ UNCHANGED <<platform, nat, failed, setups>>
        /\ moved' \in BOOLEAN /\ (moved => moved') /\ (setups > 0 => moved')
        /\ platform = "Linux" => main_iface' \in Ifaces
    BY <1>5 DEF InterfaceChanges, NATInv, NATTypes
  <2>2. \A i \in Ifaces : <<"masquerade", i>> \in NATRules
    BY AreRules DEF LinuxKinds
  <2>3. ASSUME ~moved', NEW i \in Ifaces
        PROVE  Translated(i) = 0
    <3>1. setups = 0
      BY <2>1, <2>3 DEF NATInv, NATTypes
    <3> QED
      BY <2>2, <3>1 DEF NATInv, NATTypes, Translated
  <2> QED
    BY <2>1, <2>3 DEF NATInv, NATTypes, Translated
<1>6. CASE UNCHANGED <<platform, natVars>>
  BY <1>6 DEF natVars, NATInv, NATTypes, Translated
<1> QED
  BY <1>1, <1>2, <1>3, <1>4, <1>5, <1>6 DEF NATNext

\* The invariant above holds in every reachable state (server/nat.py:55-203).
THEOREM NATInvariant == NATSpec => []NATInv
<1>1. NATInit => NATInv BY NATInvInit
<1>2. NATInv /\ [NATNext]_<<platform, natVars>> => NATInv' BY NATInvStep
<1> QED BY <1>1, <1>2, PTL DEF NATSpec

\* Only a setup() that returned True has to show its rules, and it does.
LEMMA InPlaceStep ==
  ASSUME NATInv, NATInPlace, [NATNext]_<<platform, natVars>>
  PROVE  NATInPlace'
<1>1. CASE SetupLinux
  <2>1. PICK failures \in SUBSET ({"forwarding", "clear"} \cup LinuxKinds) :
          /\ platform = "Linux"
          /\ ip_forward' = (ip_forward \/ "forwarding" \notin failures)
          /\ nat' = [r \in NATRules |-> IF r \in (LinuxKinds \ failures) \X {main_iface}
                                        THEN Cleared(failures)[r] + 1 ELSE Cleared(failures)[r]]
          /\ Called("setup", Success(failures), failures)
    BY <1>1 DEF SetupLinux
  <2>2. ASSUME failures \subseteq {"clear"}
        PROVE  /\ ip_forward' /\ main_iface \in Ifaces
               /\ \A k \in LinuxKinds : nat'[<<k, main_iface>>] > 0
    <3>1. \A k \in LinuxKinds : k \notin failures
      BY <2>2 DEF LinuxKinds
    <3> QED
      BY <2>1, <2>2, <3>1, SetupRules DEF NATInv, NATTypes
  <2> QED
    BY <2>1, <2>2 DEF Called, Success, NATInPlace
<1>2. CASE TeardownLinux \/ TeardownWindows
  <2>1. nat_call' = "teardown"
    BY <1>2 DEF TeardownLinux, TeardownWindows, Called
  <2> QED
    BY <2>1 DEF NATInPlace
<1>3. CASE SetupWindows
  <2>1. /\ platform' = "Windows"
        /\ nat_result' => nat'[<<"full", Tun>>] > 0
    BY <1>3, AreRules DEF SetupWindows, Called
  <2> QED
    BY <2>1 DEF NATInPlace
<1>4. CASE InterfaceChanges \/ UNCHANGED <<platform, natVars>>
  <2>1. UNCHANGED <<platform, nat, ip_forward, nat_call, nat_result>>
    BY <1>4 DEF InterfaceChanges, natVars
  <2>2. NATInPlace' <=> NATInPlace
    BY <2>1, ZenonT(30) DEF NATInPlace
  <2> QED BY <2>2
<1> QED
  BY <1>1, <1>2, <1>3, <1>4 DEF NATNext

\* A setup() that returned True: on Linux packets are forwarded and the rules of
\* one interface are in place, whatever happened in earlier calls; on Windows the
\* TUN interface has its entry, and no more is said (server/nat.py:55-163).
THEOREM SetupWorks == NATSpec => []NATInPlace
<1>1. NATInit => NATInPlace BY DEF NATInit, NATInPlace
<1>2. NATInv /\ NATInPlace /\ [NATNext]_<<platform, natVars>> => NATInPlace'
  BY InPlaceStep
<1> QED BY <1>1, <1>2, NATInvariant, PTL DEF NATSpec

\* Only a teardown() has to leave no rule that translates, and it does.
LEMMA RemovedStep ==
  ASSUME NATInv, NATInv', NATRemoved, [NATNext]_<<platform, natVars>>
  PROVE  NATRemoved'
<1>1. CASE TeardownLinux
  <2>1. PICK failures \in SUBSET LinuxKinds :
          /\ platform = "Linux"
          /\ nat' = [r \in NATRules |-> IF r \in (LinuxKinds \ failures) \X {main_iface} /\ nat[r] > 0
                                        THEN nat[r] - 1 ELSE nat[r]]
          /\ Called("teardown", TRUE, failures)
    BY <1>1 DEF TeardownLinux
  <2>2. ASSUME ~failed', ~moved', NEW i \in Ifaces
        PROVE  Translated(i)' = 0
    <3>1. ~failed /\ failures = {} /\ UNCHANGED <<platform, main_iface, moved>>
      BY <2>1, <2>2 DEF Called, NATInv, NATTypes
    <3>2. CASE i = main_iface
      BY <2>1, <3>1, <3>2, TeardownRules DEF NATInv, Translated
    <3>3. CASE i # main_iface
      BY <2>1, <2>2, <3>1, <3>3 DEF NATInv, Translated
    <3> QED BY <3>2, <3>3
  <2> QED
    BY <2>2 DEF NATInv, NATRemoved
<1>2. CASE SetupLinux \/ SetupWindows \/ TeardownWindows
  <2>1. nat_call' # "teardown" \/ platform' # "Linux"
    BY <1>2 DEF SetupLinux, SetupWindows, TeardownWindows, Called
  <2> QED
    BY <2>1 DEF NATInv, NATRemoved
<1>3. CASE InterfaceChanges \/ UNCHANGED <<platform, natVars>>
  <2>1. UNCHANGED <<platform, nat, nat_call, failed>> /\ (moved => moved')
    BY <1>3 DEF InterfaceChanges, natVars, NATInv, NATTypes
  <2> QED
    BY <2>1 DEF NATRemoved, Translated
<1> QED
  BY <1>1, <1>2, <1>3 DEF NATNext

\* On Linux, without failures, packets are translated by one rule of each
\* interface at most, and by none after a teardown() unless the default route
\* has moved (server/nat.py:139-143, 165-181).
THEOREM TeardownRemoves == NATSpec => []NATRemoved
<1>1. NATInit => NATRemoved
  <2> SUFFICES ASSUME NATInit PROVE NATRemoved
    OBVIOUS
  <2>1. NATInv /\ nat_call = "none"
    BY NATInvInit DEF NATInit
  <2> QED
    BY <2>1 DEF NATInv, NATRemoved
<1>2. NATInv /\ NATInv' /\ NATRemoved /\ [NATNext]_<<platform, natVars>> => NATRemoved'
  BY RemovedStep
<1> QED BY <1>1, <1>2, NATInvariant, PTL DEF NATSpec

\* The types, action by action.
LEMMA NATTypesStep ==
  ASSUME NATTypeOK, NATInv', [NATNext]_<<platform, natVars>>
  PROVE  NATTypeOK'
<1> USE SetupsAssumption
<1> DEFINE Places == IF platform = "Windows" THEN Ifaces \cup {NoIface} ELSE Ifaces
<1>1. nat' \in [NATRules -> Nat] /\ \A r \in NATRules : nat'[r] <= setups'
  BY DEF NATInv, NATTypes
<1>2. ASSUME setups' \in 0..MaxSetups
      PROVE  nat' \in [NATRules -> 0..MaxSetups]
  BY <1>1, <1>2
<1>3. ASSUME NEW name \in {"setup", "teardown"}, NEW result \in BOOLEAN, NEW failures,
             Called(name, result, failures), ip_forward' \in BOOLEAN
      PROVE  NATTypeOK'
  <2>1. setups' \in 0..MaxSetups
    BY <1>3 DEF Called, NATTypeOK
  <2>2. failed' \in BOOLEAN
    BY <1>3 DEF Called, NATTypeOK
  <2>3. /\ main_iface' \in IF platform' = "Windows" THEN Ifaces \cup {NoIface} ELSE Ifaces
        /\ moved' \in BOOLEAN
    BY <1>3 DEF Called, NATTypeOK
  <2>4. nat_call' = name /\ nat_result' = result
    BY <1>3 DEF Called
  <2> QED
    BY <1>2, <1>3, <2>1, <2>2, <2>3, <2>4 DEF NATTypeOK
<1>4. CASE SetupLinux
  <2>1. PICK failures \in SUBSET ({"forwarding", "clear"} \cup LinuxKinds) :
          /\ ip_forward' = (ip_forward \/ "forwarding" \notin failures)
          /\ Called("setup", Success(failures), failures)
    BY <1>4 DEF SetupLinux
  <2>2. Success(failures) \in BOOLEAN /\ ip_forward' \in BOOLEAN
    BY <2>1 DEF Success, NATTypeOK
  <2> QED
    BY <1>3, <2>1, <2>2
<1>5. CASE TeardownLinux
  <2>1. PICK failures \in SUBSET LinuxKinds :
          UNCHANGED ip_forward /\ Called("teardown", TRUE, failures)
    BY <1>5 DEF TeardownLinux
  <2> QED
    BY <1>3, <2>1 DEF NATTypeOK
<1>6. CASE SetupWindows
  <2>1. PICK failures \in SUBSET {"full", "private"}, result \in BOOLEAN :
          UNCHANGED ip_forward /\ Called("setup", result, failures)
    BY <1>6 DEF SetupWindows
  <2> QED
    BY <1>3, <2>1 DEF NATTypeOK
<1>7. CASE TeardownWindows
  <2>1. PICK failures \in SUBSET {"full"} :
          UNCHANGED ip_forward /\ Called("teardown", TRUE, failures)
    BY <1>7 DEF TeardownWindows
  <2> QED
    BY <1>3, <2>1 DEF NATTypeOK
<1>8. CASE InterfaceChanges
  <2>1. setups' = setups /\ setups' \in 0..MaxSetups
    BY <1>8 DEF InterfaceChanges, NATTypeOK
  <2>2. moved' \in BOOLEAN
    BY <1>8 DEF InterfaceChanges, NATTypeOK
  <2>3. /\ main_iface' \in IF platform' = "Windows" THEN Ifaces \cup {NoIface} ELSE Ifaces
        /\ UNCHANGED <<ip_forward, nat_call, nat_result, failed>>
    BY <1>8 DEF InterfaceChanges
  <2> QED
    BY <1>2, <2>1, <2>2, <2>3 DEF NATTypeOK
<1>9. CASE UNCHANGED <<platform, natVars>>
  BY <1>9 DEF natVars, NATTypeOK
<1> QED
  BY <1>4, <1>5, <1>6, <1>7, <1>8, <1>9 DEF NATNext

\* The types hold at first.
LEMMA NATTypesInit == NATInit => NATTypeOK
<1> SUFFICES ASSUME NATInit PROVE NATTypeOK
  OBVIOUS
<1>1. 0 \in 0..MaxSetups
  BY SetupsAssumption
<1>2. nat \in [NATRules -> 0..MaxSetups] /\ setups \in 0..MaxSetups
  BY <1>1 DEF NATInit
<1>3. /\ ip_forward \in BOOLEAN /\ nat_result \in BOOLEAN /\ failed \in BOOLEAN /\ moved \in BOOLEAN
      /\ nat_call = "none"
  BY DEF NATInit
<1>4. main_iface \in IF platform = "Windows" THEN Ifaces \cup {NoIface} ELSE Ifaces
  BY DEF NATInit
<1> QED
  BY <1>2, <1>3, <1>4 DEF NATTypeOK

\* Every state of the NAT rules has the types of its module
\* (server/nat.py:31-203).
THEOREM NATTypeCorrect == NATSpec => []NATTypeOK
<1>1. NATTypeOK /\ NATInv' /\ [NATNext]_<<platform, natVars>> => NATTypeOK'
  BY NATTypesStep
<1> QED
  BY <1>1, NATTypesInit, NATInvariant, PTL DEF NATSpec

-----------------------------------------------------------------------------
(* The two classes on one host. *)

\* A host with both classes behaves as each of them allows: a step of one is a
\* step of its specification and leaves everything of the other alone, the
\* platform with it (server/nat.py:13-203, 205-398).
THEOREM HostImplementsBoth == FirewallSpec => Spec /\ NATSpec
<1>1. FirewallInit => Init /\ NATInit
  BY DEF FirewallInit
<1>2. Next => UNCHANGED platform
  BY DEF Next, Enable, Disable, Start, DisableNothing, RunCommand, Return, Restart
<1>3. NATNext => UNCHANGED platform
  BY DEF NATNext, SetupLinux, TeardownLinux, SetupWindows, TeardownWindows, Called,
         InterfaceChanges
<1>4. [FirewallNext]_<<object, vars, natVars>> => [Next]_vars /\ [NATNext]_<<platform, natVars>>
  <2>1. CASE object = "KillSwitch" /\ Next /\ UNCHANGED <<object, natVars>>
    BY <1>2, <2>1
  <2>2. CASE object = "NATManager" /\ NATNext /\ UNCHANGED <<object, switchVars>>
    BY <1>3, <2>2 DEF switchVars, vars
  <2>3. CASE UNCHANGED <<object, vars, natVars>>
    BY <2>3 DEF vars
  <2> QED
    BY <2>1, <2>2, <2>3 DEF FirewallNext
<1> QED
  BY <1>1, <1>4, PTL DEF FirewallSpec, Spec, NATSpec

\* Every state of a host with both classes has the types of the two modules
\* (server/nat.py:13-398).
THEOREM FirewallTypeCorrect == FirewallSpec => []FirewallTypeOK
<1>1. TypeOK /\ NATTypeOK => FirewallTypeOK
  BY DEF FirewallTypeOK
<1> QED
  BY <1>1, HostImplementsBoth, SwitchTypeCorrect, NATTypeCorrect, PTL

\* The properties proved of each class hold of a host with both, with the same
\* exceptions: what an enabled switch stops and lets through, that a disabled one
\* stops nothing, and the NAT rules after setup() and after teardown()
\* (server/nat.py:13-398).
THEOREM FirewallSafe ==
  FirewallSpec =>
    [](EnabledBlocks /\ OnlyExemptPass /\ DisabledPasses /\ NATInPlace /\ NATRemoved)
  BY HostImplementsBoth, SwitchBlocks, OnlyExemptTrafficPasses, DisabledSwitchPasses,
     SetupWorks, TeardownRemoves, PTL
=============================================================================
