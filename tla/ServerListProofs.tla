-------------------------- MODULE ServerListProofs --------------------------
(***************************************************************************)
(* Proofs about the server list of ui/main.py, for any finite number of    *)
(* servers and any hosts they share: what the user sees is the list, and   *)
(* the ping thread never shows the latency of one host at another.         *)
(***************************************************************************)
EXTENDS ServerList, SequenceTheorems, FiniteSetTheorems, TLAPS

-----------------------------------------------------------------------------
(* Lists of servers: sequences without repetition, no longer than there are *)
(* servers.                                                                 *)

\* What it means to be a list.
LEMMA ListFacts ==
  ASSUME NEW l \in Lists
  PROVE  /\ l \in Seq(Servers) /\ IsInjective(l)
         /\ Len(l) \in Nat /\ DOMAIN l = 1..Len(l) /\ Len(l) <= Cardinality(Servers)
<1>1. PICK n \in 0..Cardinality(Servers) : l \in [1..n -> Servers]
  BY DEF Lists
<1>2. IsInjective(l)
  BY DEF Lists
<1>3. Cardinality(Servers) \in Nat
  BY ServersAssumption, FS_CardinalityType
<1>4. n \in Nat /\ n <= Cardinality(Servers)
  BY <1>1, <1>3
<1>5. l \in Seq(Servers) /\ Len(l) = n
  BY <1>1, <1>4, SeqDef, LenProperties
<1> QED
  BY <1>2, <1>4, <1>5, LenProperties

\* ... and what is enough to be one: an injection is not longer than its target.
LEMMA IsList ==
  ASSUME NEW l \in Seq(Servers), IsInjective(l)
  PROVE  l \in Lists
<1>1. l \in [1..Len(l) -> Servers] /\ Len(l) \in Nat /\ 1 \in Int
  BY LenProperties
<1>2. l \in Injection(1..Len(l), Servers)
  BY <1>1 DEF Injection
<1>3. Cardinality(1..Len(l)) <= Cardinality(Servers)
  BY <1>2, ServersAssumption, FS_Injection
<1>4. Cardinality(1..Len(l)) = Len(l)
  <2>1. Cardinality(1..Len(l)) = IF 1 > Len(l) THEN 0 ELSE Len(l) - 1 + 1
    BY <1>1, FS_Interval
  <2> QED
    BY <1>1, <2>1
<1>5. Cardinality(Servers) \in Nat
  BY ServersAssumption, FS_CardinalityType
<1>6. Len(l) \in 0..Cardinality(Servers)
  BY <1>1, <1>3, <1>4, <1>5
<1> QED
  BY <1>1, <1>6 DEF Lists

\* The empty list.
LEMMA EmptyList == <<>> \in Lists /\ DOMAIN <<>> = {} /\ Range(<<>>) = {}
<1>1. <<>> \in Seq(Servers) /\ DOMAIN <<>> = {}
  OBVIOUS
<1>2. IsInjective(<<>>)
  BY <1>1 DEF IsInjective
<1>3. Range(<<>>) = {}
  BY <1>1 DEF Range
<1> QED
  BY <1>1, <1>2, <1>3, IsList

\* append() of a server that is not in the list.
LEMMA AppendedList ==
  ASSUME NEW l \in Lists, NEW s \in Servers, s \notin Range(l)
  PROVE  /\ Append(l, s) \in Lists
         /\ Range(l) \subseteq Range(Append(l, s))
<1> DEFINE a == Append(l, s)
<1>1. l \in Seq(Servers) /\ IsInjective(l) /\ Len(l) \in Nat /\ DOMAIN l = 1..Len(l)
  BY ListFacts
<1>2. /\ a \in Seq(Servers) /\ DOMAIN a = 1..(Len(l) + 1) /\ a[Len(l) + 1] = s
      /\ \A i \in 1..Len(l) : a[i] = l[i]
  BY <1>1
<1> HIDE DEF a
<1>3. \A i \in 1..Len(l) : a[i] # s
  BY <1>1, <1>2 DEF Range
<1>4. ASSUME NEW i \in DOMAIN a, NEW j \in DOMAIN a, a[i] = a[j]
      PROVE  i = j
  <2>1. CASE i \in 1..Len(l) /\ j \in 1..Len(l)
    BY <1>1, <1>2, <1>4, <2>1 DEF IsInjective
  <2>2. CASE i = Len(l) + 1 \/ j = Len(l) + 1
    BY <1>1, <1>2, <1>3, <1>4, <2>2
  <2> QED
    BY <1>1, <1>2, <1>4, <2>1, <2>2
<1>5. a \in Lists
  BY <1>2, <1>4, IsList DEF IsInjective
<1>6. \A i \in DOMAIN l : i \in DOMAIN a /\ a[i] = l[i]
  BY <1>1, <1>2
<1> QED
  BY <1>5, <1>6 DEF Range, a

\* A concatenation, and where its second part begins.
LEMMA Joined ==
  ASSUME NEW S, NEW s \in Seq(S), NEW t \in Seq(S)
  PROVE  /\ s \o t \in Seq(S) /\ Len(s \o t) = Len(s) + Len(t)
         /\ \A i \in 1..Len(s) : (s \o t)[i] = s[i]
         /\ \A k \in 1..Len(t) : (s \o t)[Len(s) + k] = t[k]
OBVIOUS

\* A place behind the first m of m + n places is one of the other n.
LEMMA SecondPart ==
  ASSUME NEW m \in Nat, NEW n \in Nat, NEW i \in 1..(m + n), ~(i <= m)
  PROVE  \E k \in 1..n : i = m + k
<1>1. i - m \in 1..n /\ i = m + (i - m)
  OBVIOUS
<1> QED
  BY <1>1

\* An entry of a concatenation behind its first part is one of the second.
LEMMA JoinedAt ==
  ASSUME NEW S, NEW s \in Seq(S), NEW t \in Seq(S), NEW i \in DOMAIN (s \o t),
         ~(i <= Len(s))
  PROVE  \E k \in 1..Len(t) : i = Len(s) + k /\ (s \o t)[i] = t[k]
<1>1. Len(s) \in Nat /\ Len(t) \in Nat /\ i \in 1..(Len(s) + Len(t))
  BY Joined
<1>2. PICK k \in 1..Len(t) : i = Len(s) + k
  BY <1>1, SecondPart
<1> QED
  BY <1>2, Joined

\* RemoveAt() moves what follows one place down.
LEMMA Removed == ASSUME NEW S, NEW s \in Seq(S), NEW i \in DOMAIN s
  PROVE /\ RemoveAt(s, i) \in Seq(S) /\ Len(RemoveAt(s,i)) = Len(s) - 1
        /\ \A j \in 1..(Len(s) - 1) : RemoveAt(s, i)[j] = IF j < i THEN s[j] ELSE s[j + 1]
<1> DEFINE f == SubSeq(s, 1, i - 1)  b == SubSeq(s, i + 1, Len(s)) r == RemoveAt(s, i)
<1>1. /\ f \in Seq(S) /\ b \in Seq(S) /\ Len(f) = i - 1 /\ Len(b) = Len(s) - i
  OBVIOUS
<1>2. /\ \A j \in 1..(i - 1) : f[j] = s[j]
      /\ \A j \in 1..(Len(s) - i) : b[j] = s[i + j]
      /\ Len(s) \in Nat /\ i \in 1..Len(s)
  OBVIOUS
<1>3. r = f \o b
  BY DEF RemoveAt
<1> HIDE DEF f, b, r
<1>4. r \in Seq(S) /\ Len(r) = Len(s) - 1
  BY <1>1, <1>2, <1>3, Joined
<1>5. ASSUME NEW j \in 1..(Len(s) - 1), j < i PROVE r[j] = s[j]
  BY <1>1, <1>2, <1>3, <1>5, Joined
<1>6. ASSUME NEW j \in 1..(Len(s) - 1), ~(j < i) PROVE r[j] = s[j + 1]
  <2>1. PICK k \in 1..Len(b) : j = Len(f) + k /\ r[j] = b[k]
    <3>1. j \in DOMAIN r
      BY <1>1, <1>2, <1>4, <1>6
    <3>2. ~(j <= Len(f))
      BY <1>1, <1>2, <1>6
    <3>3. f \in Seq(S) /\ b \in Seq(S) /\ j \in DOMAIN (f \o b)
      BY <1>1, <1>3, <3>1
    <3>4. \E k \in 1..Len(b) : j = Len(f) + k /\ (f \o b)[j] = b[k]
      BY <3>2, <3>3, JoinedAt
    <3> QED
      BY <1>3, <3>4
  <2>2. b[k] = s[i + k]
    BY <1>1, <1>2, <2>1
  <2>3. i + k = j + 1
    BY <1>1, <1>2, <2>1
  <2> QED
    BY <2>1, <2>2, <2>3
<1> QED BY <1>4, <1>5, <1>6 DEF r

\* del of the server at one place.
LEMMA ShortenedList ==
  ASSUME NEW l \in Lists, NEW i \in DOMAIN l
  PROVE  /\ RemoveAt(l, i) \in Lists
         /\ \A s \in Range(l) : s # l[i] => s \in Range(RemoveAt(l, i))
<1> DEFINE r == RemoveAt(l, i)
<1>1. l \in Seq(Servers) /\ IsInjective(l) /\ Len(l) \in Nat /\ DOMAIN l = 1..Len(l)
  BY ListFacts
<1>2. /\ r \in Seq(Servers) /\ DOMAIN r = 1..(Len(l) - 1) /\ i \in 1..Len(l)
      /\ \A j \in 1..(Len(l) - 1) : r[j] = IF j < i THEN l[j] ELSE l[j + 1]
  BY <1>1, Removed
<1> HIDE DEF r
<1>3. ASSUME NEW j \in DOMAIN r
      PROVE  \E m \in DOMAIN l : r[j] = l[m] /\ m = IF j < i THEN j ELSE j + 1
  <2>1. (IF j < i THEN j ELSE j + 1) \in DOMAIN l
    BY <1>1, <1>2
  <2> QED
    BY <1>2, <2>1
<1>4. ASSUME NEW j \in DOMAIN r, NEW k \in DOMAIN r, r[j] = r[k]
      PROVE  j = k
  <2>1. PICK m \in DOMAIN l : r[j] = l[m] /\ m = IF j < i THEN j ELSE j + 1
    BY <1>3
  <2>2. PICK n \in DOMAIN l : r[k] = l[n] /\ n = IF k < i THEN k ELSE k + 1
    BY <1>3
  <2>3. m = n
    BY <1>1, <1>4, <2>1, <2>2 DEF IsInjective
  <2> QED
    BY <1>2, <2>1, <2>2, <2>3
<1>5. r \in Lists
  BY <1>2, <1>4, IsList DEF IsInjective
<1>6. ASSUME NEW m \in DOMAIN l, m # i
      PROVE  \E j \in DOMAIN r : r[j] = l[m]
  <2>1. CASE m < i
    BY <1>1, <1>2, <1>6, <2>1
  <2>2. CASE ~(m < i)
    <3>1. PICK j \in 1..(Len(l) - 1) : m = j + 1
      <4>1. m - 1 \in 1..(Len(l) - 1) /\ m = (m - 1) + 1
        BY <1>1, <1>2, <1>6, <2>2
      <4> QED
        BY <4>1
    <3>2. ~(j < i)
      BY <1>1, <1>2, <1>6, <2>2, <3>1
    <3> QED
      BY <1>2, <3>1, <3>2
  <2> QED
    BY <2>1, <2>2
<1>7. \A s \in Range(l) : s # l[i] => s \in Range(r)
  BY <1>6 DEF Range
<1> QED
  BY <1>5, <1>7 DEF r

-----------------------------------------------------------------------------
(* The invariant. *)

\* The latency of a server, and the one in the dictionary of the ping thread,
\* were measured at their host; an application that does not run has nothing
\* open and nothing selected.
PingInv ==
  /\ \A s \in Servers : latency[s] # None => Host[latency[s]] = Host[s]
  /\ \A h \in Hosts : latencies[h] # None => Host[latencies[h]] = h

StoppedInv == ~up => rows = Closed /\ selected = None

ListInv == TypeOK /\ PingInv /\ StoppedInv /\ SelectedInList /\ ViewsAgree /\ LatencyOfHost

\* The invariant holds before the application is started for the first time.
LEMMA ListInvInit == Init => ListInv
<1> SUFFICES ASSUME Init PROVE ListInv
  OBVIOUS
<1>1. servers \in Lists /\ frames \in Lists /\ file \in Lists \cup {Damaged}
  BY EmptyList DEF Init
<1>2. labels \in [DOMAIN frames -> Servers \cup {None}]
  BY EmptyList DEF Init
<1>3. /\ latency \in [Servers -> Servers \cup {None}]
      /\ latencies \in [Hosts -> Servers \cup {None}]
  BY DEF Init, NoLatency, NoLatencies
<1>4. selected_index \in 0..Cardinality(Servers)
  BY ServersAssumption, FS_CardinalityType DEF Init
<1>5. edits \in 0..MaxEdits
  BY EditsAssumption DEF Init
<1>6. TypeOK
  BY <1>1, <1>2, <1>3, <1>4, <1>5 DEF Init, TypeOK
<1>7. PingInv
  BY DEF Init, PingInv, NoLatency, NoLatencies
<1> QED
  BY <1>6, <1>7 DEF Init, ListInv, StoppedInv, SelectedInList, ViewsAgree, LatencyOfHost

\* The widgets of a list have the types of theirs, and show latencies of hosts.
LEMMA ShowsRight ==
  ASSUME NEW list \in Lists, NEW lat \in [Servers -> Servers \cup {None}],
         \A s \in Servers : lat[s] # None => Host[lat[s]] = Host[s],
         Shows(list, lat)
  PROVE  /\ frames' \in Lists /\ labels' \in [DOMAIN frames' -> Servers \cup {None}]
         /\ \A i \in DOMAIN list : labels'[i] # None => Host[labels'[i]] = Host[list[i]]
<1>1. \A i \in DOMAIN list : list[i] \in Servers
  BY ListFacts
<1> QED
  BY <1>1 DEF Shows

\* _save_servers() and the refreshes: whether they succeed or not, nothing is
\* shown that is not so unless the save has failed.
LEMMA SaveKeeps ==
  ASSUME ListInv, up, up' = up, NEW list \in Lists,
         NEW lat \in [Servers -> Servers \cup {None}],
         \A s \in Servers : lat[s] # None => Host[lat[s]] = Host[s],
         SaveAndRefresh(list, lat),
         selected' # None => selected' \in Range(list), selected' \in Servers \cup {None},
         selected_index' = selected_index, UNCHANGED thread, edits' \in 0..MaxEdits
  PROVE  ListInv'
<1>1. servers' = list /\ latency' = lat /\ UNCHANGED <<ping, latencies, posted>>
  BY DEF SaveAndRefresh, thread
<1>2. /\ file' \in Lists \cup {Damaged} /\ saved' \in BOOLEAN
      /\ frames' \in Lists /\ labels' \in [DOMAIN frames' -> Servers \cup {None}]
      /\ rows' \in Lists \cup {Closed}
      /\ saved' => /\ file' = list /\ frames' = list /\ rows' = list
                   /\ \A i \in DOMAIN list :
                        labels'[i] # None => Host[labels'[i]] = Host[list[i]]
  <2>1. CASE saved' = TRUE /\ file' = list /\ Shows(list, lat) /\ rows' = list
    <3>1. frames' = list
      BY <2>1 DEF Shows
    <3> QED
      BY <2>1, <3>1, ShowsRight
  <2>2. CASE saved' = FALSE /\ file' \in {file, Damaged} /\ UNCHANGED <<shown, rows>>
    BY <2>2 DEF ListInv, TypeOK, shown
  <2> QED
    BY <2>1, <2>2 DEF SaveAndRefresh
<1>3. TypeOK'
  BY <1>1, <1>2 DEF ListInv, TypeOK
<1>4. PingInv'
  BY <1>1 DEF ListInv, PingInv
<1> QED
  BY <1>1, <1>2, <1>3, <1>4
     DEF ListInv, StoppedInv, SelectedInList, ViewsAgree, LatencyOfHost

\* The process.
LEMMA ProcessKeeps == ListInv /\ (Start \/ Die \/ Repair) => ListInv'
<1> SUFFICES ASSUME ListInv, Start \/ Die \/ Repair PROVE ListInv'
  OBVIOUS
<1>1. /\ NoLatency \in [Servers -> Servers \cup {None}]
      /\ \A s \in Servers : NoLatency[s] = None
      /\ NoLatencies \in [Hosts -> Servers \cup {None}]
      /\ \A h \in Hosts : NoLatencies[h] = None
  BY DEF NoLatency, NoLatencies
<1>2. CASE Start
  <2>1. /\ ~up /\ up' = TRUE /\ file \in Lists /\ servers' = file
        /\ UNCHANGED <<file, latency, rows, selected_index, selected, saved, ping,
                       latencies, posted, edits>>
    BY <1>2 DEF Start, choice, thread, ListInv, TypeOK
  <2>2. /\ frames' = file /\ frames' \in Lists
        /\ labels' \in [DOMAIN frames' -> Servers \cup {None}]
        /\ \A i \in DOMAIN file : labels'[i] # None => Host[labels'[i]] = Host[file[i]]
    <3>1. frames' = file
      BY <1>2 DEF Start, Shows
    <3> QED
      BY <1>1, <1>2, <2>1, <3>1, ShowsRight DEF Start
  <2>3. rows = Closed /\ selected = None
    BY <2>1 DEF ListInv, StoppedInv
  <2>4. TypeOK'
    BY <2>1, <2>2 DEF ListInv, TypeOK
  <2>5. PingInv'
    BY <2>1 DEF ListInv, PingInv
  <2>6. ViewsAgree'
    BY <2>1, <2>2, <2>3 DEF ViewsAgree
  <2> QED
    BY <2>1, <2>2, <2>3, <2>4, <2>5, <2>6
       DEF ListInv, StoppedInv, SelectedInList, LatencyOfHost
<1>3. CASE Die
  <2>1. /\ up' = FALSE /\ file' \in {file, Damaged} /\ servers' = <<>> /\ latency' = NoLatency
        /\ rows' = Closed /\ selected_index' = 0 /\ selected' = None /\ saved' = TRUE
        /\ ping' = 0 /\ latencies' = NoLatencies /\ posted' = FALSE /\ edits' = 0
    BY <1>3 DEF Die
  <2>2. frames' = <<>> /\ labels' \in [DOMAIN frames' -> Servers \cup {None}]
    BY <1>1, <1>3, EmptyList, ShowsRight DEF Die, Shows
  <2>3. 0 \in 0..Cardinality(Servers) /\ 0 \in 0..MaxEdits
    BY ServersAssumption, EditsAssumption, FS_CardinalityType
  <2>4. TypeOK'
    BY <1>1, <2>1, <2>2, <2>3, EmptyList DEF ListInv, TypeOK
  <2>5. PingInv'
    BY <1>1, <2>1 DEF PingInv
  <2> QED
    BY <2>1, <2>4, <2>5
       DEF ListInv, StoppedInv, SelectedInList, ViewsAgree, LatencyOfHost
<1>4. CASE Repair
  <2>1. ~up /\ file' = <<>> /\ UNCHANGED <<up, servers, latency, shown, rows, choice, saved,
                                          thread, edits>>
    BY <1>4 DEF Repair
  <2>2. UNCHANGED <<frames, labels, selected_index, selected, ping, latencies, posted>>
    BY <2>1 DEF shown, choice, thread
  <2>3. TypeOK'
    BY <2>1, <2>2, EmptyList DEF ListInv, TypeOK
  <2>4. PingInv'
    BY <2>1, <2>2 DEF ListInv, PingInv
  <2> QED
    BY <2>1, <2>2, <2>3, <2>4
       DEF ListInv, StoppedInv, SelectedInList, ViewsAgree, LatencyOfHost
<1> QED
  BY <1>2, <1>3, <1>4

\* The clicks of the user.
LEMMA ClickKeeps ==
  ASSUME ListInv, NEW i \in 1..Cardinality(Servers), Click(i)
  PROVE  ListInv'
<1>1. /\ up /\ selected_index' = i
      /\ selected' = IF i \in DOMAIN servers THEN servers[i] ELSE selected
      /\ UNCHANGED <<up, file, servers, latency, frames, labels, rows, saved, ping, latencies,
                     posted, edits>>
  BY DEF Click, shown, thread
<1>2. servers \in Lists /\ \A j \in DOMAIN servers : servers[j] \in Servers
  BY ListFacts DEF ListInv, TypeOK
<1>3. selected' \in Servers \cup {None} /\ (selected' # None => selected' \in Range(servers))
  BY <1>1, <1>2 DEF ListInv, TypeOK, SelectedInList, Range
<1>4. selected_index' \in 0..Cardinality(Servers)
  BY <1>1, ServersAssumption, FS_CardinalityType
<1>5. TypeOK'
  BY <1>1, <1>3, <1>4 DEF ListInv, TypeOK
<1>6. PingInv'
  BY <1>1 DEF ListInv, PingInv
<1> QED
  BY <1>1, <1>3, <1>5, <1>6
     DEF ListInv, StoppedInv, SelectedInList, ViewsAgree, LatencyOfHost

\* The settings dialog opens on the list.
LEMMA DialogKeeps == ListInv /\ (OpenSettings \/ CloseSettings) => ListInv'
<1> SUFFICES ASSUME ListInv, OpenSettings \/ CloseSettings PROVE ListInv'
  OBVIOUS
<1>1. /\ up /\ rows' \in {servers, Closed}
      /\ UNCHANGED <<up, file, servers, latency, frames, labels, selected_index, selected, saved,
                     ping, latencies, posted, edits>>
  BY DEF OpenSettings, CloseSettings, shown, choice, thread
<1>2. TypeOK'
  BY <1>1 DEF ListInv, TypeOK
<1>3. PingInv'
  BY <1>1 DEF ListInv, PingInv
<1> QED
  BY <1>1, <1>2, <1>3 DEF ListInv, StoppedInv, SelectedInList, ViewsAgree, LatencyOfHost

\* delete_server() and add_server().
LEMMA EditKeeps ==
  /\ \A i \in 1..Cardinality(Servers) : ListInv /\ DeleteServer(i) => ListInv'
  /\ \A s \in Servers : ListInv /\ AddServer(s) => ListInv'
<1>1. ASSUME ListInv, NEW i \in 1..Cardinality(Servers), DeleteServer(i)
      PROVE  ListInv'
  <2>1. /\ up /\ i \in DOMAIN servers /\ up' = up /\ selected_index' = selected_index
        /\ UNCHANGED thread /\ Unselect(i) /\ SaveAndRefresh(RemoveAt(servers, i), latency)
    BY <1>1 DEF DeleteServer
  <2>2. edits' \in 0..MaxEdits
    BY <1>1, EditsAssumption DEF DeleteServer, ListInv, TypeOK
  <2>3. servers \in Lists
    BY <1>1 DEF ListInv, TypeOK
  <2>4. /\ RemoveAt(servers, i) \in Lists
        /\ \A s \in Range(servers) : s # servers[i] => s \in Range(RemoveAt(servers, i))
    BY <2>1, <2>3, ShortenedList
  <2>5. /\ selected' \in Servers \cup {None}
        /\ selected' # None => selected' \in Range(RemoveAt(servers, i))
    BY <1>1, <2>1, <2>4 DEF Unselect, ListInv, TypeOK, SelectedInList
  <2>6. /\ latency \in [Servers -> Servers \cup {None}]
        /\ \A s \in Servers : latency[s] # None => Host[latency[s]] = Host[s]
    BY <1>1 DEF ListInv, TypeOK, PingInv
  <2> QED
    BY <1>1, <2>1, <2>2, <2>4, <2>5, <2>6, SaveKeeps
<1>2. ASSUME ListInv, NEW s \in Servers, AddServer(s)
      PROVE  ListInv'
  <2> DEFINE lat == [latency EXCEPT ![s] = None]
  <2>1. /\ up /\ s \notin Range(servers) /\ up' = up /\ selected_index' = selected_index
        /\ selected' = selected
        /\ UNCHANGED thread /\ SaveAndRefresh(Append(servers, s), lat)
    BY <1>2 DEF AddServer, choice
  <2>2. edits' \in 0..MaxEdits
    BY <1>2, EditsAssumption DEF AddServer, ListInv, TypeOK
  <2>3. servers \in Lists
    BY <1>2 DEF ListInv, TypeOK
  <2>4. Append(servers, s) \in Lists /\ Range(servers) \subseteq Range(Append(servers, s))
    BY <2>1, <2>3, AppendedList
  <2>5. /\ selected' \in Servers \cup {None}
        /\ selected' # None => selected' \in Range(Append(servers, s))
    BY <1>2, <2>1, <2>4 DEF ListInv, TypeOK, SelectedInList
  <2>6. /\ lat \in [Servers -> Servers \cup {None}]
        /\ \A t \in Servers : lat[t] # None => Host[lat[t]] = Host[t]
    BY <1>2 DEF ListInv, TypeOK, PingInv
  <2> HIDE DEF lat
  <2> QED
    BY <1>2, <2>1, <2>2, <2>4, <2>5, <2>6, SaveKeeps
<1> QED
  BY <1>1, <1>2

\* The ping thread.
LEMMA PingKeeps == ListInv /\ Ping => ListInv'
<1> SUFFICES ASSUME ListInv, Ping PROVE ListInv'
  OBVIOUS
<1>1. UNCHANGED <<up, file, servers, latency, frames, labels, rows, selected_index, selected,
                  saved, edits>>
  BY DEF Ping, PingRound, PingServer, PingPost, shown, choice
<1>2. /\ latencies' \in [Hosts -> Servers \cup {None}]
      /\ \A h \in Hosts : latencies'[h] # None => Host[latencies'[h]] = h
  <2>1. CASE PingRound
    BY <2>1 DEF PingRound, NoLatencies
  <2>2. CASE PingServer
    <3>1. PICK s \in Servers : latencies' = [latencies EXCEPT ![Host[s]] = s]
      <4>1. servers[ping] \in Servers
        BY <2>2, ListFacts DEF PingServer, ListInv, TypeOK
      <4> QED
        BY <2>2, <4>1 DEF PingServer
    <3> QED
      BY <3>1 DEF ListInv, TypeOK, PingInv
  <2>3. CASE PingPost
    BY <2>3 DEF PingPost, ListInv, TypeOK, PingInv
  <2> QED
    BY <2>1, <2>2, <2>3 DEF Ping
<1>3. ping' \in Nat /\ posted' \in BOOLEAN
  <2>1. ping \in Nat /\ posted \in BOOLEAN
    BY DEF ListInv, TypeOK
  <2>2. CASE PingRound
    BY <2>1, <2>2 DEF PingRound
  <2>3. CASE PingServer
    BY <2>1, <2>3 DEF PingServer
  <2>4. CASE PingPost
    BY <2>4 DEF PingPost
  <2> QED
    BY <2>2, <2>3, <2>4 DEF Ping
<1>4. TypeOK'
  BY <1>1, <1>2, <1>3 DEF ListInv, TypeOK
<1>5. PingInv'
  BY <1>1, <1>2 DEF ListInv, PingInv
<1> QED
  BY <1>1, <1>4, <1>5 DEF ListInv, StoppedInv, SelectedInList, ViewsAgree, LatencyOfHost

\* update_latencies(): it shows at an entry what was measured at its host.
LEMMA UpdateKeeps == ListInv /\ RunUpdate => ListInv'
<1> SUFFICES ASSUME ListInv, RunUpdate PROVE ListInv'
  OBVIOUS
<1>1. UNCHANGED <<up, file, servers, frames, rows, selected_index, selected, saved, ping,
                  latencies, edits>> /\ up /\ posted' = FALSE
  BY DEF RunUpdate, choice
<1>2. PICK reached \in SUBSET DOMAIN servers :
        /\ \A i \in reached : latencies[Host[servers[i]]] # None
        /\ latency' = [s \in Servers |-> IF \E i \in reached : servers[i] = s
                                         THEN latencies[Host[s]] ELSE latency[s]]
        /\ labels' = [i \in DOMAIN labels |-> IF i \in reached THEN latencies[Host[servers[i]]]
                                                               ELSE labels[i]]
  BY DEF RunUpdate
<1>3. \A i \in DOMAIN servers : servers[i] \in Servers /\ Host[servers[i]] \in Hosts
  BY ListFacts DEF ListInv, TypeOK, Hosts
<1>4. \A s \in Servers : Host[s] \in Hosts
  BY DEF Hosts
<1>5. /\ latency \in [Servers -> Servers \cup {None}]
      /\ latencies \in [Hosts -> Servers \cup {None}]
      /\ labels \in [DOMAIN frames -> Servers \cup {None}]
      /\ PingInv
  BY DEF ListInv, TypeOK
<1>6. /\ latency' \in [Servers -> Servers \cup {None}]
      /\ \A s \in Servers : latency'[s] # None => Host[latency'[s]] = Host[s]
  BY <1>2, <1>4, <1>5 DEF PingInv
<1>7. /\ labels' \in [DOMAIN frames -> Servers \cup {None}]
      /\ \A i \in DOMAIN labels : labels'[i] = labels[i] \/
           (i \in DOMAIN servers /\ (labels'[i] # None => Host[labels'[i]] = Host[servers[i]]))
  BY <1>2, <1>3, <1>5 DEF PingInv
<1>8. TypeOK'
  BY <1>1, <1>6, <1>7 DEF ListInv, TypeOK
<1>9. PingInv'
  BY <1>1, <1>5, <1>6 DEF PingInv
<1>10. LatencyOfHost'
  <2>1. up /\ saved => DOMAIN labels = DOMAIN servers
    BY <1>5 DEF ListInv, ViewsAgree
  <2> QED
    BY <1>1, <1>7, <2>1 DEF ListInv, LatencyOfHost
<1> QED
  BY <1>1, <1>8, <1>9, <1>10 DEF ListInv, StoppedInv, SelectedInList, ViewsAgree

\* The invariant of the server list: every callback of the Tk thread and every
\* step of the ping thread keeps it (ui/main.py:349-390,
\* 588-602, 675-693, 964-1053).
THEOREM ListInvariant == Spec => []ListInv
<1>1. ListInv /\ [Next]_vars => ListInv'
  <2> SUFFICES ASSUME ListInv, [Next]_vars PROVE ListInv'
    OBVIOUS
  <2>1. CASE UNCHANGED vars
    BY <2>1 DEF vars, shown, choice, thread, ListInv, TypeOK, PingInv, StoppedInv,
                SelectedInList, ViewsAgree, LatencyOfHost
  <2>2. CASE Next
    BY <2>2, ProcessKeeps, ClickKeeps, DialogKeeps, EditKeeps, PingKeeps, UpdateKeeps DEF Next
  <2> QED
    BY <2>1, <2>2
<1> QED
  BY <1>1, ListInvInit, PTL DEF Spec

\* Every state has the types of the module; no list is longer than there are
\* servers (ui/main.py:263-271, 588-602).
THEOREM ListTypeCorrect == Spec => []TypeOK
<1>1. ListInv => TypeOK
  BY DEF ListInv
<1> QED
  BY <1>1, ListInvariant, PTL

\* The selected server is one of the list, whatever was deleted and whatever
\* save failed (ui/main.py:990-1002).
THEOREM NoDeletedServerSelected == Spec => []SelectedInList
<1>1. ListInv => SelectedInList
  BY DEF ListInv
<1> QED
  BY <1>1, ListInvariant, PTL

\* Unless the latest save failed, the file, the entries and the rows of the
\* settings dialog are the list (ui/main.py:381-390, 990-1049).
THEOREM ViewsShowTheList == Spec => []ViewsAgree
<1>1. ListInv => ViewsAgree
  BY DEF ListInv
<1> QED
  BY <1>1, ListInvariant, PTL

\* Unless the latest save failed, each latency shown was measured at the host of
\* its entry, although the list is edited between the ping, the update and the
\* refresh (ui/main.py:372-390, 675-693).
THEOREM LatenciesBelong == Spec => []LatencyOfHost
<1>1. ListInv => LatencyOfHost
  BY DEF ListInv
<1> QED
  BY <1>1, ListInvariant, PTL
=============================================================================
