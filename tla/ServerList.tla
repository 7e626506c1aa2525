----------------------------- MODULE ServerList -----------------------------
(***************************************************************************)
(* The list of servers of the application (ui/main.py): the list itself,   *)
(* the entries that ServerListFrame shows for it, the rows of the settings *)
(* dialog, servers.json, and the ping thread, which walks the list while   *)
(* the Tk thread edits it.  A callback of the Tk thread is one action: it  *)
(* touches nothing that the ping thread writes before its update is run.   *)
(*                                                                         *)
(* A measured latency is named by the server that was pinged.  That a ping *)
(* fails, which is shown like no measurement, is left out.                 *)
(***************************************************************************)
EXTENDS Naturals, SequencesExt

CONSTANTS Servers,  \* the ServerInfo objects that the user may enter
          Host,     \* Host[s]: the host of s; servers may share one
          None,     \* no server; no latency
          Damaged,  \* a servers.json that cannot be read
          Closed,   \* the settings dialog is not open
          MaxEdits  \* bound: additions and deletions in one run of the application

ASSUME NoneAssumption == None \notin Servers

\* The user enters one server after the other.
ASSUME ServersAssumption == IsFiniteSet(Servers)
ASSUME EditsAssumption == MaxEdits \in Nat

VARIABLES
  up,              \* the application runs
  file,            \* servers.json; a file that is absent has no servers
  servers,         \* VPNApp.servers, the list that ServerListFrame.servers is, too
  latency,         \* latency[s]: the attribute of the server s
  frames,          \* the entries of the server list: which server each shows
  labels,          \* latency_labels: the latency each shows
  rows,            \* the rows of the settings dialog: which server each shows
  selected_index,  \* the number of the entry clicked last, 0 for none
  selected,        \* VPNApp.selected_server
  saved,           \* the latest _save_servers() succeeded
  ping,            \* where the ping thread is in the list; 0 while it sleeps
  latencies,       \* its dictionary: for each host, the server pinged last
  posted,          \* a call of update_latencies is in Tk's queue
  edits            \* additions and deletions so far, for the bound

shown  == <<frames, labels>>
choice == <<selected_index, selected>>
thread == <<ping, latencies, posted>>

vars == <<up, file, servers, latency, shown, rows, choice, saved, thread, edits>>

Hosts == {Host[s] : s \in Servers}

Lists == {l \in UNION {[1..n -> Servers] : n \in 0..Cardinality(Servers)} : IsInjective(l)}

TypeOK ==
  /\ up \in BOOLEAN /\ saved \in BOOLEAN /\ posted \in BOOLEAN
  /\ file \in Lists \cup {Damaged}
  /\ servers \in Lists /\ frames \in Lists /\ rows \in Lists \cup {Closed}
  /\ latency \in [Servers -> Servers \cup {None}]
  /\ labels \in [DOMAIN frames -> Servers \cup {None}]
  /\ selected_index \in 0..Cardinality(Servers)
  /\ selected \in Servers \cup {None}
  /\ ping \in Nat /\ edits \in 0..MaxEdits
  /\ latencies \in [Hosts -> Servers \cup {None}]

NoLatency   == [s \in Servers |-> None]
NoLatencies == [h \in Hosts |-> None]

\* The widgets for a list of servers: each entry shows the latency of its server.
Shows(list, lat) ==
  /\ frames' = list
  /\ labels' = [i \in DOMAIN list |-> lat[list[i]]]

\* No application, and no file; or servers.json as config/servers.example.json
\* was copied: the placeholder for a public key is not hex.
Init ==
  /\ up = FALSE /\ file \in {<<>>, Damaged}
  /\ servers = <<>> /\ latency = NoLatency
  /\ frames = <<>> /\ labels = <<>> /\ rows = Closed
  /\ selected_index = 0 /\ selected = None /\ saved = TRUE
  /\ ping = 0 /\ latencies = NoLatencies /\ posted = FALSE
  /\ edits = 0

-----------------------------------------------------------------------------
(* The process. *)

\* _load_servers() and the widgets.  A file that cannot be read ends it.
Start ==
  /\ ~up /\ file # Damaged
  /\ up' = TRUE
  /\ servers' = file
  /\ Shows(file, NoLatency)
  /\ UNCHANGED <<file, latency, rows, choice, saved, thread, edits>>

\* The window is closed, or the process dies: perhaps while a callback of the
\* settings dialog writes the file, which open() has emptied.
Die ==
  /\ up /\ up' = FALSE
  /\ \/ UNCHANGED file
     \/ rows # Closed /\ file' = Damaged
  /\ servers' = <<>> /\ latency' = NoLatency
  /\ Shows(<<>>, NoLatency) /\ rows' = Closed
  /\ selected_index' = 0 /\ selected' = None /\ saved' = TRUE
  /\ ping' = 0 /\ latencies' = NoLatencies /\ posted' = FALSE
  /\ edits' = 0

\* Somebody removes a file that cannot be read.
Repair ==
  /\ ~up /\ file = Damaged
  /\ file' = <<>>
  /\ UNCHANGED <<up, servers, latency, shown, rows, choice, saved, thread, edits>>

-----------------------------------------------------------------------------
(* The server list. *)

\* A click on an entry.  When the entry clicked before is not there any more,
\* server_frames[selected_index] raises before anything is assigned; when the
\* list has become shorter than what is shown, servers[index] does, later.
\* The settings dialog grabs all clicks.
Click(i) ==
  /\ up /\ rows = Closed
  /\ i \in DOMAIN frames /\ selected_index <= Len(frames)
  /\ selected_index' = i
  /\ selected' = IF i \in DOMAIN servers THEN servers[i] ELSE selected
  /\ UNCHANGED <<up, file, servers, latency, shown, rows, saved, thread, edits>>

-----------------------------------------------------------------------------
(* The settings dialog. *)

OpenSettings ==
  /\ up /\ rows = Closed
  /\ rows' = servers
  /\ UNCHANGED <<up, file, servers, latency, shown, choice, saved, thread, edits>>

CloseSettings ==
  /\ up /\ rows # Closed
  /\ rows' = Closed
  /\ UNCHANGED <<up, file, servers, latency, shown, choice, saved, thread, edits>>

\* Mutated form: the latency labels are not cleared with the entries.
SaveAndRefresh_KeepLabels(list, lat) ==
  /\ servers' = list /\ latency' = lat
  /\ saved' = TRUE /\ file' = list /\ rows' = list /\ frames' = list
  /\ labels' = labels \o [i \in DOMAIN list |-> lat[list[i]]]

\* Mutated form: the list is not saved.
SaveAndRefresh_NotSaved(list, lat) ==
  /\ servers' = list /\ latency' = lat
  /\ saved' = TRUE /\ rows' = list /\ Shows(list, lat) /\ UNCHANGED file

\* The end of delete_server() and add_server(): _save_servers(),
\* refresh_servers() and render_servers().  When the file cannot be opened it
\* stays, when it cannot be written it is damaged; the exception skips the rest.
SaveAndRefresh(list, lat) ==
  /\ servers' = list /\ latency' = lat
  /\ \/ /\ saved' = TRUE /\ file' = list
        /\ Shows(list, lat) /\ rows' = list
     \/ /\ saved' = FALSE /\ file' \in {file, Damaged}
        /\ UNCHANGED <<shown, rows>>

\* Mutated form: the server that is deleted is compared after the deletion.
Unselect_Late(i) ==
  selected' = IF i < Len(servers) /\ selected = servers[i + 1] THEN None ELSE selected

\* The deleted server is not selected any more.
Unselect(i) == selected' = IF selected = servers[i] THEN None ELSE selected

\* A row that is left from a failed save may lie behind the end of the list:
\* del raises, and nothing happens.
DeleteServer(i) ==
  /\ up /\ rows # Closed /\ edits < MaxEdits /\ i \in DOMAIN rows /\ i \in DOMAIN servers
  /\ Unselect(i)
  /\ SaveAndRefresh(RemoveAt(servers, i), latency)
  /\ edits' = edits + 1
  /\ UNCHANGED <<up, selected_index, thread>>

AddServer(s) ==
  /\ up /\ rows # Closed /\ edits < MaxEdits /\ s \notin Range(servers)
  /\ SaveAndRefresh(Append(servers, s), [latency EXCEPT ![s] = None])
  /\ edits' = edits + 1
  /\ UNCHANGED <<up, choice, thread>>

-----------------------------------------------------------------------------
(* The ping thread. *)

\* The sleep of 30 s is over, and so is any update posted before it.
PingRound ==
  /\ up /\ ping = 0 /\ ~posted
  /\ ping' = 1 /\ latencies' = NoLatencies
  /\ UNCHANGED <<up, file, servers, latency, shown, rows, choice, saved, posted, edits>>

\* The iterator takes what is at its place in the list by now.
PingServer ==
  /\ up /\ ping \in DOMAIN servers
  /\ latencies' = [latencies EXCEPT ![Host[servers[ping]]] = servers[ping]]
  /\ ping' = ping + 1
  /\ UNCHANGED <<up, file, servers, latency, shown, rows, choice, saved, posted, edits>>

\* Mutated form: the loop around the round is missing.
PingPost_Once ==
  /\ up /\ ping > Len(servers)
  /\ posted' = TRUE /\ ping' = ping
  /\ UNCHANGED <<up, file, servers, latency, shown, rows, choice, saved, latencies, edits>>

\* The list is at its end.
PingPost ==
  /\ up /\ ping > Len(servers)
  /\ posted' = TRUE /\ ping' = 0
  /\ UNCHANGED <<up, file, servers, latency, shown, rows, choice, saved, latencies, edits>>

\* update_latencies() in the Tk thread: the servers of the list that have been
\* pinged, in order, until there is no label for one.
RunUpdate ==
  LET pinged  == {i \in DOMAIN servers : latencies[Host[servers[i]]] # None}
      reached == {i \in pinged : \A j \in pinged : j < i => j \in DOMAIN labels}
      New(i)  == latencies[Host[servers[i]]]
  IN  /\ up /\ posted
      /\ posted' = FALSE
      /\ latency' = [s \in Servers |->
                       IF \E i \in reached : servers[i] = s THEN latencies[Host[s]] ELSE latency[s]]
      /\ labels' = [i \in DOMAIN labels |-> IF i \in reached THEN New(i) ELSE labels[i]]
      /\ UNCHANGED <<up, file, servers, frames, rows, choice, saved, ping, latencies, edits>>

Ping == PingRound \/ PingServer \/ PingPost

-----------------------------------------------------------------------------
Next ==
  \/ Start \/ Die \/ Repair
  \/ \E i \in 1..Cardinality(Servers) : Click(i) \/ DeleteServer(i)
  \/ OpenSettings \/ CloseSettings
  \/ \E s \in Servers : AddServer(s)
  \/ Ping \/ RunUpdate

\* The ping thread is scheduled, and Tk runs what is in its queue; nothing
\* makes the user act.
Spec == Init /\ [][Next]_vars /\ WF_vars(Ping) /\ WF_vars(RunUpdate)

-----------------------------------------------------------------------------
(* Properties. *)

\* The selected server is one of the list: a connection is never made to a
\* server that was deleted, even after saves that failed (ui/main.py:990-1002).
SelectedInList == selected # None => selected \in Range(servers)

\* Unless the latest save failed, what the user sees and what the next start
\* will load is the list: each entry and each row stands for the server that
\* a click on it or its button selects or deletes.
ViewsAgree == up /\ saved =>
  /\ file = servers /\ frames = servers
  /\ rows # Closed => rows = servers

\* ... and each latency shown is one of the entry's host, although servers were
\* deleted between the ping, the update and the refresh.
LatencyOfHost == up /\ saved =>
  \A i \in DOMAIN servers : labels[i] # None => Host[labels[i]] = Host[servers[i]]

\* Every server that stays in the list gets a latency, wherever the deletion of
\* others moves it while the ping thread walks the list.
Measured(s) == \E i \in DOMAIN frames : frames[i] = s /\ labels[i] # None

LatencyArrives == \A s \in Servers :
  up /\ s \in Range(frames) ~> Measured(s) \/ s \notin Range(frames) \/ ~saved \/ ~up
=============================================================================
